------------------------- MODULE SecureVideoProofs --------------------------
(***************************************************************************)
(* A secure session: what a helper writes can be used, for any number of   *)
(* helpers and in both builds; the flags of the player's buffers agree     *)
(* with the driver's queues (FlagsExact), and with its buffers counted the *)
(* player is mvx_secureplayer of SimplePlayers, whatever the helpers do.   *)
(*                                                                         *)
(* Helpers: a number is worth something only while the file is open, so    *)
(* the invariant says which files a helper has open at each step, and      *)
(* under which of its numbers.  That the end of the session and the end of *)
(* the allocation close other files than the buffer's follows: the files   *)
(* are of different kinds.                                                 *)
(*                                                                         *)
(* Player: the two queues of a port hold the numbers of the buffers that   *)
(* are flagged, each once (Owns).                                          *)
(***************************************************************************)
EXTENDS SecureVideo, FiniteSetTheorems, FunctionTheorems, SequenceTheorems, TLAPS

-----------------------------------------------------------------------------
(* Helpers. *)

HasSession == {"read", "ion", "alloc", "map", "free", "register", "load", "fill"}
HasIon     == {"alloc", "map", "free", "register"}
HasBuffer  == {"free", "register", "load", "fill"}
Before     == {"none", "main", "open", "context", "session", "read", "ion", "alloc"}

\* How far the buffer has come at each step.
BufferAt(j) ==
    /\ step[j] \in Before => buf[j] = "none"
    /\ step[j] = "map"  => buf[j] = "handle"
    /\ step[j] \in {"free", "register"} => buf[j] = "allocated"
    /\ step[j] = "load" => buf[j] = "registered"
    /\ step[j] = "fill" => buf[j] = Complete(j)
    /\ step[j] \in {"read", "load"} => j \in Firmware

FilesAt(j) ==
    /\ step[j] \in HasSession \cup {"session"} => open[j][at[j].tee] = "tee"
    /\ step[j] \in HasIon => open[j][at[j].ion] = "ion"
    /\ step[j] \in HasBuffer => open[j][at[j].buf] = "buffer"

DescAt(j) ==
    /\ step[j] \notin {"write", "ok", "error"} => desc[j] = EmptyDescriptor
    /\ step[j] = "write" =>
        IF desc[j].fd = -1
        THEN desc[j].info = "zero" /\ buf[j] # Complete(j)
        ELSE /\ open[j][desc[j].fd] = "buffer" /\ buf[j] = Complete(j)
             /\ desc[j].info = "ta" <=> j \in Firmware

SentAt(j) ==
    /\ step[j] \notin {"ok", "error"} => sent[j].n = "none"
    /\ sent[j].n = "whole" =>
        IF sent[j].fd = -1
        THEN sent[j].info = "zero" /\ buf[j] # Complete(j)
        ELSE /\ sent[j].file = "buffer" /\ buf[j] = Complete(j)
             /\ sent[j].info = "ta" <=> j \in Firmware

At(j) == BufferAt(j) /\ FilesAt(j) /\ DescAt(j) /\ SentAt(j)

HelperInv == HelperTypeOK /\ \A j \in Job : At(j)

-----------------------------------------------------------------------------

LEMMA InitHelperInv == HelperInit => HelperInv
  <1> SUFFICES ASSUME HelperInit PROVE HelperInv
    OBVIOUS
  <1> USE HelperAssumption
  <1>1. HelperTypeOK
    BY DEF HelperInit, HelperTypeOK, Fd, Numbers, Files, Steps, InTry, Descriptor, Answer,
           EmptyDescriptor, NoAnswer
  <1>2. ASSUME NEW j \in Job PROVE At(j)
    BY <1>2 DEF HelperInit, At, BufferAt, FilesAt, DescAt, SentAt, EmptyDescriptor, NoAnswer,
           HasSession, HasIon, HasBuffer, Before
  <1>3. QED
    BY <1>1, <1>2 DEF HelperInv

\* Only the helper of the request moves.
LEMMA OthersStay ==
  ASSUME NEW j \in Job, NEW k \in Job, HelperTypeOK, At(k),
         step'[k] = step[k], at'[k] = at[k], open'[k] = open[k], buf'[k] = buf[k],
         desc'[k] = desc[k], sent'[k] = sent[k]
  PROVE  At(k)'
  BY DEF At, BufferAt, FilesAt, DescAt, SentAt, Complete

LEMMA FrameOfHelper ==
  ASSUME NEW j \in Job, NEW k \in Job \ {j}, HelperTypeOK, Request(j) \/ Helper(j)
  PROVE  /\ step'[k] = step[k] /\ at'[k] = at[k] /\ open'[k] = open[k]
         /\ buf'[k] = buf[k] /\ desc'[k] = desc[k] /\ sent'[k] = sent[k]
  <1>1. CASE Request(j)
    BY <1>1 DEF HelperTypeOK, Request, Go
  <1>2. CASE Main(j)
    BY <1>2 DEF HelperTypeOK, Main, Go
  <1>3. CASE OpenDestination(j)
    BY <1>3 DEF HelperTypeOK, OpenDestination, Go, OpenAs, Lowest
  <1>4. CASE InitializeContext(j)
    BY <1>4 DEF HelperTypeOK, InitializeContext, Go, OpenAs, Lowest
  <1>5. CASE OpenSession(j)
    BY <1>5 DEF HelperTypeOK, OpenSession, Go
  <1>6. CASE ReadFirmwareBinary(j)
    BY <1>6 DEF HelperTypeOK, ReadFirmwareBinary, Go
  <1>7. CASE OpenIon(j)
    BY <1>7 DEF HelperTypeOK, OpenIon, Go, OpenAs, Lowest
  <1>8. CASE Allocate(j)
    BY <1>8 DEF HelperTypeOK, Allocate, Go, OpenAs, Lowest
  <1>9. CASE MapHandle(j)
    BY <1>9 DEF HelperTypeOK, MapHandle, Go, OpenAs, Lowest
  <1>10. CASE FreeHandle(j)
    BY <1>10 DEF HelperTypeOK, FreeHandle, Go
  <1>11. CASE Register(j)
    BY <1>11 DEF HelperTypeOK, Register, Go
  <1>12. CASE Load(j)
    BY <1>12 DEF HelperTypeOK, Load, Go
  <1>13. CASE Throw(j)
    BY <1>13 DEF HelperTypeOK, Throw, Go
  <1>14. CASE Fill(j)
    BY <1>14 DEF HelperTypeOK, Fill, Go
  <1>15. CASE Write(j)
    BY <1>15 DEF HelperTypeOK, Write, Go
  <1>16. QED
    BY <1>1, <1>2, <1>3, <1>4, <1>5, <1>6, <1>7, <1>8, <1>9, <1>10, <1>11, <1>12, <1>13, <1>14, <1>15 DEF Helper

\* A new file: the number was free, and nothing else changes in the table.
LEMMA OpenAsGives ==
  ASSUME HelperTypeOK, NEW j \in Job, NEW name \in Numbers, NEW file \in Files,
         OpenAs(j, name, file)
  PROVE  /\ at' \in [Job -> [Numbers -> Fd]] /\ open' \in [Job -> [Fd -> Files]]
         /\ \E f \in Fd : /\ open[j][f] = "closed"
                         /\ open'[j] = [open[j] EXCEPT ![f] = file]
                         /\ at'[j] = [at[j] EXCEPT ![name] = f]
  <1>1. PICK f \in Lowest(j) : /\ open' = [open EXCEPT ![j][f] = file]
                              /\ at' = [at EXCEPT ![j][name] = f]
    BY DEF OpenAs
  <1>2. f \in Fd /\ open[j][f] = "closed"
    BY DEF Lowest
  <1>3. at[j] \in [Numbers -> Fd] /\ open[j] \in [Fd -> Files]
    BY DEF HelperTypeOK
  <1>4. /\ at' = [at EXCEPT ![j] = [at[j] EXCEPT ![name] = f]]
        /\ open' = [open EXCEPT ![j] = [open[j] EXCEPT ![f] = file]]
    BY <1>1
  <1>5. at' \in [Job -> [Numbers -> Fd]] /\ at'[j] = [at[j] EXCEPT ![name] = f]
    BY <1>2, <1>3, <1>4 DEF HelperTypeOK
  <1>6. open' \in [Job -> [Fd -> Files]] /\ open'[j] = [open[j] EXCEPT ![f] = file]
    BY <1>2, <1>3, <1>4 DEF HelperTypeOK
  <1>7. QED
    BY <1>2, <1>5, <1>6

LEMMA TypeStep ==
  ASSUME HelperInv, NEW j \in Job, Request(j) \/ Helper(j)
  PROVE  HelperTypeOK'
  <1> USE HelperAssumption DEF HelperInv
  <1>1. CASE Request(j)
    BY <1>1 DEF HelperTypeOK, Steps, InTry, Fd, Files, Numbers, Descriptor, Answer, Request, Go
  <1>2. CASE Main(j)
    BY <1>2 DEF HelperTypeOK, Steps, InTry, Fd, Files, Numbers, Descriptor, Answer, Main, Go
  <1>3. CASE OpenDestination(j)
    <2>1. \/ OpenAs(j, "dst", "dst")
          \/ UNCHANGED <<at, open>>
      BY <1>3 DEF OpenDestination
    <2>2. at' \in [Job -> [Numbers -> Fd]] /\ open' \in [Job -> [Fd -> Files]]
      BY <2>1, OpenAsGives DEF HelperTypeOK, Numbers, Files
    <2>3. step' \in [Job -> Steps] /\ UNCHANGED <<desc, sent>>
      BY <1>3 DEF HelperTypeOK, Steps, InTry, OpenDestination, Go
    <2>4. buf' \in [Job -> {"none", "handle", "allocated", "registered", "loaded"}]
      BY <1>3 DEF HelperTypeOK, OpenDestination
    <2>5. QED
      BY <2>2, <2>3, <2>4 DEF HelperTypeOK
  <1>4. CASE InitializeContext(j)
    <2>1. \/ OpenAs(j, "tee", "tee")
          \/ UNCHANGED <<at, open>>
      BY <1>4 DEF InitializeContext
    <2>2. at' \in [Job -> [Numbers -> Fd]] /\ open' \in [Job -> [Fd -> Files]]
      BY <2>1, OpenAsGives DEF HelperTypeOK, Numbers, Files
    <2>3. step' \in [Job -> Steps] /\ UNCHANGED <<desc, sent>>
      BY <1>4 DEF HelperTypeOK, Steps, InTry, InitializeContext, Go
    <2>4. buf' \in [Job -> {"none", "handle", "allocated", "registered", "loaded"}]
      BY <1>4 DEF HelperTypeOK, InitializeContext
    <2>5. QED
      BY <2>2, <2>3, <2>4 DEF HelperTypeOK
  <1>5. CASE OpenSession(j)
    BY <1>5 DEF HelperTypeOK, Steps, InTry, Fd, Files, Numbers, Descriptor, Answer, OpenSession, Go
  <1>6. CASE ReadFirmwareBinary(j)
    BY <1>6 DEF HelperTypeOK, Steps, InTry, Fd, Files, Numbers, Descriptor, Answer, ReadFirmwareBinary, Go
  <1>7. CASE OpenIon(j)
    <2>1. \/ OpenAs(j, "ion", "ion")
          \/ UNCHANGED <<at, open>>
      BY <1>7 DEF OpenIon
    <2>2. at' \in [Job -> [Numbers -> Fd]] /\ open' \in [Job -> [Fd -> Files]]
      BY <2>1, OpenAsGives DEF HelperTypeOK, Numbers, Files
    <2>3. step' \in [Job -> Steps] /\ UNCHANGED <<desc, sent>>
      BY <1>7 DEF HelperTypeOK, Steps, InTry, OpenIon, Go
    <2>4. buf' \in [Job -> {"none", "handle", "allocated", "registered", "loaded"}]
      BY <1>7 DEF HelperTypeOK, OpenIon
    <2>5. QED
      BY <2>2, <2>3, <2>4 DEF HelperTypeOK
  <1>8. CASE Allocate(j)
    <2>1. \/ OpenAs(j, "buf", "buffer")
          \/ UNCHANGED <<at, open>>
      BY <1>8 DEF Allocate
    <2>2. at' \in [Job -> [Numbers -> Fd]] /\ open' \in [Job -> [Fd -> Files]]
      BY <2>1, OpenAsGives DEF HelperTypeOK, Numbers, Files
    <2>3. step' \in [Job -> Steps] /\ UNCHANGED <<desc, sent>>
      BY <1>8 DEF HelperTypeOK, Steps, InTry, Allocate, Go
    <2>4. buf' \in [Job -> {"none", "handle", "allocated", "registered", "loaded"}]
      BY <1>8 DEF HelperTypeOK, Allocate
    <2>5. QED
      BY <2>2, <2>3, <2>4 DEF HelperTypeOK
  <1>9. CASE MapHandle(j)
    <2>1. \/ OpenAs(j, "buf", "buffer")
          \/ UNCHANGED <<at, open>>
      BY <1>9 DEF MapHandle
    <2>2. at' \in [Job -> [Numbers -> Fd]] /\ open' \in [Job -> [Fd -> Files]]
      BY <2>1, OpenAsGives DEF HelperTypeOK, Numbers, Files
    <2>3. step' \in [Job -> Steps] /\ UNCHANGED <<desc, sent>>
      BY <1>9 DEF HelperTypeOK, Steps, InTry, MapHandle, Go
    <2>4. buf' \in [Job -> {"none", "handle", "allocated", "registered", "loaded"}]
      BY <1>9 DEF HelperTypeOK, MapHandle
    <2>5. QED
      BY <2>2, <2>3, <2>4 DEF HelperTypeOK
  <1>10. CASE FreeHandle(j)
    BY <1>10 DEF HelperTypeOK, Steps, InTry, Fd, Files, Numbers, Descriptor, Answer, FreeHandle, Go
  <1>11. CASE Register(j)
    BY <1>11 DEF HelperTypeOK, Steps, InTry, Fd, Files, Numbers, Descriptor, Answer, Register, Go, Closed
  <1>12. CASE Load(j)
    BY <1>12 DEF HelperTypeOK, Steps, InTry, Fd, Files, Numbers, Descriptor, Answer, Load, Go
  <1>13. CASE Throw(j)
    BY <1>13 DEF HelperTypeOK, Steps, InTry, Fd, Files, Numbers, Descriptor, Answer, Throw, Go, Closed, SessionEnd
  <1>14. CASE Fill(j)
    BY <1>14 DEF HelperTypeOK, Steps, InTry, Fd, Files, Numbers, Descriptor, Answer, Fill, Go, Closed, SessionEnd
  <1>15. CASE Write(j)
    BY <1>15 DEF HelperTypeOK, Steps, InTry, Fd, Files, Numbers, Descriptor, Answer, Write, Go, Success
  <1>16. QED
    BY <1>1, <1>2, <1>3, <1>4, <1>5, <1>6, <1>7, <1>8, <1>9, <1>10, <1>11, <1>12, <1>13, <1>14, <1>15 DEF Helper

LEMMA BufferStep ==
  ASSUME HelperInv, NEW j \in Job, Request(j) \/ Helper(j)
  PROVE  BufferAt(j)'
  <1>0. HelperTypeOK /\ BufferAt(j)
    BY DEF HelperInv, At
  <1> USE <1>0
  <1>1. CASE Request(j)
    BY <1>1 DEF HelperTypeOK, BufferAt, Complete, Before, InTry, Request, Go
  <1>2. CASE Main(j)
    BY <1>2 DEF HelperTypeOK, BufferAt, Complete, Before, InTry, Main, Go
  <1>3. CASE OpenDestination(j)
    BY <1>3 DEF HelperTypeOK, BufferAt, Complete, Before, InTry, OpenDestination, Go
  <1>4. CASE InitializeContext(j)
    BY <1>4 DEF HelperTypeOK, BufferAt, Complete, Before, InTry, InitializeContext, Go
  <1>5. CASE OpenSession(j)
    BY <1>5 DEF HelperTypeOK, BufferAt, Complete, Before, InTry, OpenSession, Go
  <1>6. CASE ReadFirmwareBinary(j)
    BY <1>6 DEF HelperTypeOK, BufferAt, Complete, Before, InTry, ReadFirmwareBinary, Go
  <1>7. CASE OpenIon(j)
    BY <1>7 DEF HelperTypeOK, BufferAt, Complete, Before, InTry, OpenIon, Go
  <1>8. CASE Allocate(j)
    BY <1>8 DEF HelperTypeOK, BufferAt, Complete, Before, InTry, Allocate, Go
  <1>9. CASE MapHandle(j)
    BY <1>9 DEF HelperTypeOK, BufferAt, Complete, Before, InTry, MapHandle, Go
  <1>10. CASE FreeHandle(j)
    BY <1>10 DEF HelperTypeOK, BufferAt, Complete, Before, InTry, FreeHandle, Go
  <1>11. CASE Register(j)
    BY <1>11 DEF HelperTypeOK, BufferAt, Complete, Before, InTry, Register, Go, Closed
  <1>12. CASE Load(j)
    BY <1>12 DEF HelperTypeOK, BufferAt, Complete, Before, InTry, Load, Go
  <1>13. CASE Throw(j)
    BY <1>13 DEF HelperTypeOK, BufferAt, Complete, Before, InTry, Throw, Go, Closed, SessionEnd
  <1>14. CASE Fill(j)
    BY <1>14 DEF HelperTypeOK, BufferAt, Complete, Before, InTry, Fill, Go, Closed, SessionEnd
  <1>15. CASE Write(j)
    BY <1>15 DEF HelperTypeOK, BufferAt, Complete, Before, InTry, Write, Go, Success
  <1>16. QED
    BY <1>1, <1>2, <1>3, <1>4, <1>5, <1>6, <1>7, <1>8, <1>9, <1>10, <1>11, <1>12, <1>13, <1>14, <1>15 DEF Helper

LEMMA Typed ==
  ASSUME HelperTypeOK, NEW j \in Job
  PROVE  /\ at[j] \in [Numbers -> Fd] /\ open[j] \in [Fd -> Files]
         /\ at[j].dst \in Fd /\ at[j].tee \in Fd /\ at[j].ion \in Fd /\ at[j].buf \in Fd
  BY DEF HelperTypeOK, Numbers

LEMMA FilesStep ==
  ASSUME HelperInv, NEW j \in Job, Request(j) \/ Helper(j)
  PROVE  FilesAt(j)'
  <1>0. HelperTypeOK /\ FilesAt(j)
    BY DEF HelperInv, At
  <1> USE <1>0
  <1>1. CASE Request(j)
    BY <1>1 DEF HelperTypeOK, FilesAt, HasSession, HasIon, HasBuffer, Request, Go
  <1>2. CASE Main(j)
    BY <1>2 DEF HelperTypeOK, FilesAt, HasSession, HasIon, HasBuffer, Main, Go
  <1>3. CASE OpenDestination(j)
    BY <1>3 DEF HelperTypeOK, FilesAt, HasSession, HasIon, HasBuffer, OpenDestination, Go
  <1>4. CASE InitializeContext(j)
    <2>1. step[j] = "context" /\ step'[j] = "session" /\ OpenAs(j, "tee", "tee")
      BY <1>4 DEF HelperTypeOK, InitializeContext, Go
    <2>2. PICK f \in Fd : /\ open[j][f] = "closed"
                          /\ open'[j] = [open[j] EXCEPT ![f] = "tee"]
                          /\ at'[j] = [at[j] EXCEPT !["tee"] = f]
      BY <2>1, OpenAsGives DEF Numbers, Files
    <2>3. QED
      BY <2>1, <2>2, Typed DEF FilesAt, HasSession, HasIon, HasBuffer, Numbers
  <1>5. CASE OpenSession(j)
    BY <1>5 DEF HelperTypeOK, FilesAt, HasSession, HasIon, HasBuffer, OpenSession, Go
  <1>6. CASE ReadFirmwareBinary(j)
    BY <1>6 DEF HelperTypeOK, FilesAt, HasSession, HasIon, HasBuffer, ReadFirmwareBinary, Go
  <1>7. CASE OpenIon(j)
    <2>1. step[j] = "ion" /\ step'[j] = "alloc" /\ OpenAs(j, "ion", "ion")
      BY <1>7 DEF HelperTypeOK, OpenIon, Go
    <2>2. PICK f \in Fd : /\ open[j][f] = "closed"
                          /\ open'[j] = [open[j] EXCEPT ![f] = "ion"]
                          /\ at'[j] = [at[j] EXCEPT !["ion"] = f]
      BY <2>1, OpenAsGives DEF Numbers, Files
    <2>3. QED
      BY <2>1, <2>2, Typed DEF FilesAt, HasSession, HasIon, HasBuffer, Numbers
  <1>8. CASE Allocate(j)
    <2>1. CASE HasIonMap
      BY <1>8, <2>1 DEF HelperTypeOK, FilesAt, HasSession, HasIon, HasBuffer, Allocate, Go
    <2>2. CASE ~HasIonMap
      <3>1. step[j] = "alloc" /\ step'[j] = "register" /\ OpenAs(j, "buf", "buffer")
        BY <1>8, <2>2 DEF HelperTypeOK, Allocate, Go
      <3>2. PICK f \in Fd : /\ open[j][f] = "closed"
                            /\ open'[j] = [open[j] EXCEPT ![f] = "buffer"]
                            /\ at'[j] = [at[j] EXCEPT !["buf"] = f]
        BY <3>1, OpenAsGives DEF Numbers, Files
      <3>3. QED
        BY <3>1, <3>2, Typed DEF FilesAt, HasSession, HasIon, HasBuffer, Numbers
    <2>3. QED
      BY <2>1, <2>2
  <1>9. CASE MapHandle(j)
    <2>1. step[j] = "map" /\ step'[j] = "free" /\ OpenAs(j, "buf", "buffer")
      BY <1>9 DEF HelperTypeOK, MapHandle, Go
    <2>2. PICK f \in Fd : /\ open[j][f] = "closed"
                          /\ open'[j] = [open[j] EXCEPT ![f] = "buffer"]
                          /\ at'[j] = [at[j] EXCEPT !["buf"] = f]
      BY <2>1, OpenAsGives DEF Numbers, Files
    <2>3. QED
      BY <2>1, <2>2, Typed DEF FilesAt, HasSession, HasIon, HasBuffer, Numbers
  <1>10. CASE FreeHandle(j)
    BY <1>10 DEF HelperTypeOK, FilesAt, HasSession, HasIon, HasBuffer, FreeHandle, Go
  <1>11. CASE Register(j)
    BY <1>11 DEF HelperTypeOK, FilesAt, HasSession, HasIon, HasBuffer, Register, Go, Closed
  <1>12. CASE Load(j)
    BY <1>12 DEF HelperTypeOK, FilesAt, HasSession, HasIon, HasBuffer, Load, Go
  <1>13. CASE Throw(j)
    BY <1>13 DEF HelperTypeOK, FilesAt, HasSession, HasIon, HasBuffer, Throw, Go, Closed, SessionEnd
  <1>14. CASE Fill(j)
    BY <1>14 DEF HelperTypeOK, FilesAt, HasSession, HasIon, HasBuffer, Fill, Go, Closed, SessionEnd
  <1>15. CASE Write(j)
    BY <1>15 DEF HelperTypeOK, FilesAt, HasSession, HasIon, HasBuffer, Write, Go, Success
  <1>16. QED
    BY <1>1, <1>2, <1>3, <1>4, <1>5, <1>6, <1>7, <1>8, <1>9, <1>10, <1>11, <1>12, <1>13, <1>14, <1>15 DEF Helper

LEMMA DescStep ==
  ASSUME HelperInv, NEW j \in Job, Request(j) \/ Helper(j)
  PROVE  DescAt(j)'
  <1>0. HelperTypeOK /\ BufferAt(j) /\ FilesAt(j) /\ DescAt(j)
    BY DEF HelperInv, At
  <1>1. CASE Throw(j)
    BY <1>0, <1>1 DEF HelperTypeOK, BufferAt, DescAt, EmptyDescriptor, Complete, Before, InTry,
       Throw, Go
  <1>2. CASE Fill(j)
    <2>1. /\ step[j] = "fill" /\ step'[j] = "write" /\ buf'[j] = buf[j]
          /\ desc'[j] = [fd |-> at[j].buf, info |-> IF j \in Firmware THEN "ta" ELSE "zero"]
          /\ open'[j] = [open[j] EXCEPT ![at[j].tee] = "closed"]
      BY <1>0, <1>2 DEF HelperTypeOK, Fill, Go, SessionEnd, Closed
    <2>2. at[j].buf \in Fd /\ at[j].buf # -1 /\ at[j].buf # at[j].tee
      BY <1>0, <2>1, Typed, HelperAssumption DEF FilesAt, HasBuffer, HasSession, Fd
    <2>3. open'[j][at[j].buf] = "buffer"
      BY <1>0, <2>1, <2>2, Typed DEF FilesAt, HasBuffer
    <2>4. QED
      BY <1>0, <2>1, <2>2, <2>3 DEF DescAt, BufferAt, Complete
  <1>3. CASE Write(j)
    BY <1>0, <1>3 DEF HelperTypeOK, DescAt, Write, Go
  <1>4. CASE ~(Throw(j) \/ Fill(j) \/ Write(j))
    <2>1. step[j] \notin {"write", "ok", "error"} /\ step'[j] # "write" /\ desc'[j] = desc[j]
      BY <1>0, <1>4 DEF HelperTypeOK, Helper, Go, Request, Main, OpenDestination,
         InitializeContext, OpenSession, ReadFirmwareBinary, OpenIon, Allocate, MapHandle,
         FreeHandle, Register, Load
    <2>2. QED
      BY <1>0, <2>1 DEF DescAt
  <1>5. QED
    BY <1>1, <1>2, <1>3, <1>4

LEMMA SentStep ==
  ASSUME HelperInv, NEW j \in Job, Request(j) \/ Helper(j)
  PROVE  SentAt(j)'
  <1>0. HelperTypeOK /\ DescAt(j) /\ SentAt(j)
    BY DEF HelperInv, At
  <1>1. CASE Write(j)
    <2>1. PICK n \in {"none", "part", "whole"} :
            /\ Go(j, IF Success(n) THEN "ok" ELSE "error")
            /\ sent' = [sent EXCEPT ![j] =
                 [n |-> n, fd |-> desc[j].fd, info |-> desc[j].info,
                  file |-> IF desc[j].fd \in Fd THEN open[j][desc[j].fd] ELSE "closed"]]
      BY <1>1 DEF Write
    <2>2. /\ step[j] = "write" /\ step'[j] \in {"ok", "error"} /\ buf'[j] = buf[j]
          /\ sent'[j].fd = desc[j].fd /\ sent'[j].info = desc[j].info
          /\ desc[j].fd # -1 => sent'[j].file = open[j][desc[j].fd]
      BY <1>0, <1>1, <2>1 DEF HelperTypeOK, Descriptor, Write, Go, Success
    <2>3. QED
      BY <1>0, <2>2 DEF DescAt, SentAt, Complete
  <1>2. CASE ~Write(j)
    <2>1. step[j] \notin {"ok", "error"} /\ step'[j] # "ok" /\ sent'[j] = sent[j]
      BY <1>0, <1>2 DEF HelperTypeOK, Helper, Go, Request, Main, OpenDestination,
         InitializeContext, OpenSession, ReadFirmwareBinary, OpenIon, Allocate, MapHandle,
         FreeHandle, Register, Load, Throw, Fill, InTry
    <2>2. QED
      BY <1>0, <2>1 DEF SentAt
  <1>3. QED
    BY <1>1, <1>2

LEMMA AtStep ==
  ASSUME HelperInv, NEW j \in Job, Request(j) \/ Helper(j)
  PROVE  At(j)'
  BY BufferStep, FilesStep, DescStep, SentStep DEF At

LEMMA NextHelperInv == HelperInv /\ [HelperNext]_hvars => HelperInv'
  <1> SUFFICES ASSUME HelperInv, [HelperNext]_hvars PROVE HelperInv'
    OBVIOUS
  <1>1. ASSUME NEW j \in Job, Request(j) \/ Helper(j) PROVE HelperInv'
    <2>1. HelperTypeOK'
      BY <1>1, TypeStep
    <2>2. At(j)'
      BY <1>1, AtStep
    <2>3. ASSUME NEW k \in Job \ {j} PROVE At(k)'
      BY <1>1, <2>3, FrameOfHelper, OthersStay DEF HelperInv
    <2>4. QED
      BY <2>1, <2>2, <2>3 DEF HelperInv
  <1>2. CASE UNCHANGED hvars
    <2>1. HelperTypeOK'
      BY <1>2 DEF HelperInv, HelperTypeOK, hvars
    <2>2. ASSUME NEW k \in Job PROVE At(k)'
      BY <1>2, <2>2, OthersStay DEF HelperInv, hvars
    <2>3. QED
      BY <2>1, <2>2 DEF HelperInv
  <1>3. QED
    BY <1>1, <1>2 DEF HelperNext

-----------------------------------------------------------------------------
(* Queues of numbers. *)

\* The parts of a sequence that is not empty.
LEMMA TailOf ==
  ASSUME NEW S, NEW s \in Seq(S), s # <<>>
  PROVE  /\ Len(s) \in Nat /\ Len(s) > 0 /\ Len(Tail(s)) = Len(s) - 1
         /\ Head(s) = s[1] /\ Head(s) \in S /\ Tail(s) \in Seq(S)
         /\ \A i \in 1..Len(Tail(s)) : Tail(s)[i] = s[i + 1] /\ i + 1 \in 1..Len(s)
  BY HeadTailProperties, LenProperties

-----------------------------------------------------------------------------
(* A view of a sequence: each element as the function m shows it. *)

Mapped(q, m) == [k \in DOMAIN q |-> m[q[k]]]

Shows(m, S, T) == m \in [S -> T]

LEMMA MappedParts ==
  ASSUME NEW S, NEW T, NEW m, NEW q, Shows(m, S, T), q \in Seq(S)
  PROVE  /\ Mapped(q, m) \in Seq(T) /\ Len(Mapped(q, m)) = Len(q) /\ Len(q) \in Nat
         /\ \A k \in 1..Len(q) : Mapped(q, m)[k] = m[q[k]]
  <1>1. /\ Len(q) \in Nat /\ DOMAIN q = 1..Len(q) /\ \A k \in 1..Len(q) : q[k] \in S
    BY LenProperties, ElementOfSeq
  <1>2. \A k \in 1..Len(q) : Mapped(q, m)[k] = m[q[k]] /\ m[q[k]] \in T
    BY <1>1 DEF Mapped, Shows
  <1>3. Mapped(q, m) \in [1..Len(q) -> T]
    BY <1>1, <1>2 DEF Mapped
  <1>4. Mapped(q, m) \in Seq(T) /\ Len(Mapped(q, m)) = Len(q)
    BY <1>1, <1>3
  <1>5. QED
    BY <1>1, <1>2, <1>4

LEMMA MappedEmpty ==
  ASSUME NEW S, NEW T, NEW m, NEW q, Shows(m, S, T), q \in Seq(S)
  PROVE  (Mapped(q, m) = <<>>) <=> (q = <<>>)
  <1>1. Mapped(q, m) \in Seq(T) /\ Len(Mapped(q, m)) = Len(q)
    BY MappedParts
  <1>2. QED
    BY <1>1, EmptySeq

LEMMA MappedTail ==
  ASSUME NEW S, NEW T, NEW m, NEW q, Shows(m, S, T), q \in Seq(S), q # <<>>
  PROVE  Mapped(Tail(q), m) = Tail(Mapped(q, m)) /\ Head(Mapped(q, m)) = m[Head(q)]
  <1>1. PICK u \in Seq(S) :
           /\ u = Tail(q) /\ Len(q) \in Nat /\ Len(q) > 0 /\ Len(u) = Len(q) - 1 /\ Head(q) = q[1]
           /\ \A i \in 1..Len(u) : u[i] = q[i + 1] /\ i + 1 \in 1..Len(q)
    BY TailOf
  <1>2. PICK v \in Seq(T) : /\ v = Mapped(q, m) /\ Len(v) = Len(q)
                            /\ \A k \in 1..Len(q) : v[k] = m[q[k]]
    <2>1. Mapped(q, m) \in Seq(T) /\ Len(Mapped(q, m)) = Len(q)
      BY MappedParts
    <2>2. \A k \in 1..Len(q) : Mapped(q, m)[k] = m[q[k]]
      BY LenProperties DEF Mapped
    <2>3. QED
      BY <2>1, <2>2
  <1>3. PICK x \in Seq(T) : /\ x = Tail(v) /\ Len(x) = Len(v) - 1 /\ Head(v) = v[1]
                            /\ \A i \in 1..Len(x) : x[i] = v[i + 1] /\ i + 1 \in 1..Len(v)
    <2>1. v # <<>>
      BY <1>1, <1>2, EmptySeq
    <2>2. QED
      BY <2>1, TailOf
  <1>4. PICK w \in Seq(T) : /\ w = Mapped(u, m) /\ Len(w) = Len(u)
                            /\ \A k \in 1..Len(u) : w[k] = m[u[k]]
    <2>1. Mapped(u, m) \in Seq(T) /\ Len(Mapped(u, m)) = Len(u)
      BY MappedParts
    <2>2. \A k \in 1..Len(u) : Mapped(u, m)[k] = m[u[k]]
      BY LenProperties DEF Mapped
    <2>3. QED
      BY <2>1, <2>2
  <1>5. Len(w) = Len(x) /\ \A i \in 1..Len(w) : w[i] = x[i]
    <2>1. Len(w) = Len(u) /\ Len(x) = Len(u) /\ Len(v) = Len(q)
      BY <1>1, <1>2, <1>3, <1>4
    <2>2. ASSUME NEW i \in 1..Len(w) PROVE w[i] = x[i]
      <3>1. i \in 1..Len(u) /\ i \in 1..Len(x)
        BY <2>1, <2>2
      <3>2. w[i] = m[u[i]] /\ u[i] = q[i + 1] /\ i + 1 \in 1..Len(q)
        BY <1>1, <1>4, <3>1
      <3>3. x[i] = v[i + 1]
        BY <1>3, <3>1
      <3>4. v[i + 1] = m[q[i + 1]]
        BY <1>2, <3>2
      <3>5. QED
        BY <3>2, <3>3, <3>4
    <2>3. QED
      BY <2>1, <2>2
  <1>6. w = x
    BY <1>5, SeqEqual
  <1>7. 1 \in 1..Len(q)
    BY <1>1
  <1>8. Head(v) = m[Head(q)]
    BY <1>1, <1>2, <1>3, <1>7
  <1>9. QED
    BY <1>1, <1>2, <1>3, <1>4, <1>6, <1>8

LEMMA MappedAppend ==
  ASSUME NEW S, NEW T, NEW m, NEW q, NEW e, Shows(m, S, T), q \in Seq(S), e \in S
  PROVE  Mapped(Append(q, e), m) = Append(Mapped(q, m), m[e])
  <1>1. PICK u \in Seq(S) :
           /\ u = Append(q, e) /\ Len(q) \in Nat /\ Len(u) = Len(q) + 1 /\ u[Len(q) + 1] = e
           /\ \A i \in 1..Len(q) : u[i] = q[i]
    <2>1. /\ Append(q, e) \in Seq(S) /\ Len(q) \in Nat /\ Len(Append(q, e)) = Len(q) + 1
          /\ Append(q, e)[Len(q) + 1] = e /\ \A i \in 1..Len(q) : Append(q, e)[i] = q[i]
      OBVIOUS
    <2>2. QED
      BY <2>1, Zenon
  <1>2. PICK v \in Seq(T) : /\ v = Mapped(q, m) /\ Len(v) = Len(q)
                            /\ \A k \in 1..Len(q) : v[k] = m[q[k]]
    <2>1. Mapped(q, m) \in Seq(T) /\ Len(Mapped(q, m)) = Len(q)
      BY MappedParts
    <2>2. \A k \in 1..Len(q) : Mapped(q, m)[k] = m[q[k]]
      BY LenProperties DEF Mapped
    <2>3. QED
      BY <2>1, <2>2
  <1>3. PICK x \in Seq(T) : /\ x = Append(v, m[e]) /\ Len(x) = Len(v) + 1 /\ x[Len(v) + 1] = m[e]
                            /\ \A i \in 1..Len(v) : x[i] = v[i]
    <2>1. PICK f \in T : f = m[e]
      BY DEF Shows
    <2>2. /\ Append(v, f) \in Seq(T) /\ Len(Append(v, f)) = Len(v) + 1
          /\ Append(v, f)[Len(v) + 1] = f /\ \A i \in 1..Len(v) : Append(v, f)[i] = v[i]
      OBVIOUS
    <2>3. QED
      BY <2>1, <2>2, Zenon
  <1>4. PICK w \in Seq(T) : /\ w = Mapped(u, m) /\ Len(w) = Len(u)
                            /\ \A k \in 1..Len(u) : w[k] = m[u[k]]
    <2>1. Mapped(u, m) \in Seq(T) /\ Len(Mapped(u, m)) = Len(u)
      BY MappedParts
    <2>2. \A k \in 1..Len(u) : Mapped(u, m)[k] = m[u[k]]
      BY LenProperties DEF Mapped
    <2>3. QED
      BY <2>1, <2>2
  <1>5. \A i \in 1..Len(w) : i \in 1..Len(q) \/ i = Len(q) + 1
    BY <1>1, <1>4
  <1>6. Len(w) = Len(x) /\ \A i \in 1..Len(w) : w[i] = x[i]
    BY <1>1, <1>2, <1>3, <1>4, <1>5
  <1>7. w = x
    BY <1>6, SeqEqual
  <1>8. QED
    BY <1>1, <1>2, <1>3, <1>4, <1>7

-----------------------------------------------------------------------------
(* Buffers.  s and t hold the numbers of the buffers flagged in f. *)

Owns(f, s, t) ==
    /\ f \in Seq(BOOLEAN) /\ s \in Seq(1..Len(f)) /\ t \in Seq(1..Len(f))
    /\ \A i, j \in 1..Len(s) : s[i] = s[j] => i = j
    /\ \A i, j \in 1..Len(t) : t[i] = t[j] => i = j
    /\ \A i \in 1..Len(s), j \in 1..Len(t) : s[i] # t[j]
    /\ \A b \in 1..Len(f) :
          f[b] <=> (\E i \in 1..Len(s) : s[i] = b) \/ (\E i \in 1..Len(t) : t[i] = b)

LEMMA OwnsSwapped == ASSUME NEW f, NEW s, NEW t, Owns(f, s, t) PROVE Owns(f, t, s)
  BY DEF Owns

\* The first of one queue becomes the last of the other.
LEMMA OwnsMoved ==
  ASSUME NEW f, NEW s, NEW t, Owns(f, s, t), s # <<>>
  PROVE  Owns(f, Tail(s), Append(t, Head(s)))
  <1> DEFINE B == 1..Len(f)
             u == Tail(s)
             v == Append(t, Head(s))
  <1>1. f \in Seq(BOOLEAN) /\ s \in Seq(B) /\ t \in Seq(B)
    BY DEF Owns
  <1> HIDE DEF B
  <1>2. /\ Len(s) \in Nat /\ Len(s) > 0 /\ Len(u) = Len(s) - 1 /\ Head(s) = s[1]
        /\ Head(s) \in B /\ u \in Seq(B)
        /\ \A i \in 1..Len(u) : u[i] = s[i + 1] /\ i + 1 \in 1..Len(s)
    BY <1>1, TailOf
  <1>3. /\ v \in Seq(B) /\ Len(t) \in Nat /\ Len(v) = Len(t) + 1 /\ v[Len(t) + 1] = s[1]
        /\ \A i \in 1..Len(t) : v[i] = t[i]
    BY <1>1, <1>2
  <1> HIDE DEF u, v
  <1>4. /\ \A i, j \in 1..Len(s) : s[i] = s[j] => i = j
        /\ \A i, j \in 1..Len(t) : t[i] = t[j] => i = j
        /\ \A i \in 1..Len(s), j \in 1..Len(t) : s[i] # t[j]
        /\ \A b \in B : f[b] <=> (\E i \in 1..Len(s) : s[i] = b) \/ (\E i \in 1..Len(t) : t[i] = b)
    BY DEF Owns, B
  <1>5. \A j \in 1..Len(v) : j \in 1..Len(t) \/ j = Len(t) + 1
    BY <1>3
  <1>6. 1 \in 1..Len(s) /\ \A i \in 1..Len(s) : i = 1 \/ (i - 1 \in 1..Len(u) /\ u[i - 1] = s[i])
    BY <1>2
  <1>7. \A i, j \in 1..Len(u) : u[i] = u[j] => i = j
    <2> TAKE i, j \in 1..Len(u)
    <2>1. s[i + 1] = s[j + 1] => i + 1 = j + 1
      BY <1>2, <1>4
    <2>2. QED
      BY <1>2, <2>1
  <1>8. \A i, j \in 1..Len(v) : v[i] = v[j] => i = j
    <2> TAKE i, j \in 1..Len(v)
    <2>1. CASE i \in 1..Len(t) /\ j \in 1..Len(t)
      BY <1>3, <1>4, <2>1
    <2>2. \A k \in 1..Len(t) : v[k] # v[Len(t) + 1]
      <3> TAKE k \in 1..Len(t)
      <3>1. s[1] # t[k]
        BY <1>4, <1>6
      <3>2. QED
        BY <1>3, <3>1
    <2>3. QED
      BY <1>5, <2>1, <2>2
  <1>9. \A i \in 1..Len(u), j \in 1..Len(v) : u[i] # v[j]
    <2> TAKE i \in 1..Len(u), j \in 1..Len(v)
    <2>1. CASE j \in 1..Len(t)
      <3>1. s[i + 1] # t[j]
        BY <1>2, <1>4, <2>1
      <3>2. QED
        BY <1>2, <1>3, <2>1, <3>1
    <2>2. CASE j = Len(t) + 1
      <3> DEFINE k == i + 1
      <3>0. k \in 1..Len(s) /\ k # 1 /\ 1 \in 1..Len(s)
        BY <1>2, <1>6
      <3> HIDE DEF k
      <3>a. s[k] # s[1]
        BY <1>4, <3>0
      <3>1. s[i + 1] # s[1]
        BY <3>a DEF k
      <3>2. QED
        BY <1>2, <1>3, <2>2, <3>1
    <2>3. QED
      BY <1>5, <2>1, <2>2
  <1>10. ASSUME NEW b \in B
         PROVE  f[b] <=> (\E i \in 1..Len(u) : u[i] = b) \/ (\E i \in 1..Len(v) : v[i] = b)
    <2>1. Len(t) + 1 \in 1..Len(v) /\ \A i \in 1..Len(t) : i \in 1..Len(v)
      BY <1>3
    <2>2. (\E i \in 1..Len(v) : v[i] = b) <=> s[1] = b \/ \E i \in 1..Len(t) : t[i] = b
      BY <1>3, <1>5, <2>1
    <2>3. (\E i \in 1..Len(s) : s[i] = b) <=> s[1] = b \/ \E i \in 1..Len(u) : u[i] = b
      BY <1>2, <1>6
    <2>4. QED
      BY <1>4, <2>2, <2>3
  <1>11. QED
    BY <1>1, <1>2, <1>3, <1>7, <1>8, <1>9, <1>10 DEF Owns, B, u, v

\* What raising or lowering one flag leaves.
LEMMA FlagChanged ==
  ASSUME NEW f \in Seq(BOOLEAN), NEW h \in 1..Len(f), NEW l \in BOOLEAN
  PROVE  /\ [f EXCEPT ![h] = l] \in Seq(BOOLEAN)
         /\ Len([f EXCEPT ![h] = l]) = Len(f)
         /\ \A b \in 1..Len(f) : [f EXCEPT ![h] = l][b] <=> IF b = h THEN l ELSE f[b]
  <1>1. f \in [1..Len(f) -> BOOLEAN] /\ Len(f) \in Nat
    BY LenProperties
  <1>2. /\ [f EXCEPT ![h] = l] \in Seq(BOOLEAN)
        /\ Len([f EXCEPT ![h] = l]) = Len(f)
    BY ExceptSeq
  <1>3. \A b \in 1..Len(f) : [f EXCEPT ![h] = l][b] <=> IF b = h THEN l ELSE f[b]
    BY <1>1
  <1>4. QED
    BY <1>2, <1>3

\* The head of the second queue is freed.
LEMMA OwnsTaken ==
  ASSUME NEW f, NEW s, NEW t, Owns(f, s, t), t # <<>>
  PROVE  /\ Head(t) \in 1..Len(f) /\ f[Head(t)]
         /\ Owns([f EXCEPT ![Head(t)] = FALSE], s, Tail(t))
  <1> DEFINE B == 1..Len(f)
             u == Tail(t)
             h == Head(t)
             g == [f EXCEPT ![h] = FALSE]
  <1>1. f \in Seq(BOOLEAN) /\ s \in Seq(B) /\ t \in Seq(B) /\ Len(f) \in Nat
    BY DEF Owns
  <1>2. /\ Len(t) \in Nat /\ Len(t) > 0 /\ Len(u) = Len(t) - 1 /\ h = t[1] /\ h \in B
        /\ u \in Seq(B) /\ \A i \in 1..Len(u) : u[i] = t[i + 1] /\ i + 1 \in 1..Len(t)
    <2> HIDE DEF B
    <2>1. QED
      BY <1>1, TailOf
  <1>3. /\ \A i, j \in 1..Len(s) : s[i] = s[j] => i = j
        /\ \A i, j \in 1..Len(t) : t[i] = t[j] => i = j
        /\ \A i \in 1..Len(s), j \in 1..Len(t) : s[i] # t[j]
        /\ \A b \in B : f[b] <=> (\E i \in 1..Len(s) : s[i] = b) \/ (\E i \in 1..Len(t) : t[i] = b)
    BY DEF Owns
  <1> HIDE DEF u, h
  <1>4. g \in Seq(BOOLEAN) /\ Len(g) = Len(f) /\ \A b \in B : g[b] <=> IF b = h THEN FALSE ELSE f[b]
    <2>1. h \in 1..Len(f)
      BY <1>2
    <2>2. QED
      BY <1>1, <2>1, FlagChanged
  <1> HIDE DEF g, B
  <1>5. 1 \in 1..Len(t) /\ \A i \in 1..Len(t) : i = 1 \/ (i - 1 \in 1..Len(u) /\ u[i - 1] = t[i])
    BY <1>2
  <1>6. f[h]
    BY <1>2, <1>3, <1>5
  <1>7. \A i, j \in 1..Len(u) : u[i] = u[j] => i = j
    <2> TAKE i, j \in 1..Len(u)
    <2>1. t[i + 1] = t[j + 1] => i + 1 = j + 1
      BY <1>2, <1>3
    <2>2. QED
      BY <1>2, <2>1
  <1>8. \A i \in 1..Len(u) : u[i] # h
    <2> TAKE i \in 1..Len(u)
    <2>1. i + 1 # 1 /\ t[i + 1] # t[1]
      BY <1>2, <1>3, <1>5
    <2>2. QED
      BY <1>2, <2>1
  <1>9. ASSUME NEW b \in B
        PROVE  g[b] <=> (\E i \in 1..Len(s) : s[i] = b) \/ (\E i \in 1..Len(u) : u[i] = b)
    <2>1. CASE b = h
      <3>1. ~g[b]
        BY <1>4, <2>1
      <3>2. \A i \in 1..Len(s) : s[i] # b
        BY <1>2, <1>3, <1>5, <2>1
      <3>3. QED
        BY <1>8, <2>1, <3>1, <3>2
    <2>2. CASE b # h
      <3>1. (\E i \in 1..Len(t) : t[i] = b) <=> \E i \in 1..Len(u) : u[i] = b
        BY <1>2, <1>5, <2>2
      <3>2. g[b] <=> f[b]
        BY <1>4, <2>2
      <3>3. QED
        BY <1>3, <3>1, <3>2
    <2>3. QED
      BY <2>1, <2>2
  <1>10. \A i \in 1..Len(s), j \in 1..Len(u) : s[i] # u[j]
    BY <1>2, <1>3
  <1>11. Owns(g, s, u)
    <2>1. 1..Len(g) = B
      BY <1>4 DEF B
    <2>2. QED
      BY <1>1, <1>2, <1>3, <1>4, <1>7, <1>9, <1>10, <2>1 DEF Owns
  <1>12. QED
    BY <1>2, <1>6, <1>11 DEF B, g, h, u

\* The head of the second queue goes back to the end of the first.
LEMMA OwnsReturned ==
  ASSUME NEW f, NEW s, NEW t, Owns(f, s, t), t # <<>>
  PROVE  Owns([f EXCEPT ![Head(t)] = TRUE], Append(s, Head(t)), Tail(t))
  <1>1. f \in Seq(BOOLEAN) /\ Head(t) \in 1..Len(f) /\ f[Head(t)]
    BY OwnsTaken DEF Owns
  <1>2. [f EXCEPT ![Head(t)] = TRUE] = f
    BY <1>1
  <1>3. Owns(f, Tail(t), Append(s, Head(t)))
    BY OwnsSwapped, OwnsMoved
  <1>4. QED
    BY <1>2, <1>3, OwnsSwapped

\* The first k of n buffers are queued in order.
LEMMA OwnsFirst ==
  ASSUME NEW n \in Nat, NEW k \in 0..n, NEW f \in Seq(BOOLEAN), Len(f) = n,
         \A i \in 1..n : f[i] <=> i <= k
  PROVE  Owns(f, [i \in 1..k |-> i], <<>>)
  <1> DEFINE s == [i \in 1..k |-> i]
  <1>1. s \in Seq(1..n) /\ Len(s) = k /\ \A i \in 1..k : s[i] = i
    OBVIOUS
  <1> HIDE DEF s
  <1>2. ASSUME NEW b \in 1..Len(f) PROVE f[b] <=> \E i \in 1..Len(s) : s[i] = b
    BY <1>1
  <1>3. Owns(f, s, <<>>)
    BY <1>1, <1>2 DEF Owns
  <1>4. QED
    BY <1>3 DEF s

Raised(f)   == {b \in DOMAIN f : f[b]}
Elements(s) == {s[k] : k \in DOMAIN s}

\* As many buffers are flagged as are in the queues.
LEMMA OwnsCounted ==
  ASSUME NEW f, NEW s, NEW t, Owns(f, s, t)
  PROVE  /\ Cardinality(Raised(f)) = Len(s) + Len(t) /\ Len(s \o t) = Len(s) + Len(t)
         /\ Elements(s \o t) = Raised(f)
  <1> DEFINE flagged == {b \in DOMAIN f : f[b]}
             r == s \o t
             B == 1..Len(f)
  <1>1. /\ f \in Seq(BOOLEAN) /\ s \in Seq(B) /\ t \in Seq(B) /\ DOMAIN f = B
        /\ Len(s) \in Nat /\ Len(t) \in Nat
    BY DEF Owns
  <1>2. /\ \A i, j \in 1..Len(s) : s[i] = s[j] => i = j
        /\ \A i, j \in 1..Len(t) : t[i] = t[j] => i = j
        /\ \A i \in 1..Len(s), j \in 1..Len(t) : s[i] # t[j]
        /\ \A b \in B : f[b] <=> (\E i \in 1..Len(s) : s[i] = b) \/ (\E i \in 1..Len(t) : t[i] = b)
    BY DEF Owns
  <1> HIDE DEF B
  <1>3. /\ Len(r) = Len(s) + Len(t) /\ DOMAIN r = 1..Len(r) /\ r \in Seq(B)
        /\ \A i \in 1..Len(s) : r[i] = s[i] /\ i \in 1..Len(r)
        /\ \A i \in 1..Len(t) : r[Len(s) + i] = t[i] /\ Len(s) + i \in 1..Len(r)
    BY <1>1
  <1> HIDE DEF r
  <1>4. \A k \in 1..Len(r) : k \in 1..Len(s) \/ (k - Len(s) \in 1..Len(t) /\ Len(s) + (k - Len(s)) = k)
    BY <1>1, <1>3
  <1>5. ASSUME NEW k \in 1..Len(r) PROVE r[k] \in flagged
    <2>1. r[k] \in B
      BY <1>3
    <2>2. CASE k \in 1..Len(s)
      <3>1. f[r[k]]
        BY <1>2, <1>3, <2>1, <2>2
      <3>2. QED
        BY <1>1, <2>1, <3>1
    <2>3. CASE k - Len(s) \in 1..Len(t)
      <3>1. r[k] = t[k - Len(s)]
        BY <1>3, <1>4, <2>3
      <3>2. f[r[k]]
        BY <1>2, <2>1, <2>3, <3>1
      <3>3. QED
        BY <1>1, <2>1, <3>2
    <2>4. QED
      BY <1>4, <2>2, <2>3
  <1>6. \A b \in flagged : \E k \in 1..Len(r) : r[k] = b
    <2> TAKE b \in flagged
    <2>1. (\E i \in 1..Len(s) : s[i] = b) \/ (\E i \in 1..Len(t) : t[i] = b)
      BY <1>1, <1>2
    <2>2. QED
      BY <1>3, <2>1
  <1>7. \A j, k \in 1..Len(r) : r[j] = r[k] => j = k
    <2> TAKE j, k \in 1..Len(r)
    <2> HAVE r[j] = r[k]
    <2>1. CASE j \in 1..Len(s) /\ k \in 1..Len(s)
      BY <1>2, <1>3, <2>1
    <2>2. CASE j \in 1..Len(s) /\ k - Len(s) \in 1..Len(t)
      <3>1. r[j] = s[j] /\ r[k] = t[k - Len(s)]
        BY <1>3, <1>4, <2>2
      <3>2. s[j] # t[k - Len(s)]
        BY <1>2, <2>2
      <3>3. QED
        BY <3>1, <3>2
    <2>3. CASE j - Len(s) \in 1..Len(t) /\ k \in 1..Len(s)
      <3>1. r[k] = s[k] /\ r[j] = t[j - Len(s)]
        BY <1>3, <1>4, <2>3
      <3>2. s[k] # t[j - Len(s)]
        BY <1>2, <2>3
      <3>3. QED
        BY <3>1, <3>2
    <2>4. CASE j - Len(s) \in 1..Len(t) /\ k - Len(s) \in 1..Len(t)
      <3> DEFINE m == j - Len(s)
                 n == k - Len(s)
      <3>1. m \in 1..Len(t) /\ n \in 1..Len(t) /\ Len(s) + m = j /\ Len(s) + n = k
        BY <1>4, <2>4
      <3> HIDE DEF m, n
      <3>2. r[j] = t[m] /\ r[k] = t[n]
        BY <1>3, <3>1
      <3>3. t[m] = t[n]
        BY <3>2
      <3>4. \A a, b \in 1..Len(t) : t[a] = t[b] => a = b
        BY <1>2
      <3>5. m = n
        BY <3>1, <3>3, <3>4
      <3>6. QED
        BY <3>1, <3>5
    <2>5. QED
      BY <1>4, <2>1, <2>2, <2>3, <2>4
  <1> HIDE DEF flagged
  <1>8. r \in [1..Len(r) -> flagged]
    BY <1>3, <1>5
  <1>9. r \in Bijection(1..Len(r), flagged)
    BY <1>6, <1>7, <1>8, Fun_IsBij
  <1>10. Cardinality(flagged) = Len(r)
    <2>1. Len(r) \in Nat
      BY <1>1, <1>3
    <2>2. ExistsBijection(1..Len(r), flagged)
      BY <1>9 DEF ExistsBijection
    <2>3. QED
      BY <2>1, <2>2, FS_CountingElements
  <1>11. {r[k] : k \in DOMAIN r} = flagged
    BY <1>3, <1>5, <1>6
  <1>12. QED
    BY <1>3, <1>10, <1>11 DEF r, flagged, Raised, Elements

-----------------------------------------------------------------------------
(* The player: its state. *)

Packet  == [index : Nat, read : 1..NReads, last : BOOLEAN]
Capture == [index : Nat, frame : 0..NReads, last : BOOLEAN, error : BOOLEAN]

InPort ==
    /\ next \in Nat \ {0} /\ inQ \in Seq(Packet)
    /\ Owns(buffers["in"], IndexOf(inQ), inDone) /\ Len(buffers["in"]) = granted["in"]
    /\ "OUT" \in revents => inDone # <<>>

OutPort ==
    /\ outDone \in Seq(Capture) /\ pipe \in Seq(1..NReads)
    /\ Owns(buffers["out"], outQ, IndexOf(outDone)) /\ Len(buffers["out"]) = granted["out"]
    /\ "IN" \in revents => outDone # <<>>

\* Nothing has been asked for before both ports are set up.
Untouched ==
    pc = "setup" => /\ inQ = <<>> /\ inDone = <<>> /\ outQ = <<>> /\ outDone = <<>>
                    /\ revents = {} /\ \A p \in Ports : buffers[p] = <<>>

PlayerInv ==
    /\ exact \in BOOLEAN /\ pc \in {"setup", "run", "done", "failed"}
    /\ revents \subseteq {"OUT", "IN"}
    /\ lastSeen \in BOOLEAN
    /\ buffers \in [Ports -> Seq(BOOLEAN)] /\ granted \in [Ports -> Nat]
    /\ InPort /\ OutPort /\ Untouched

\* Steps of the player and of its driver; which of them the driver may take when does
\* not matter here.
PlayerNext == Client \/ DriverWork \/ DriverCorrupt \/ DriverBreak

-----------------------------------------------------------------------------
(* Views of the queues. *)

LEMMA InViews ==
  ASSUME NEW q \in Seq(Packet)
  PROVE  /\ IndexOf(q) = Mapped(q, [e \in Packet |-> e.index])
         /\ Reads(q) = Mapped(q, [e \in Packet |-> [read |-> e.read, last |-> e.last]])
  <1>1. DOMAIN q = 1..Len(q) /\ \A k \in 1..Len(q) : q[k] \in Packet
    BY LenProperties, ElementOfSeq
  <1>2. QED
    BY <1>1 DEF IndexOf, Reads, Mapped

LEMMA OutViews ==
  ASSUME NEW q \in Seq(Capture)
  PROVE  /\ IndexOf(q) = Mapped(q, [e \in Capture |-> e.index])
         /\ Frames(q) = Mapped(q, [e \in Capture |->
                                    [frame |-> e.frame, last |-> e.last, error |-> e.error]])
  <1>1. DOMAIN q = 1..Len(q) /\ \A k \in 1..Len(q) : q[k] \in Capture
    BY LenProperties, ElementOfSeq
  <1>2. QED
    BY <1>1 DEF IndexOf, Frames, Mapped

LEMMA InTaken ==
  ASSUME NEW q \in Seq(Packet), q # <<>>
  PROVE  /\ Tail(q) \in Seq(Packet) /\ Head(q) \in Packet
         /\ IndexOf(q) # <<>> /\ Head(IndexOf(q)) = Head(q).index
         /\ IndexOf(Tail(q)) = Tail(IndexOf(q))
         /\ Reads(q) # <<>> /\ Head(Reads(q)) = [read |-> Head(q).read, last |-> Head(q).last]
         /\ Reads(Tail(q)) = Tail(Reads(q))
  <1> DEFINE i == [e \in Packet |-> e.index]
             r == [e \in Packet |-> [read |-> e.read, last |-> e.last]]
             T == [read : 1..NReads, last : BOOLEAN]
  <1>1. Shows(i, Packet, Nat) /\ Shows(r, Packet, T)
    BY DEF Packet, Shows
  <1>2. Tail(q) \in Seq(Packet) /\ Head(q) \in Packet
    BY TailOf
  <1>3. /\ IndexOf(q) = Mapped(q, i) /\ Reads(q) = Mapped(q, r)
        /\ IndexOf(Tail(q)) = Mapped(Tail(q), i) /\ Reads(Tail(q)) = Mapped(Tail(q), r)
    BY <1>2, InViews
  <1>4. i[Head(q)] = Head(q).index /\ r[Head(q)] = [read |-> Head(q).read, last |-> Head(q).last]
    BY <1>2
  <1> HIDE DEF i, r, T
  <1>5. /\ Mapped(q, i) # <<>> /\ Head(Mapped(q, i)) = i[Head(q)]
        /\ Mapped(Tail(q), i) = Tail(Mapped(q, i))
    <2>1. Mapped(q, i) # <<>>
      BY <1>1, MappedEmpty
    <2>2. QED
      BY <1>1, <2>1, MappedTail
  <1>6. /\ Mapped(q, r) # <<>> /\ Head(Mapped(q, r)) = r[Head(q)]
        /\ Mapped(Tail(q), r) = Tail(Mapped(q, r))
    <2>1. Mapped(q, r) # <<>>
      BY <1>1, MappedEmpty
    <2>2. QED
      BY <1>1, <2>1, MappedTail
  <1>7. QED
    BY <1>2, <1>3, <1>4, <1>5, <1>6

LEMMA InAdded ==
  ASSUME NEW q \in Seq(Packet), NEW e \in Packet
  PROVE  /\ Append(q, e) \in Seq(Packet) /\ IndexOf(Append(q, e)) = Append(IndexOf(q), e.index)
         /\ Reads(Append(q, e)) = Append(Reads(q), [read |-> e.read, last |-> e.last])
         /\ Len(IndexOf(q)) = Len(q) /\ Len(Reads(q)) = Len(q)
  <1> DEFINE i == [x \in Packet |-> x.index]
             r == [x \in Packet |-> [read |-> x.read, last |-> x.last]]
             T == [read : 1..NReads, last : BOOLEAN]
  <1>1. Shows(i, Packet, Nat) /\ Shows(r, Packet, T)
    BY DEF Packet, Shows
  <1>2. Append(q, e) \in Seq(Packet)
    OBVIOUS
  <1>3. /\ IndexOf(q) = Mapped(q, i) /\ Reads(q) = Mapped(q, r)
        /\ IndexOf(Append(q, e)) = Mapped(Append(q, e), i)
        /\ Reads(Append(q, e)) = Mapped(Append(q, e), r)
    BY <1>2, InViews
  <1>4. i[e] = e.index /\ r[e] = [read |-> e.read, last |-> e.last]
    OBVIOUS
  <1> HIDE DEF i, r, T
  <1>5. Mapped(Append(q, e), i) = Append(Mapped(q, i), i[e]) /\ Len(Mapped(q, i)) = Len(q)
    <2>1. Mapped(q, i) \in Seq(Nat) /\ Len(Mapped(q, i)) = Len(q)
      BY <1>1, MappedParts
    <2>2. QED
      BY <1>1, <2>1, MappedAppend
  <1>6. Mapped(Append(q, e), r) = Append(Mapped(q, r), r[e]) /\ Len(Mapped(q, r)) = Len(q)
    <2>1. Mapped(q, r) \in Seq(T) /\ Len(Mapped(q, r)) = Len(q)
      BY <1>1, MappedParts
    <2>2. QED
      BY <1>1, <2>1, MappedAppend
  <1>7. QED
    BY <1>2, <1>3, <1>4, <1>5, <1>6

LEMMA OutTaken ==
  ASSUME NEW q \in Seq(Capture), q # <<>>
  PROVE  /\ Tail(q) \in Seq(Capture) /\ Head(q) \in Capture
         /\ IndexOf(q) # <<>> /\ Head(IndexOf(q)) = Head(q).index
         /\ IndexOf(Tail(q)) = Tail(IndexOf(q))
         /\ Frames(q) # <<>>
         /\ Head(Frames(q)) = [frame |-> Head(q).frame, last |-> Head(q).last, error |-> Head(q).error]
         /\ Frames(Tail(q)) = Tail(Frames(q))
  <1> DEFINE i == [e \in Capture |-> e.index]
             r == [e \in Capture |-> [frame |-> e.frame, last |-> e.last, error |-> e.error]]
             T == [frame : 0..NReads, last : BOOLEAN, error : BOOLEAN]
  <1>1. Shows(i, Capture, Nat) /\ Shows(r, Capture, T)
    BY DEF Capture, Shows
  <1>2. Tail(q) \in Seq(Capture) /\ Head(q) \in Capture
    BY TailOf
  <1>3. /\ IndexOf(q) = Mapped(q, i) /\ Frames(q) = Mapped(q, r)
        /\ IndexOf(Tail(q)) = Mapped(Tail(q), i) /\ Frames(Tail(q)) = Mapped(Tail(q), r)
    BY <1>2, OutViews
  <1>4. /\ i[Head(q)] = Head(q).index
        /\ r[Head(q)] = [frame |-> Head(q).frame, last |-> Head(q).last, error |-> Head(q).error]
    BY <1>2
  <1> HIDE DEF i, r, T
  <1>5. /\ Mapped(q, i) # <<>> /\ Head(Mapped(q, i)) = i[Head(q)]
        /\ Mapped(Tail(q), i) = Tail(Mapped(q, i))
    <2>1. Mapped(q, i) # <<>>
      BY <1>1, MappedEmpty
    <2>2. QED
      BY <1>1, <2>1, MappedTail
  <1>6. /\ Mapped(q, r) # <<>> /\ Head(Mapped(q, r)) = r[Head(q)]
        /\ Mapped(Tail(q), r) = Tail(Mapped(q, r))
    <2>1. Mapped(q, r) # <<>>
      BY <1>1, MappedEmpty
    <2>2. QED
      BY <1>1, <2>1, MappedTail
  <1>7. QED
    BY <1>2, <1>3, <1>4, <1>5, <1>6

LEMMA OutAdded ==
  ASSUME NEW q \in Seq(Capture), NEW e \in Capture
  PROVE  /\ Append(q, e) \in Seq(Capture) /\ IndexOf(Append(q, e)) = Append(IndexOf(q), e.index)
         /\ Frames(Append(q, e)) =
                Append(Frames(q), [frame |-> e.frame, last |-> e.last, error |-> e.error])
         /\ Len(IndexOf(q)) = Len(q) /\ Len(Frames(q)) = Len(q)
  <1> DEFINE i == [x \in Capture |-> x.index]
             r == [x \in Capture |-> [frame |-> x.frame, last |-> x.last, error |-> x.error]]
             T == [frame : 0..NReads, last : BOOLEAN, error : BOOLEAN]
  <1>1. Shows(i, Capture, Nat) /\ Shows(r, Capture, T)
    BY DEF Capture, Shows
  <1>2. Append(q, e) \in Seq(Capture)
    OBVIOUS
  <1>3. /\ IndexOf(q) = Mapped(q, i) /\ Frames(q) = Mapped(q, r)
        /\ IndexOf(Append(q, e)) = Mapped(Append(q, e), i)
        /\ Frames(Append(q, e)) = Mapped(Append(q, e), r)
    BY <1>2, OutViews
  <1>4. i[e] = e.index /\ r[e] = [frame |-> e.frame, last |-> e.last, error |-> e.error]
    OBVIOUS
  <1> HIDE DEF i, r, T
  <1>5. Mapped(Append(q, e), i) = Append(Mapped(q, i), i[e]) /\ Len(Mapped(q, i)) = Len(q)
    <2>1. Mapped(q, i) \in Seq(Nat) /\ Len(Mapped(q, i)) = Len(q)
      BY <1>1, MappedParts
    <2>2. QED
      BY <1>1, <2>1, MappedAppend
  <1>6. Mapped(Append(q, e), r) = Append(Mapped(q, r), r[e]) /\ Len(Mapped(q, r)) = Len(q)
    <2>1. Mapped(q, r) \in Seq(T) /\ Len(Mapped(q, r)) = Len(q)
      BY <1>1, MappedParts
    <2>2. QED
      BY <1>1, <2>1, MappedAppend
  <1>7. QED
    BY <1>2, <1>3, <1>4, <1>5, <1>6

-----------------------------------------------------------------------------
(* Buffers. *)

AllFree(f) == f \in Seq(BOOLEAN) /\ \A b \in 1..Len(f) : ~f[b]

LEMMA ClearedFrees ==
  ASSUME NEW f \in Seq(BOOLEAN)
  PROVE  AllFree(Cleared(f)) /\ Len(Cleared(f)) = Len(f)
  <1>1. Len(f) \in Nat /\ DOMAIN f = 1..Len(f)
    BY LenProperties
  <1>2. Cleared(f) = [b \in 1..Len(f) |-> FALSE]
    BY <1>1 DEF Cleared
  <1>3. Cleared(f) \in Seq(BOOLEAN) /\ Len(Cleared(f)) = Len(f)
    BY <1>1, <1>2
  <1>4. QED
    BY <1>2, <1>3 DEF AllFree

LEMMA RequestedFrees ==
  ASSUME NEW f, AllFree(f), NEW n \in Nat
  PROVE  AllFree(Requested(f, n)) /\ Len(Requested(f, n)) = n
  <1>1. f \in Seq(BOOLEAN) /\ Len(f) \in Nat /\ \A b \in 1..Len(f) : ~f[b]
    BY LenProperties DEF AllFree
  <1>2. /\ Kept(f, n) \in Seq(BOOLEAN) /\ Len(Kept(f, n)) \in 0..n
        /\ \A b \in 1..Len(Kept(f, n)) : ~Kept(f, n)[b]
    <2>1. CASE n < Len(f)
      <3>1. /\ SubSeq(f, 1, n) \in Seq(BOOLEAN) /\ Len(SubSeq(f, 1, n)) = n
            /\ \A b \in 1..n : SubSeq(f, 1, n)[b] = f[b] /\ b \in 1..Len(f)
        BY <1>1, <2>1
      <3>2. QED
        BY <1>1, <2>1, <3>1 DEF Kept
    <2>2. CASE ~(n < Len(f))
      BY <1>1, <2>2 DEF Kept
    <2>3. QED
      BY <2>1, <2>2
  <1> DEFINE k == Kept(f, n)
             m == n - Len(k)
             z == [i \in 1..m |-> FALSE]
  <1> HIDE DEF k
  <1>3. k \in Seq(BOOLEAN) /\ Len(k) \in Nat /\ m \in Nat /\ \A b \in 1..Len(k) : ~k[b]
    BY <1>2 DEF k
  <1>4. Len(k) + m = n
    BY <1>3
  <1> HIDE DEF m
  <1>5. z \in Seq(BOOLEAN) /\ Len(z) = m /\ \A b \in 1..m : ~z[b]
    BY <1>3
  <1> HIDE DEF z
  <1>6. AllFree(k \o z) /\ Len(k \o z) = n
    <2>1. /\ k \o z \in Seq(BOOLEAN) /\ Len(k \o z) = Len(k) + m
          /\ \A b \in 1..Len(k \o z) : (k \o z)[b] = IF b <= Len(k) THEN k[b] ELSE z[b - Len(k)]
      BY <1>3, <1>5, ConcatProperties
    <2>2. ASSUME NEW b \in 1..Len(k \o z) PROVE ~(k \o z)[b]
      <3>1. CASE b <= Len(k)
        BY <1>3, <2>1, <3>1
      <3>2. CASE ~(b <= Len(k))
        <4>1. b - Len(k) \in 1..m
          BY <1>3, <2>1, <3>2
        <4>2. QED
          BY <1>5, <2>1, <3>2, <4>1
      <3>3. QED
        BY <3>1, <3>2
    <2>3. QED
      BY <1>4, <2>1, <2>2 DEF AllFree
  <1>7. QED
    BY <1>6 DEF Requested, k, m, z

\* After free buffers were requested and the first k of n were queued.
LEMMA FreshPort ==
  ASSUME NEW f, AllFree(f), NEW n \in Nat, NEW k \in 0..n
  PROVE  /\ Queued(Requested(f, n), k) \in Seq(BOOLEAN) /\ Len(Queued(Requested(f, n), k)) = n
         /\ Owns(Queued(Requested(f, n), k), [i \in 1..k |-> i], <<>>)
  <1> DEFINE g == Requested(f, n)
             h == Queued(g, k)
  <1>1. AllFree(g) /\ Len(g) = n
    BY RequestedFrees
  <1> HIDE DEF g
  <1>2. g \in Seq(BOOLEAN) /\ DOMAIN g = 1..n /\ \A b \in 1..n : ~g[b]
    BY <1>1, LenProperties DEF AllFree
  <1>3. h = [b \in 1..n |-> g[b] \/ b <= k]
    BY <1>2 DEF Queued
  <1>4. \A b \in 1..n : (g[b] \/ b <= k) \in BOOLEAN
    OBVIOUS
  <1> HIDE DEF h
  <1>5. h \in Seq(BOOLEAN) /\ Len(h) = n
    BY <1>3, <1>4
  <1>6. \A b \in 1..n : h[b] <=> b <= k
    BY <1>2, <1>3
  <1>7. Owns(h, [i \in 1..k |-> i], <<>>)
    BY <1>5, <1>6, OwnsFirst
  <1>8. QED
    BY <1>5, <1>7 DEF g, h

LEMMA FreeOwnsNothing ==
  ASSUME NEW f, AllFree(f) PROVE Owns(f, <<>>, <<>>)
  <1>1. f \in Seq(BOOLEAN) /\ Len(f) \in Nat /\ \A b \in 1..Len(f) : ~f[b]
    BY LenProperties DEF AllFree
  <1>2. QED
    BY <1>1 DEF Owns

LEMMA FlaggedGives ==
  ASSUME buffers \in [Ports -> Seq(BOOLEAN)], NEW p \in Ports, NEW i \in 1..Len(buffers[p]),
         NEW again \in BOOLEAN, Flagged(p, i, again)
  PROVE  /\ buffers' \in [Ports -> Seq(BOOLEAN)]
         /\ buffers'[p] = [buffers[p] EXCEPT ![i] = again] /\ Len(buffers'[p]) = Len(buffers[p])
         /\ \A o \in Ports : o # p => buffers'[o] = buffers[o]
  <1> DEFINE g == [buffers[p] EXCEPT ![i] = again]
  <1>1. buffers[p] \in Seq(BOOLEAN)
    OBVIOUS
  <1>2. g \in Seq(BOOLEAN) /\ Len(g) = Len(buffers[p])
    BY <1>1, FlagChanged
  <1>3. buffers' = [buffers EXCEPT ![p] = g]
    BY DEF Flagged
  <1> HIDE DEF g
  <1>4. /\ buffers' \in [Ports -> Seq(BOOLEAN)]
        /\ buffers'[p] = g /\ \A o \in Ports : o # p => buffers'[o] = buffers[o]
    BY <1>2, <1>3
  <1>5. QED
    BY <1>2, <1>4 DEF g

-----------------------------------------------------------------------------
(* The invariant of the player. *)

LEMMA NoIndices == IndexOf(<<>>) = <<>> /\ Reads(<<>>) = <<>> /\ Frames(<<>>) = <<>>
  <1> DEFINE i == [e \in Packet |-> e.index]
             r == [e \in Packet |-> [read |-> e.read, last |-> e.last]]
             T == [read : 1..NReads, last : BOOLEAN]
             f == [e \in Capture |-> [frame |-> e.frame, last |-> e.last, error |-> e.error]]
             U == [frame : 0..NReads, last : BOOLEAN, error : BOOLEAN]
  <1>1. Shows(i, Packet, Nat) /\ Shows(r, Packet, T) /\ Shows(f, Capture, U)
    BY DEF Packet, Capture, Shows
  <1>2. <<>> \in Seq(Packet) /\ <<>> \in Seq(Capture)
    OBVIOUS
  <1>3. IndexOf(<<>>) = Mapped(<<>>, i) /\ Reads(<<>>) = Mapped(<<>>, r) /\ Frames(<<>>) = Mapped(<<>>, f)
    BY <1>2, InViews, OutViews
  <1> HIDE DEF i, r, T, f, U
  <1>4. Mapped(<<>>, i) = <<>> /\ Mapped(<<>>, r) = <<>>
    BY <1>1, <1>2, MappedEmpty
  <1>5. Mapped(<<>>, f) = <<>>
    BY <1>1, <1>2, MappedEmpty
  <1>6. QED
    BY <1>3, <1>4, <1>5

LEMMA NothingFree == AllFree(<<>>)
  BY DEF AllFree

LEMMA InitPlayerInv == PlayerInit => PlayerInv
  <1> SUFFICES ASSUME PlayerInit PROVE PlayerInv
    OBVIOUS
  <1>1. Owns(<<>>, <<>>, <<>>)
    BY NothingFree, FreeOwnsNothing
  <1>2. /\ \A p \in Ports : buffers[p] = <<>> /\ granted[p] = 0
        /\ buffers \in [Ports -> Seq(BOOLEAN)] /\ granted \in [Ports -> Nat]
        /\ "in" \in Ports /\ "out" \in Ports /\ Len(<<>>) = 0
    BY DEF PlayerInit, Ports
  <1>3. InPort
    BY <1>1, <1>2, NoIndices DEF PlayerInit, InPort
  <1>4. OutPort
    BY <1>1, <1>2, NoIndices DEF PlayerInit, OutPort
  <1>5. QED
    BY <1>2, <1>3, <1>4 DEF PlayerInit, PlayerInv, Untouched

\* The first reads, and every capture buffer.
LEMMA StepSetup == ASSUME PlayerInv, Setup PROVE PlayerInv'
  <1>1. PICK i \in Grants, o \in Grants :
          /\ granted' = [p \in Ports |-> IF p = "in" THEN i ELSE o]
          /\ buffers' = [p \in Ports |->
                IF p = "in" THEN Queued(Requested(buffers[p], i), AtMost(i, NReads))
                            ELSE Queued(Cleared(Requested(buffers[p], o)), o)]
          /\ inQ' = [n \in 1..AtMost(i, NReads) |-> Read(n, n)] /\ next' = AtMost(i, NReads) + 1
          /\ outQ' = [n \in 1..o |-> n]
    BY DEF Setup
  <1> DEFINE k == AtMost(i, NReads)
  <1>2. i \in Nat /\ o \in Nat /\ k \in 0..i /\ k \in 0..NReads /\ NReads \in Nat /\ o \in 0..o
    BY SecurePlayerAssumption DEF AtMost
  <1> HIDE DEF k
  <1>3. /\ inDone = <<>> /\ outDone = <<>> /\ revents = {} /\ pipe \in Seq(1..NReads)
        /\ buffers["in"] = <<>> /\ buffers["out"] = <<>> /\ "in" \in Ports /\ "out" \in Ports
    BY DEF PlayerInv, OutPort, Untouched, Setup, Ports
  <1>4. /\ Queued(Requested(<<>>, i), k) \in Seq(BOOLEAN) /\ Len(Queued(Requested(<<>>, i), k)) = i
        /\ Owns(Queued(Requested(<<>>, i), k), [n \in 1..k |-> n], <<>>)
    BY <1>2, NothingFree, FreshPort
  <1> DEFINE g == Cleared(Requested(<<>>, o))
             h == Queued(g, o)
  <1>5. AllFree(g) /\ Len(g) = o /\ Requested(g, o) = g
    <2>1. AllFree(Requested(<<>>, o)) /\ Len(Requested(<<>>, o)) = o
      BY <1>2, NothingFree, RequestedFrees
    <2>2. AllFree(g) /\ Len(g) = o
      BY <2>1, ClearedFrees DEF AllFree
    <2> HIDE DEF g
    <2>3. Kept(g, o) = g
      BY <1>2, <2>2 DEF Kept
    <2>4. [n \in 1..(o - Len(Kept(g, o))) |-> FALSE] = <<>>
      BY <1>2, <2>2, <2>3
    <2>5. g \o <<>> = g
      BY <2>2, ConcatEmptySeq DEF AllFree
    <2>6. QED
      BY <2>2, <2>3, <2>4, <2>5 DEF Requested
  <1> HIDE DEF g
  <1>6. h \in Seq(BOOLEAN) /\ Len(h) = o /\ Owns(h, [n \in 1..o |-> n], <<>>)
    BY <1>2, <1>5, FreshPort
  <1>7. inQ' \in Seq(Packet) /\ IndexOf(inQ') = [n \in 1..k |-> n]
    <2>1. \A n \in 1..k : Read(n, n) \in Packet /\ Read(n, n).index = n
      BY <1>2 DEF Read, Packet, PlayerInv
    <2>2. inQ' = [n \in 1..k |-> Read(n, n)]
      BY <1>1 DEF k
    <2>3. inQ' \in Seq(Packet) /\ DOMAIN inQ' = 1..k /\ \A n \in 1..k : inQ'[n] = Read(n, n)
      BY <1>2, <2>1, <2>2
    <2>4. QED
      BY <2>1, <2>3 DEF IndexOf
  <1>8. /\ buffers'["in"] = Queued(Requested(<<>>, i), k) /\ granted'["in"] = i
        /\ buffers'["out"] = h /\ granted'["out"] = o
        /\ buffers' \in [Ports -> Seq(BOOLEAN)] /\ granted' \in [Ports -> Nat]
    <2>1. buffers'["in"] = Queued(Requested(<<>>, i), k) /\ buffers'["out"] = h
      BY <1>1, <1>3 DEF g, k
    <2>2. granted' \in [Ports -> Nat] /\ granted'["in"] = i /\ granted'["out"] = o
      BY <1>1, <1>2, <1>3
    <2>3. DOMAIN buffers' = Ports /\ buffers' = [p \in Ports |-> buffers'[p]]
      BY <1>1
    <2>4. QED
      BY <1>4, <1>6, <2>1, <2>2, <2>3 DEF Ports
  <1> HIDE DEF h
  <1>9. InPort'
    <2>1. next' \in Nat \ {0} /\ inDone' = <<>> /\ revents' = {}
      BY <1>1, <1>2, <1>3 DEF Setup, k
    <2>2. QED
      BY <1>4, <1>7, <1>8, <2>1 DEF InPort
  <1>10. OutPort'
    <2>1. outDone' = <<>> /\ revents' = {} /\ pipe' = pipe /\ outQ' = [n \in 1..o |-> n]
      BY <1>1, <1>3 DEF Setup, driver
    <2>2. QED
      BY <1>3, <1>6, <1>8, <2>1, NoIndices DEF OutPort
  <1>11. QED
    BY <1>8, <1>9, <1>10 DEF PlayerInv, Untouched, Setup, driver

\* A port that is left alone.
LEMMA InPortStays ==
  ASSUME InPort, buffers'["in"] = buffers["in"], granted'["in"] = granted["in"],
         UNCHANGED <<next, inQ, inDone>>, "OUT" \in revents' => "OUT" \in revents
  PROVE  InPort'
  BY DEF InPort

LEMMA OutPortStays ==
  ASSUME OutPort, buffers'["out"] = buffers["out"], granted'["out"] = granted["out"],
         UNCHANGED <<outQ, outDone, pipe>>, "IN" \in revents' => "IN" \in revents
  PROVE  OutPort'
  BY DEF OutPort

LEMMA StepHandleInput == ASSUME PlayerInv, HandleInput PROVE PlayerInv'
  <1> DEFINE f == buffers["in"]
             h == Head(inDone)
             s == IndexOf(inQ)
  <1>1. /\ "in" \in Ports /\ "out" \in Ports /\ "in" # "out" /\ f \in Seq(BOOLEAN)
        /\ inQ \in Seq(Packet) /\ next \in Nat \ {0} /\ inDone # <<>> /\ Owns(f, s, inDone)
        /\ inDone' = Tail(inDone) /\ revents' = revents \ {"OUT"} /\ Flagged("in", h, More)
        /\ Len(f) = granted["in"] /\ More \in BOOLEAN /\ pc' = "run" /\ granted' = granted
        /\ exact \in BOOLEAN
    BY DEF PlayerInv, InPort, HandleInput, Ports, More
  <1> HIDE DEF f, s
  <1>2. /\ h \in 1..Len(f) /\ Len(f) \in Nat
        /\ Owns([f EXCEPT ![h] = FALSE], s, Tail(inDone))
        /\ Owns([f EXCEPT ![h] = TRUE], Append(s, h), Tail(inDone))
    BY <1>1, OwnsTaken, OwnsReturned, LenProperties
  <1> HIDE DEF h
  <1>3. /\ buffers' \in [Ports -> Seq(BOOLEAN)] /\ buffers'["in"] = [f EXCEPT ![h] = More]
        /\ Len(buffers'["in"]) = Len(f) /\ buffers'["out"] = buffers["out"]
    BY <1>1, <1>2, FlaggedGives DEF PlayerInv, f
  <1>4. InPort'
    <2>1. "OUT" \notin revents'
      BY <1>1
    <2>2. CASE More
      <3>1. NReads \in Nat /\ next <= NReads
        BY <2>2, SecurePlayerAssumption DEF More
      <3>2. Read(h, next) \in Packet /\ Read(h, next).index = h
        BY <1>1, <1>2, <3>1 DEF Read, Packet
      <3>3. inQ' = Append(inQ, Read(h, next)) /\ next' = next + 1
        BY <2>2 DEF HandleInput, h
      <3>4. inQ' \in Seq(Packet) /\ IndexOf(inQ') = Append(s, h)
        BY <1>1, <3>2, <3>3, InAdded DEF s
      <3>5. [f EXCEPT ![h] = More] = [f EXCEPT ![h] = TRUE]
        BY <2>2
      <3>6. QED
        BY <1>1, <1>2, <1>3, <2>1, <3>3, <3>4, <3>5 DEF InPort
    <2>3. CASE ~More
      <3>1. UNCHANGED <<inQ, next>>
        BY <2>3 DEF HandleInput
      <3>2. [f EXCEPT ![h] = More] = [f EXCEPT ![h] = FALSE]
        <4>1. More = FALSE
          BY <2>3, <1>1
        <4>2. QED
          BY <4>1
      <3>3. QED
        BY <1>1, <1>2, <1>3, <2>1, <3>1, <3>2 DEF InPort, s
    <2>4. QED
      BY <2>2, <2>3
  <1>5. OutPort'
    <2>1. UNCHANGED <<outQ, outDone, pipe>> /\ granted'["out"] = granted["out"]
      BY DEF HandleInput, driver
    <2>2. QED
      BY <1>1, <1>3, <2>1, OutPortStays DEF PlayerInv
  <1>6. QED
    BY <1>1, <1>3, <1>4, <1>5 DEF PlayerInv, Untouched, HandleInput, driver

\* What a completed buffer leaves, when it is not the stream that is reset.
LEMMA CaptureTaken ==
  ASSUME PlayerInv, outDone # <<>>, NEW again \in BOOLEAN, Flagged("out", Done.index, again)
  PROVE  /\ buffers' \in [Ports -> Seq(BOOLEAN)] /\ buffers'["in"] = buffers["in"]
         /\ Len(buffers'["out"]) = Len(buffers["out"])
         /\ Tail(outDone) \in Seq(Capture) /\ Done \in Capture
         /\ ~again => Owns(buffers'["out"], outQ, IndexOf(Tail(outDone)))
         /\ again  => Owns(buffers'["out"], Append(outQ, Done.index), IndexOf(Tail(outDone)))
  <1> DEFINE f == buffers["out"]
             h == Done.index
             t == IndexOf(outDone)
  <1>1. /\ "in" \in Ports /\ "out" \in Ports /\ "in" # "out"
        /\ outDone \in Seq(Capture) /\ Owns(f, outQ, t)
    BY DEF PlayerInv, OutPort, Ports
  <1>2. /\ Tail(outDone) \in Seq(Capture) /\ Done \in Capture
        /\ t # <<>> /\ Head(t) = h /\ IndexOf(Tail(outDone)) = Tail(t)
    BY <1>1, OutTaken DEF Done
  <1> HIDE DEF f, t
  <1>3. /\ h \in 1..Len(f)
        /\ Owns([f EXCEPT ![h] = FALSE], outQ, Tail(t))
        /\ Owns([f EXCEPT ![h] = TRUE], Append(outQ, h), Tail(t))
    BY <1>1, <1>2, OwnsTaken, OwnsReturned
  <1> HIDE DEF h
  <1>4. /\ buffers' \in [Ports -> Seq(BOOLEAN)] /\ buffers'["out"] = [f EXCEPT ![h] = again]
        /\ Len(buffers'["out"]) = Len(f) /\ buffers'["in"] = buffers["in"]
    BY <1>1, <1>3, FlaggedGives DEF PlayerInv, f, h
  <1>5. CASE again
    <2>1. [f EXCEPT ![h] = again] = [f EXCEPT ![h] = TRUE]
      BY <1>5
    <2>2. QED
      BY <1>2, <1>3, <1>4, <1>5, <2>1 DEF f, h
  <1>6. CASE ~again
    <2>1. [f EXCEPT ![h] = again] = [f EXCEPT ![h] = FALSE]
      BY <1>6
    <2>2. QED
      BY <1>2, <1>3, <1>4, <1>6, <2>1 DEF f
  <1>7. QED
    BY <1>5, <1>6

LEMMA StepHandleOutput == ASSUME PlayerInv, HandleOutput PROVE PlayerInv'
  <1>1. /\ "in" \in Ports /\ "out" \in Ports /\ "in" # "out"
        /\ outDone # <<>> /\ outDone \in Seq(Capture) /\ "IN" \notin revents' /\ revents' \subseteq {"OUT", "IN"}
        /\ "OUT" \in revents' => "OUT" \in revents
        /\ InPort /\ OutPort /\ UNCHANGED <<exact, next, inQ, inDone>>
        /\ buffers \in [Ports -> Seq(BOOLEAN)] /\ granted \in [Ports -> Nat]
        /\ pc = "run" /\ exact \in BOOLEAN /\ lastSeen \in BOOLEAN
    BY DEF PlayerInv, OutPort, HandleOutput, Ports
  <1>2. CASE EndCapture
    <2>1. /\ Flagged("out", Done.index, FALSE) /\ outDone' = Tail(outDone)
          /\ UNCHANGED <<granted, outQ, pipe, lastSeen>> /\ pc' = "done"
      BY <1>2 DEF EndCapture, driver
    <2>2. /\ buffers' \in [Ports -> Seq(BOOLEAN)] /\ buffers'["in"] = buffers["in"]
          /\ Len(buffers'["out"]) = Len(buffers["out"]) /\ Tail(outDone) \in Seq(Capture)
          /\ Owns(buffers'["out"], outQ, IndexOf(Tail(outDone)))
      BY <1>1, <2>1, CaptureTaken
    <2>3. OutPort'
      BY <1>1, <2>1, <2>2 DEF OutPort
    <2>4. InPort'
      BY <1>1, <2>1, <2>2, InPortStays
    <2>5. QED
      BY <1>1, <2>1, <2>2, <2>3, <2>4 DEF PlayerInv, Untouched
  <1>3. CASE RequeueCapture
    <2>1. /\ Flagged("out", Done.index, TRUE) /\ outDone' = Tail(outDone)
          /\ outQ' = Append(outQ, Done.index)
          /\ UNCHANGED <<granted, pipe, lastSeen>> /\ pc' = pc
      BY <1>3 DEF RequeueCapture, driver
    <2>2. /\ buffers' \in [Ports -> Seq(BOOLEAN)] /\ buffers'["in"] = buffers["in"]
          /\ Len(buffers'["out"]) = Len(buffers["out"]) /\ Tail(outDone) \in Seq(Capture)
          /\ Owns(buffers'["out"], Append(outQ, Done.index), IndexOf(Tail(outDone)))
      BY <1>1, <2>1, CaptureTaken
    <2>3. OutPort'
      BY <1>1, <2>1, <2>2 DEF OutPort
    <2>4. InPort'
      BY <1>1, <2>1, <2>2, InPortStays
    <2>5. QED
      BY <1>1, <2>1, <2>2, <2>3, <2>4 DEF PlayerInv, Untouched
  <1> DEFINE f == buffers["out"]
             g == Cleared(f)
  <1>4. f \in Seq(BOOLEAN) /\ AllFree(g) /\ Len(g) = Len(f)
    BY <1>1, ClearedFrees
  <1>5. CASE ResetFails
    <2>1. /\ buffers' = [buffers EXCEPT !["out"] = g] /\ outQ' = <<>> /\ outDone' = <<>>
          /\ UNCHANGED <<granted, pipe, lastSeen>> /\ pc' = "failed"
      BY <1>5 DEF ResetFails
    <2> HIDE DEF g
    <2>2. /\ buffers' \in [Ports -> Seq(BOOLEAN)] /\ buffers'["in"] = buffers["in"]
          /\ buffers'["out"] = g
      BY <1>1, <1>4, <2>1 DEF AllFree
    <2>3. OutPort'
      <3>1. Owns(g, <<>>, <<>>)
        BY <1>4, FreeOwnsNothing
      <3>2. Len(g) = granted["out"] /\ <<>> \in Seq(Capture) /\ pipe \in Seq(1..NReads)
        BY <1>1, <1>4 DEF OutPort
      <3>3. QED
        BY <1>1, <2>1, <2>2, <3>1, <3>2, NoIndices DEF OutPort
    <2>4. InPort'
      BY <1>1, <2>1, <2>2, InPortStays
    <2>5. QED
      BY <1>1, <2>1, <2>2, <2>3, <2>4 DEF PlayerInv, Untouched
  <1>6. ASSUME NEW n \in ResetGrants, ResetCapture(n) PROVE PlayerInv'
    <2> DEFINE h == AfterReset(n)
    <2>1. /\ buffers' = [buffers EXCEPT !["out"] = h] /\ outQ' = [i \in 1..n |-> i] /\ outDone' = <<>>
          /\ granted' = [granted EXCEPT !["out"] = n]
          /\ UNCHANGED <<pipe, lastSeen>> /\ pc' = pc
      BY <1>6 DEF ResetCapture
    <2>2. n \in Nat /\ n \in 0..n
      BY SecurePlayerAssumption
    <2>3. h \in Seq(BOOLEAN) /\ Len(h) = n /\ Owns(h, [i \in 1..n |-> i], <<>>)
      BY <1>4, <2>2, FreshPort DEF AfterReset
    <2> HIDE DEF h
    <2>4. /\ buffers' \in [Ports -> Seq(BOOLEAN)] /\ buffers'["in"] = buffers["in"]
          /\ buffers'["out"] = h
          /\ granted' \in [Ports -> Nat] /\ granted'["in"] = granted["in"] /\ granted'["out"] = n
      BY <1>1, <2>1, <2>2, <2>3
    <2>5. OutPort'
      <3>1. <<>> \in Seq(Capture) /\ pipe \in Seq(1..NReads)
        BY <1>1 DEF OutPort
      <3>2. QED
        BY <1>1, <2>1, <2>3, <2>4, <3>1, NoIndices DEF OutPort
    <2>6. InPort'
      BY <1>1, <2>4, InPortStays
    <2>7. QED
      BY <1>1, <2>1, <2>4, <2>5, <2>6 DEF PlayerInv, Untouched
  <1>7. QED
    BY <1>2, <1>3, <1>5, <1>6 DEF HandleOutput

LEMMA StepConsume == ASSUME PlayerInv, Streaming, DriverConsume PROVE PlayerInv'
  <1> DEFINE s == IndexOf(inQ)
             f == buffers["in"]
  <1>1. /\ inQ \in Seq(Packet) /\ inQ # <<>> /\ Owns(f, s, inDone) /\ pipe \in Seq(1..NReads)
        /\ inQ' = Tail(inQ) /\ inDone' = Append(inDone, Head(inQ).index)
        /\ pipe' = Append(pipe, Head(inQ).read) /\ lastSeen' = Head(inQ).last /\ pc = "run"
        /\ UNCHANGED <<exact, pc, revents, next, buffers, granted, outQ, outDone>>
    BY DEF PlayerInv, InPort, OutPort, DriverConsume, CanConsume, client, Streaming
  <1>2. /\ Tail(inQ) \in Seq(Packet) /\ Head(inQ) \in Packet
        /\ s # <<>> /\ Head(s) = Head(inQ).index /\ IndexOf(Tail(inQ)) = Tail(s)
    BY <1>1, InTaken
  <1> HIDE DEF f, s
  <1>3. Owns(f, Tail(s), Append(inDone, Head(s)))
    BY <1>1, <1>2, OwnsMoved
  <1>4. inDone' # <<>>
    <2>1. inDone \in Seq(1..Len(f)) /\ Head(s) \in 1..Len(f)
      BY <1>1, <1>2, TailOf DEF Owns
    <2>2. QED
      BY <1>1, <1>2, <2>1, AppendProperties
  <1>5. InPort'
    BY <1>1, <1>2, <1>3, <1>4 DEF PlayerInv, InPort, f
  <1>6. OutPort' /\ lastSeen' \in BOOLEAN
    <2>1. Head(inQ).read \in 1..NReads /\ Head(inQ).last \in BOOLEAN
      BY <1>2 DEF Packet
    <2>2. pipe' \in Seq(1..NReads)
      BY <1>1, <2>1
    <2>3. QED
      BY <1>1, <2>1, <2>2 DEF PlayerInv, OutPort
  <1>7. QED
    BY <1>1, <1>5, <1>6 DEF PlayerInv, Untouched

\* A buffer is filled and waits to be dequeued.
LEMMA StepComplete ==
  ASSUME PlayerInv, pc = "run", outQ # <<>>, NEW n \in 0..NReads, NEW l \in BOOLEAN, NEW e \in BOOLEAN,
         CompleteBuffer(n, l, e), pipe' \in Seq(1..NReads)
  PROVE  PlayerInv'
  <1> DEFINE t == IndexOf(outDone)
             f == buffers["out"]
             b == [index |-> Head(outQ), frame |-> n, last |-> l, error |-> e]
  <1>1. /\ outDone \in Seq(Capture) /\ Owns(f, outQ, t)
        /\ outQ' = Tail(outQ) /\ outDone' = Append(outDone, b)
        /\ UNCHANGED <<exact, pc, revents, next, buffers, granted, inQ, inDone, lastSeen>>
    BY DEF PlayerInv, OutPort, CompleteBuffer, client
  <1>2. Head(outQ) \in 1..Len(f)
    BY <1>1, TailOf DEF Owns
  <1>3. b \in Capture /\ b.index = Head(outQ)
    BY <1>2 DEF Capture
  <1> HIDE DEF b, t, f
  <1>4. /\ outDone' \in Seq(Capture) /\ IndexOf(outDone') = Append(t, Head(outQ)) /\ outDone' # <<>>
    <2>1. /\ Append(outDone, b) \in Seq(Capture)
          /\ IndexOf(Append(outDone, b)) = Append(IndexOf(outDone), b.index)
      BY <1>1, <1>3, OutAdded
    <2>2. Append(outDone, b) # <<>>
      BY <1>1, <1>3, AppendProperties
    <2>3. QED
      BY <1>1, <1>3, <2>1, <2>2 DEF t
  <1>5. Owns(f, Tail(outQ), Append(t, Head(outQ)))
    BY <1>1, OwnsMoved
  <1>6. OutPort'
    BY <1>1, <1>4, <1>5 DEF PlayerInv, OutPort, f
  <1>7. InPort'
    BY <1>1, InPortStays DEF PlayerInv
  <1>8. QED
    BY <1>1, <1>6, <1>7 DEF PlayerInv, Untouched

LEMMA NextPlayerInv == PlayerInv /\ [PlayerNext]_pvars => PlayerInv'
  <1> SUFFICES ASSUME PlayerInv, [PlayerNext]_pvars PROVE PlayerInv'
    OBVIOUS
  <1>1. /\ InPort /\ OutPort /\ Untouched /\ pipe \in Seq(1..NReads) /\ NReads \in Nat
        /\ exact \in BOOLEAN /\ lastSeen \in BOOLEAN /\ pc \in {"setup", "run", "done", "failed"}
    BY SecurePlayerAssumption DEF PlayerInv, OutPort
  <1>2. ASSUME UNCHANGED <<exact, next, buffers, granted, queues, pipe, lastSeen>>,
               pc' # "setup" \/ pc' = pc, pc' \in {"setup", "run", "done", "failed"}, revents' = revents
        PROVE  PlayerInv'
    BY <1>1, <1>2, InPortStays, OutPortStays DEF PlayerInv, Untouched, queues
  <1>3. CASE Poll
    <2>1. /\ "OUT" \in revents' => inDone # <<>>
          /\ "IN" \in revents' => outDone # <<>>
          /\ revents' \subseteq {"OUT", "IN"} /\ pc = "run"
      BY <1>3 DEF Poll, Ready, Polling
    <2>2. UNCHANGED <<exact, pc, next, buffers, granted, inQ, inDone, outQ, outDone, pipe, lastSeen>>
      BY <1>3 DEF Poll, queues, driver
    <2>3. QED
      BY <1>1, <2>1, <2>2 DEF PlayerInv, InPort, OutPort, Untouched
  <1>4. CASE SetupFails
    BY <1>2, <1>4 DEF SetupFails
  <1>5. CASE PollError \/ PollTimeout
    BY <1>2, <1>5 DEF PollError, PollTimeout, driver
  <1>6. CASE Setup
    BY <1>6, StepSetup
  <1>7. CASE HandleInput
    BY <1>7, StepHandleInput
  <1>8. CASE HandleOutput
    BY <1>8, StepHandleOutput
  <1>9. CASE DriverBreak
    BY <1>1, <1>2, <1>9 DEF DriverBreak, client
  <1>10. CASE DriverCorrupt
    <2>1. /\ pc = "run" /\ outQ # <<>> /\ pipe' \in Seq(1..NReads)
          /\ 0 \in 0..NReads /\ FALSE \in BOOLEAN /\ TRUE \in BOOLEAN
      BY <1>1, <1>10 DEF DriverCorrupt, Streaming
    <2>2. CompleteBuffer(0, FALSE, TRUE)
      BY <1>10, Zenon DEF DriverCorrupt
    <2>3. QED
      BY <2>1, <2>2, StepComplete, Zenon
  <1>11. CASE DriverWork
    <2>1. Streaming /\ pc = "run"
      BY <1>11 DEF DriverWork, Streaming
    <2>2. CASE DriverConsume
      BY <2>1, <2>2, StepConsume
    <2>3. CASE DriverChange
      BY <1>1, <1>2, <2>3 DEF DriverChange, client
    <2>4. CASE DriverReturnEmpty
      <3>1. /\ outQ # <<>> /\ pipe' \in Seq(1..NReads)
            /\ 0 \in 0..NReads /\ FALSE \in BOOLEAN
        BY <1>1, <2>4 DEF DriverReturnEmpty, CanReturn
      <3>2. CompleteBuffer(0, FALSE, FALSE)
        BY <2>4, Zenon DEF DriverReturnEmpty
      <3>3. QED
        BY <2>1, <3>1, <3>2, StepComplete, Zenon
    <2>5. CASE DriverEnd
      <3>1. /\ outQ # <<>> /\ pipe' \in Seq(1..NReads)
            /\ 0 \in 0..NReads /\ FALSE \in BOOLEAN /\ TRUE \in BOOLEAN
        BY <1>1, <2>5 DEF DriverEnd, CanEnd
      <3>2. CompleteBuffer(0, TRUE, FALSE)
        BY <2>5, Zenon DEF DriverEnd
      <3>3. QED
        BY <2>1, <3>1, <3>2, StepComplete, Zenon
    <2>6. ASSUME NEW l \in BOOLEAN, DriverEmit(l) PROVE PlayerInv'
      <3>1. /\ pipe # <<>> /\ outQ # <<>> /\ CompleteBuffer(Head(pipe), l, FALSE) /\ pipe' = Tail(pipe)
        BY <2>6 DEF DriverEmit, CanEmit
      <3>2. Head(pipe) \in 0..NReads /\ Tail(pipe) \in Seq(1..NReads)
        BY <1>1, <3>1
      <3>3. QED
        BY <2>1, <3>1, <3>2, StepComplete
    <2>7. QED
      BY <1>11, <2>2, <2>3, <2>4, <2>5, <2>6 DEF DriverWork
  <1>12. CASE UNCHANGED pvars
    BY <1>1, <1>2, <1>12 DEF pvars, driver
  <1>13. QED
    BY <1>3, <1>4, <1>5, <1>6, <1>7, <1>8, <1>9, <1>10, <1>11, <1>12 DEF PlayerNext, Client

-----------------------------------------------------------------------------
(* What the invariant gives. *)

LEMMA PortCounted ==
  ASSUME PlayerInv, NEW p \in Ports
  PROVE  /\ Len(buffers[p]) = granted[p] /\ Len(Held(p)) = Pending(p)
         /\ Elements(Held(p)) = Raised(buffers[p])
         /\ p = "in"  => Pending(p) = Len(inQ) + Len(inDone)
         /\ p = "out" => Pending(p) = Len(outQ) + Len(outDone)
  <1>1. CASE p = "in"
    <2> DEFINE s == IndexOf(inQ)
               f == buffers["in"]
    <2>1. Owns(f, s, inDone) /\ Len(f) = granted["in"] /\ inQ \in Seq(Packet)
      BY DEF PlayerInv, InPort
    <2>2. Len(s) = Len(inQ)
      <3> DEFINE i == [e \in Packet |-> e.index]
      <3>1. Shows(i, Packet, Nat) /\ s = Mapped(inQ, i)
        BY <2>1, InViews DEF Shows, Packet
      <3> HIDE DEF i
      <3>2. Mapped(inQ, i) \in Seq(Nat) /\ Len(Mapped(inQ, i)) = Len(inQ)
        BY <2>1, <3>1, MappedParts
      <3>3. QED
        BY <3>1, <3>2
    <2>3. Held(p) = s \o inDone
      BY <1>1 DEF Held
    <2> HIDE DEF s, f
    <2>4. /\ Cardinality(Raised(f)) = Len(s) + Len(inDone) /\ Len(s \o inDone) = Len(s) + Len(inDone)
          /\ Elements(s \o inDone) = Raised(f)
      BY <2>1, OwnsCounted
    <2>5. Pending(p) = Cardinality(Raised(f)) /\ buffers[p] = f /\ p # "out"
      BY <1>1 DEF Pending, Raised, f
    <2>6. QED
      BY <1>1, <2>1, <2>2, <2>3, <2>4, <2>5
  <1>2. CASE p = "out"
    <2> DEFINE t == IndexOf(outDone)
               f == buffers["out"]
    <2>1. Owns(f, outQ, t) /\ Len(f) = granted["out"] /\ outDone \in Seq(Capture)
      BY DEF PlayerInv, OutPort
    <2>2. Len(t) = Len(outDone)
      <3> DEFINE i == [e \in Capture |-> e.index]
      <3>1. Shows(i, Capture, Nat) /\ t = Mapped(outDone, i)
        BY <2>1, OutViews DEF Shows, Capture
      <3> HIDE DEF i
      <3>2. Mapped(outDone, i) \in Seq(Nat) /\ Len(Mapped(outDone, i)) = Len(outDone)
        BY <2>1, <3>1, MappedParts
      <3>3. QED
        BY <3>1, <3>2
    <2>3. Held(p) = outQ \o t
      BY <1>2 DEF Held
    <2> HIDE DEF t, f
    <2>4. /\ Cardinality(Raised(f)) = Len(outQ) + Len(t) /\ Len(outQ \o t) = Len(outQ) + Len(t)
          /\ Elements(outQ \o t) = Raised(f)
      BY <2>1, OwnsCounted
    <2>5. Pending(p) = Cardinality(Raised(f)) /\ buffers[p] = f /\ p # "in"
      BY <1>2 DEF Pending, Raised, f
    <2>6. QED
      BY <1>2, <2>1, <2>2, <2>3, <2>4, <2>5
  <1>3. QED
    BY <1>1, <1>2 DEF Ports

LEMMA InvFlagsExact == PlayerInv => FlagsExact
  <1> SUFFICES ASSUME PlayerInv, NEW p \in Ports
               PROVE  /\ Len(buffers[p]) = granted[p] /\ Len(Held(p)) = Pending(p)
                      /\ {Held(p)[k] : k \in DOMAIN Held(p)} = {i \in DOMAIN buffers[p] : buffers[p][i]}
    BY DEF FlagsExact
  <1>1. /\ Len(buffers[p]) = granted[p] /\ Len(Held(p)) = Pending(p)
        /\ Elements(Held(p)) = Raised(buffers[p])
    BY PortCounted
  <1>2. QED
    BY <1>1, Zenon DEF Elements, Raised

\* A step of the session is a step of the player or of the helpers.
LEMMA SessionSteps == [Next]_vars => [PlayerNext]_pvars /\ [HelperNext]_hvars
  <1> SUFFICES ASSUME [Next]_vars PROVE [PlayerNext]_pvars /\ [HelperNext]_hvars
    OBVIOUS
  <1>1. DriverGivesUp => DriverBreak
    BY DEF DriverGivesUp, DriverBreak
  <1>2. \A j \in Job : DriverAsks(j) => Request(j)
    BY DEF DriverAsks
  <1>3. CASE Next
    <2>1. CASE UNCHANGED hvars /\ (Client \/ DriverWork \/ DriverCorrupt \/ DriverBreak)
      BY <2>1 DEF PlayerNext
    <2>2. CASE UNCHANGED pvars /\ \E j \in Job : Request(j) \/ Helper(j)
      BY <2>2 DEF HelperNext
    <2>3. CASE UNCHANGED vars
      BY <2>3 DEF vars
    <2>4. QED
      BY <1>1, <1>2, <1>3, <2>1, <2>2, <2>3 DEF Next
  <1>4. QED
    BY <1>3 DEF vars

-----------------------------------------------------------------------------
(* The player with its buffers counted. *)

\* The views of the queues agree with the queues, and their lengths with the flags.
Viewed ==
    /\ inQ \in Seq(Packet) /\ outDone \in Seq(Capture)
    /\ Len(inQ) \in Nat /\ Len(inDone) \in Nat /\ Len(outQ) \in Nat /\ Len(outDone) \in Nat
    /\ Len(inDone) > 0 <=> inDone # <<>>
    /\ Len(outQ) > 0 <=> outQ # <<>>
    /\ Reads(inQ) # <<>> <=> inQ # <<>>
    /\ Frames(outDone) # <<>> <=> outDone # <<>>
    /\ Pending("in") = Len(inQ) + Len(inDone)
    /\ Pending("out") = Len(outQ) + Len(outDone)

LEMMA InvViewed == PlayerInv => Viewed
  <1> SUFFICES ASSUME PlayerInv PROVE Viewed
    OBVIOUS
  <1>1. /\ inQ \in Seq(Packet) /\ outDone \in Seq(Capture)
        /\ Owns(buffers["in"], IndexOf(inQ), inDone) /\ Owns(buffers["out"], outQ, IndexOf(outDone))
    BY DEF PlayerInv, InPort, OutPort
  <1>2. PICK S, T : inDone \in Seq(S) /\ outQ \in Seq(T)
    BY <1>1 DEF Owns
  <1>3. /\ Len(inQ) \in Nat /\ Len(inDone) \in Nat /\ Len(outQ) \in Nat /\ Len(outDone) \in Nat
        /\ Len(inDone) > 0 <=> inDone # <<>>
        /\ Len(outQ) > 0 <=> outQ # <<>>
    BY <1>1, <1>2, LenProperties, EmptySeq
  <1>4. Reads(inQ) # <<>> <=> inQ # <<>>
    BY <1>1, InTaken, NoIndices
  <1>5. Frames(outDone) # <<>> <=> outDone # <<>>
    BY <1>1, OutTaken, NoIndices
  <1>6. "in" \in Ports /\ "out" \in Ports
    BY DEF Ports
  <1>7. Pending("in") = Len(inQ) + Len(inDone) /\ Pending("out") = Len(outQ) + Len(outDone)
    BY <1>6, PortCounted
  <1>8. QED
    BY <1>1, <1>3, <1>4, <1>5, <1>7 DEF Viewed

LEMMA CountedSetup ==
  ASSUME PlayerInv, Viewed', Setup
  PROVE  Counted!Setup
  <1>1. PICK i \in Grants, o \in Grants :
          /\ inQ' = [n \in 1..AtMost(i, NReads) |-> Read(n, n)] /\ next' = AtMost(i, NReads) + 1
          /\ outQ' = [n \in 1..o |-> n]
    BY DEF Setup
  <1> DEFINE k == AtMost(i, NReads)
  <1>2. k \in 0..NReads /\ NReads \in Nat /\ o \in Nat
    BY SecurePlayerAssumption DEF AtMost
  <1>3. k = Counted!AtMost(i, NReads)
    BY DEF AtMost, Counted!AtMost
  <1> HIDE DEF k
  <1>4. pc = "setup" /\ pc' = "run" /\ inDone = <<>> /\ outDone = <<>>
        /\ UNCHANGED <<exact, revents, written, inDone, outDone, driver>>
    BY DEF Setup, PlayerInv, Untouched
  <1>5. Len(inQ') = k /\ Len(outQ') = o /\ DOMAIN inQ' = 1..k
    BY <1>1, <1>2 DEF k
  <1>6. Reads(inQ') = [n \in 1..k |-> Counted!Filled(n)]
    BY <1>1, <1>4, <1>5 DEF Reads, Read, Counted!Filled, k
  <1>7. Pending("in")' = k /\ Pending("out")' = o
    <2>1. Len(<<>>) = 0
      OBVIOUS
    <2>2. QED
      BY <1>2, <1>4, <1>5, <2>1 DEF Viewed
  <1>8. Counted!Counts = Grants
    BY DEF Counted!Counts
  <1>9. QED
    BY <1>1, <1>3, <1>4, <1>5, <1>6, <1>7, <1>8
       DEF Counted!Setup, Counted!config, Counted!driver, driver, k

LEMMA CountedHandleInput ==
  ASSUME PlayerInv, Viewed, Viewed', HandleInput
  PROVE  Counted!HandleInput
  <1>1. /\ inDone # <<>> /\ inDone' = Tail(inDone) /\ inQ \in Seq(Packet)
        /\ next \in Nat \ {0} /\ NReads \in Nat /\ exact \in BOOLEAN
    BY SecurePlayerAssumption DEF PlayerInv, InPort, HandleInput
  <1>2. Head(inDone) \in Nat /\ Len(inDone') = Len(inDone) - 1
    <2>1. inDone \in Seq(1..Len(buffers["in"]))
      BY DEF PlayerInv, InPort, Owns
    <2>2. QED
      BY <1>1, <2>1, TailOf
  <1>3. CASE More
    <2> DEFINE e == Read(Head(inDone), next)
    <2>1. /\ inQ' = Append(inQ, e) /\ next' = next + 1 /\ next <= NReads
      BY <1>3 DEF HandleInput, More
    <2>2. e \in Packet /\ [read |-> e.read, last |-> e.last] = Counted!Filled(next)
      BY <1>1, <1>2, <2>1 DEF Read, Packet, Counted!Filled
    <2> HIDE DEF e
    <2>3. Reads(inQ') = Append(Reads(inQ), Counted!Filled(next)) /\ Len(inQ') = Len(inQ) + 1
      BY <1>1, <2>1, <2>2, InAdded
    <2>4. ~Counted!AtEnd /\ Pending("in")' = (Pending("in") - 1) + 1
      BY <1>1, <1>2, <2>1, <2>3 DEF Counted!AtEnd, Viewed
    <2>5. Counted!RefillInput
      BY <2>1, <2>3, <2>4 DEF Counted!RefillInput
    <2>6. outQ' = outQ /\ outDone' = outDone
      BY DEF HandleInput
    <2>7. Pending("out")' = Pending("out")
      BY <2>6 DEF Viewed
    <2>8. QED
      BY <1>2, <2>5, <2>6, <2>7 DEF HandleInput, driver, Counted!HandleInput, Counted!config, Counted!driver
  <1>4. CASE ~More
    <2>1. inQ' = inQ /\ next' = next /\ ~(next <= NReads)
      BY <1>4 DEF HandleInput, More
    <2>2. Counted!AtEnd /\ Pending("in")' = Pending("in") - 1
      BY <1>1, <1>2, <2>1 DEF Counted!AtEnd, Viewed
    <2>3. Counted!KeepInput
      BY <2>1, <2>2 DEF Counted!KeepInput
    <2>4. outQ' = outQ /\ outDone' = outDone
      BY DEF HandleInput
    <2>5. Pending("out")' = Pending("out")
      BY <2>4 DEF Viewed
    <2>6. QED
      BY <1>2, <2>3, <2>4, <2>5 DEF HandleInput, driver, Counted!HandleInput, Counted!config, Counted!driver
  <1>5. QED
    BY <1>3, <1>4

LEMMA CountedHandleOutput ==
  ASSUME PlayerInv, Viewed, Viewed', HandleOutput
  PROVE  Counted!HandleOutput
  <1>1. /\ outDone # <<>> /\ outDone \in Seq(Capture)
    BY DEF PlayerInv, OutPort, HandleOutput
  <1>2. /\ Len(Tail(outDone)) = Len(outDone) - 1 /\ Done \in Capture
        /\ Frames(Tail(outDone)) = Tail(Frames(outDone))
        /\ Counted!Done = [frame |-> Done.frame, last |-> Done.last, error |-> Done.error]
    BY <1>1, OutTaken, TailOf DEF Done, Counted!Done
  <1>3. /\ Counted!Done.frame = Done.frame /\ Counted!Done.last = Done.last
        /\ Counted!Done.error = Done.error
    BY <1>2, Zenon
  <1>4. Counted!ResetsStream <=> ResetsStream
    BY <1>3 DEF Counted!ResetsStream, ResetsStream
  <1>5. inQ' = inQ /\ Pending("in")' = Pending("in") /\ inDone' = inDone
    BY DEF HandleOutput, Viewed
  <1>6. CASE EndCapture
    <2>1. outQ' = outQ /\ outDone' = Tail(outDone)
      BY <1>6 DEF EndCapture
    <2>2. Pending("out")' = Pending("out") - 1
      BY <1>2, <2>1 DEF Viewed
    <2>3. Counted!EndCapture
      BY <1>2, <1>3, <1>6, <2>1, <2>2 DEF EndCapture, Counted!EndCapture, Counted!driver, driver
    <2>4. QED
      BY <1>5, <2>3 DEF HandleOutput, Counted!HandleOutput, Counted!config
  <1>7. CASE RequeueCapture
    <2>1. outQ' = Append(outQ, Done.index) /\ outDone' = Tail(outDone)
      BY <1>7 DEF RequeueCapture
    <2>2. Len(outQ') = Len(outQ) + 1
      <3>1. outQ \in Seq(1..Len(buffers["out"]))
        BY DEF PlayerInv, OutPort, Owns
      <3>2. outQ \in Seq(Nat) /\ Done.index \in Nat
        BY <1>2, <3>1 DEF Capture
      <3>3. QED
        BY <2>1, <3>2
    <2>3. Pending("out")' = (Pending("out") - 1) + 1
      BY <1>2, <2>1, <2>2 DEF Viewed
    <2>4. Counted!RequeueCapture
      BY <1>2, <1>3, <1>4, <1>7, <2>1, <2>2, <2>3
         DEF RequeueCapture, Counted!RequeueCapture, Counted!driver, driver
    <2>5. QED
      BY <1>5, <2>4 DEF HandleOutput, Counted!HandleOutput, Counted!config
  <1>8. CASE ResetFails
    <2>1. outQ' = <<>> /\ outDone' = <<>> /\ Len(<<>>) = 0
      BY <1>8 DEF ResetFails
    <2>2. Pending("out")' = 0
      BY <2>1 DEF Viewed
    <2>3. Counted!ResetFails
      BY <1>4, <1>8, <2>1, <2>2, NoIndices DEF ResetFails, Counted!ResetFails
    <2>4. QED
      BY <1>5, <2>3 DEF HandleOutput, Counted!HandleOutput, Counted!config
  <1>9. ASSUME NEW n \in ResetGrants, ResetCapture(n) PROVE Counted!HandleOutput
    <2>1. n \in Nat /\ outQ' = [i \in 1..n |-> i] /\ outDone' = <<>> /\ Len(<<>>) = 0
      BY <1>9, SecurePlayerAssumption DEF ResetCapture
    <2>2. Len(outQ') = n
      BY <2>1
    <2>3. Pending("out")' = n
      BY <2>1, <2>2 DEF Viewed
    <2>4. Counted!ResetCapture(n)
      BY <1>4, <1>9, <2>1, <2>2, <2>3, NoIndices
         DEF ResetCapture, Counted!ResetCapture, Counted!PendingAfterReset
    <2>5. n \in Counted!ResetCounts
      BY DEF Counted!ResetCounts
    <2>6. QED
      BY <1>5, <2>4, <2>5 DEF HandleOutput, Counted!HandleOutput, Counted!config
  <1>10. QED
    BY <1>6, <1>7, <1>8, <1>9 DEF HandleOutput

\* What the driver and poll can do depends on the counts only.
LEMMA CountedGuards ==
  ASSUME PlayerInv, Viewed
  PROVE  /\ Counted!Streaming <=> Streaming
         /\ Counted!CanConsume <=> CanConsume
         /\ Counted!CanEmit <=> CanEmit
         /\ Counted!CanChange <=> CanChange
         /\ Counted!CanReturn <=> CanReturn
         /\ Counted!CanEnd <=> CanEnd
         /\ Counted!Ready = Ready
         /\ Counted!Polling <=> Polling
  <1>1. Counted!NewResolution <=> NewResolution
    BY DEF Counted!NewResolution, NewResolution
  <1>2. Counted!Ready = Ready
    BY DEF Counted!Ready, Ready, Viewed
  <1>3. QED
    BY <1>1, <1>2 DEF Counted!Streaming, Streaming, Counted!CanConsume, CanConsume, Counted!CanEmit,
       CanEmit, Counted!CanChange, CanChange, Counted!CanReturn, CanReturn, Counted!CanEnd, CanEnd,
       Counted!Polling, Polling, Viewed

LEMMA CountedConsume ==
  ASSUME PlayerInv, Viewed, Viewed', Streaming, DriverConsume
  PROVE  Counted!DriverConsume
  <1>1. /\ inQ \in Seq(Packet) /\ inQ # <<>> /\ inQ' = Tail(inQ)
        /\ inDone' = Append(inDone, Head(inQ).index)
    BY DEF PlayerInv, InPort, DriverConsume, CanConsume
  <1>2. /\ Len(Tail(inQ)) = Len(inQ) - 1 /\ Head(inQ) \in Packet
        /\ Reads(Tail(inQ)) = Tail(Reads(inQ))
        /\ Head(Reads(inQ)) = [read |-> Head(inQ).read, last |-> Head(inQ).last]
    BY <1>1, InTaken, TailOf
  <1>3. Head(Reads(inQ)).read = Head(inQ).read /\ Head(Reads(inQ)).last = Head(inQ).last
    BY <1>2
  <1>4. Len(inDone') = Len(inDone) + 1
    <2>1. inDone \in Seq(1..Len(buffers["in"]))
      BY DEF PlayerInv, InPort, Owns
    <2>2. inDone \in Seq(Nat) /\ Head(inQ).index \in Nat
      BY <1>2, <2>1 DEF Packet
    <2>3. QED
      BY <1>1, <2>2
  <1>5. Pending("in")' = Pending("in") /\ Pending("out")' = Pending("out")
    BY <1>1, <1>2, <1>4 DEF DriverConsume, Viewed
  <1>6. QED
    BY <1>1, <1>2, <1>3, <1>4, <1>5, CountedGuards
       DEF DriverConsume, client, Counted!DriverConsume, Counted!config, Counted!client

LEMMA CountedComplete ==
  ASSUME PlayerInv, Viewed, Viewed', outQ # <<>>, NEW n \in 0..NReads, NEW l \in BOOLEAN,
         NEW e \in BOOLEAN, CompleteBuffer(n, l, e)
  PROVE  Counted!Complete(n, l, e)
  <1> DEFINE b == [index |-> Head(outQ), frame |-> n, last |-> l, error |-> e]
  <1>1. /\ outDone \in Seq(Capture) /\ outQ' = Tail(outQ) /\ outDone' = Append(outDone, b)
        /\ inQ' = inQ /\ inDone' = inDone
    BY DEF PlayerInv, OutPort, CompleteBuffer
  <1>2. Head(outQ) \in Nat /\ Len(Tail(outQ)) = Len(outQ) - 1
    <2>1. outQ \in Seq(1..Len(buffers["out"]))
      BY DEF PlayerInv, OutPort, Owns
    <2>2. QED
      BY <2>1, TailOf
  <1>3. b \in Capture /\ [frame |-> b.frame, last |-> b.last, error |-> b.error] =
                         [frame |-> n, last |-> l, error |-> e]
    BY <1>2 DEF Capture
  <1> HIDE DEF b
  <1>4. /\ Frames(outDone') = Append(Frames(outDone), [frame |-> n, last |-> l, error |-> e])
        /\ Len(outDone') = Len(outDone) + 1
    BY <1>1, <1>3, OutAdded
  <1>5. Pending("in")' = Pending("in") /\ Pending("out")' = Pending("out")
    BY <1>1, <1>2, <1>4 DEF Viewed
  <1>6. QED
    BY <1>1, <1>2, <1>4, <1>5 DEF CompleteBuffer, client, Counted!Complete, Counted!config, Counted!client

LEMMA CountedDriver ==
  ASSUME PlayerInv, Viewed, Viewed', DriverWork
  PROVE  Counted!DriverWork
  <1>1. Streaming /\ pipe \in Seq(1..NReads) /\ NReads \in Nat
    BY SecurePlayerAssumption DEF DriverWork, PlayerInv, OutPort
  <1>2. CASE DriverConsume
    BY <1>1, <1>2, CountedConsume DEF Counted!DriverWork
  <1>3. CASE DriverChange
    <2>1. Pending("in")' = Pending("in") /\ Pending("out")' = Pending("out")
      BY <1>3 DEF DriverChange, queues, Viewed
    <2>2. Counted!DriverChange
      BY <1>1, <1>3, <2>1, CountedGuards
         DEF DriverChange, client, queues, Counted!DriverChange, Counted!config, Counted!client
    <2>3. QED
      BY <2>2 DEF Counted!DriverWork
  <1>4. CASE DriverReturnEmpty
    <2>1. outQ # <<>> /\ 0 \in 0..NReads /\ FALSE \in BOOLEAN
      BY <1>1, <1>4 DEF DriverReturnEmpty, CanReturn
    <2>2. CompleteBuffer(0, FALSE, FALSE)
      BY <1>4, Zenon DEF DriverReturnEmpty
    <2>3. Counted!Complete(0, FALSE, FALSE)
      BY <2>1, <2>2, CountedComplete, Zenon
    <2>4. /\ Counted!CanReturn /\ Counted!Streaming /\ UNCHANGED <<pipe, lastSent, change, errors>>
      BY <1>1, <1>4, CountedGuards DEF DriverReturnEmpty
    <2>5. Counted!DriverReturnEmpty
      BY <2>3, <2>4, Zenon DEF Counted!DriverReturnEmpty
    <2>6. QED
      BY <2>5 DEF Counted!DriverWork
  <1>5. CASE DriverEnd
    <2>1. outQ # <<>> /\ 0 \in 0..NReads /\ FALSE \in BOOLEAN /\ TRUE \in BOOLEAN
      BY <1>1, <1>5 DEF DriverEnd, CanEnd
    <2>2. CompleteBuffer(0, TRUE, FALSE)
      BY <1>5, Zenon DEF DriverEnd
    <2>3. Counted!Complete(0, TRUE, FALSE)
      BY <2>1, <2>2, CountedComplete, Zenon
    <2>4. Counted!CanEnd /\ Counted!Streaming /\ UNCHANGED <<pipe, change, errors>>
      BY <1>1, <1>5, CountedGuards DEF DriverEnd
    <2>5. lastSent' = TRUE
      BY <1>5, Zenon DEF DriverEnd
    <2>6. Counted!DriverEnd
      BY <2>3, <2>4, <2>5, Zenon DEF Counted!DriverEnd
    <2>7. QED
      BY <2>6 DEF Counted!DriverWork
  <1>6. ASSUME NEW l \in BOOLEAN, DriverEmit(l) PROVE Counted!DriverEmit(l)
    <2>1. /\ pipe # <<>> /\ outQ # <<>> /\ FALSE \in BOOLEAN
          /\ CompleteBuffer(Head(pipe), l, FALSE)
      BY <1>6 DEF DriverEmit, CanEmit
    <2>2. Head(pipe) \in 0..NReads
      BY <1>1, <2>1
    <2>3. Counted!Complete(Head(pipe), l, FALSE)
      BY <2>1, <2>2, CountedComplete
    <2>4. Counted!CanEmit /\ Counted!Streaming
      BY <1>1, <1>6, CountedGuards DEF DriverEmit
    <2>5. QED
      BY <1>6, <2>3, <2>4 DEF DriverEmit, Counted!DriverEmit
  <1>7. QED
    BY <1>2, <1>3, <1>4, <1>5, <1>6 DEF DriverWork, Counted!DriverWork

LEMMA CountedStep ==
  ASSUME PlayerInv, Viewed, Viewed', [PlayerNext]_pvars
  PROVE  [Counted!Next]_(Counted!vars)
  <1>1. ASSUME UNCHANGED <<buffers, inQ, inDone, outQ, outDone>>
        PROVE  Pending("in")' = Pending("in") /\ Pending("out")' = Pending("out")
    BY <1>1 DEF Viewed
  <1>2. CASE Setup \/ HandleInput \/ HandleOutput
    BY <1>2, CountedSetup, CountedHandleInput, CountedHandleOutput DEF Counted!Next, Counted!Client
  <1>3. CASE SetupFails
    <2>1. Counted!SetupFails
      BY <1>1, <1>3 DEF SetupFails, queues, Counted!SetupFails, Counted!config
    <2>2. QED
      BY <2>1 DEF Counted!Next, Counted!Client
  <1>4. CASE Poll
    <2>1. Counted!Poll
      BY <1>1, <1>4, CountedGuards DEF Poll, queues, driver, Counted!Poll, Counted!config, Counted!driver
    <2>2. QED
      BY <2>1 DEF Counted!Next, Counted!Client
  <1>5. CASE PollError
    <2>1. Counted!PollError
      BY <1>1, <1>5, CountedGuards DEF PollError, queues, driver, Counted!PollError, Counted!config, Counted!driver
    <2>2. QED
      BY <2>1 DEF Counted!Next, Counted!Client
  <1>6. CASE PollTimeout
    <2>1. Counted!DriverIdle
      BY <1>6, CountedGuards DEF PollTimeout, DriverIdle, Counted!DriverIdle
    <2>2. Counted!PollTimeout
      BY <1>1, <1>6, <2>1, CountedGuards
         DEF PollTimeout, queues, driver, Counted!PollTimeout, Counted!config, Counted!driver
    <2>3. QED
      BY <2>2 DEF Counted!Next, Counted!Client
  <1>7. CASE DriverWork
    BY <1>7, CountedDriver DEF Counted!Next
  <1>8. CASE DriverCorrupt
    <2>1. outQ # <<>> /\ 0 \in 0..NReads /\ FALSE \in BOOLEAN /\ TRUE \in BOOLEAN
      BY <1>8, SecurePlayerAssumption DEF DriverCorrupt
    <2>2. CompleteBuffer(0, FALSE, TRUE)
      BY <1>8, Zenon DEF DriverCorrupt
    <2>3. Counted!Complete(0, FALSE, TRUE)
      BY <2>1, <2>2, CountedComplete, Zenon
    <2>4. /\ Counted!Streaming /\ errors < MaxErrors /\ Len(outQ) > 0
          /\ errors' = errors + 1 /\ UNCHANGED <<pipe, lastSent, change>>
      BY <1>8, CountedGuards DEF DriverCorrupt, Viewed
    <2>5. Counted!DriverCorrupt
      BY <2>3, <2>4, Zenon DEF Counted!DriverCorrupt
    <2>6. QED
      BY <2>5 DEF Counted!Next
  <1>9. CASE DriverBreak
    <2>1. Counted!DriverBreak
      BY <1>1, <1>9, CountedGuards
         DEF DriverBreak, client, queues, Counted!DriverBreak, Counted!config, Counted!client
    <2>2. QED
      BY <2>1 DEF Counted!Next
  <1>10. CASE UNCHANGED pvars
    BY <1>1, <1>10 DEF pvars, queues, driver, Counted!vars, Counted!config, Counted!client, Counted!driver
  <1>11. QED
    BY <1>2, <1>3, <1>4, <1>5, <1>6, <1>7, <1>8, <1>9, <1>10 DEF PlayerNext, Client

LEMMA CountedInit ==
  ASSUME PlayerInit
  PROVE  Counted!Init
  <1>1. PlayerInv
    BY InitPlayerInv
  <1>2. Viewed
    BY <1>1, InvViewed
  <1>3. Len(<<>>) = 0
    OBVIOUS
  <1>4. QED
    BY <1>2, <1>3, NoIndices DEF PlayerInit, Viewed, Counted!Init, Counted!Programs

-----------------------------------------------------------------------------

\* What mvx_securehelper writes to the attribute of a device gives the driver a buffer
\* that is open, registered and loaded, or nothing at all, whichever call failed, also
\* while the driver starts the helpers for a player.
THEOREM AnswersUsable == Spec => []WrittenUsable
  <1>1. HelperInv => WrittenUsable
    BY DEF HelperInv, At, SentAt, WrittenUsable
  <1>2. QED
    BY <1>1, InitHelperInv, NextHelperInv, SessionSteps, PTL DEF Spec, Init

\* The buffers mvx_secureplayer takes to be queued are those the driver holds, each once,
\* through every reset of the capture port: what it polls for can come, and what it
\* dequeues is in its map.
THEOREM FlagsStayExact == Spec => []FlagsExact
  <1>1. QED
    BY InitPlayerInv, NextPlayerInv, InvFlagsExact, SessionSteps, PTL DEF Spec, Init

\* With its buffers counted, mvx_secureplayer takes the steps of the player of
\* SimplePlayers and no others, whatever the driver grants and the helpers answer.
THEOREM ImplementsCounted == Spec => Counted!Spec
  <1>1. PlayerInv /\ PlayerInv' /\ [PlayerNext]_pvars => [Counted!Next]_(Counted!vars)
    <2> SUFFICES ASSUME PlayerInv, PlayerInv', [PlayerNext]_pvars
                 PROVE  [Counted!Next]_(Counted!vars)
      OBVIOUS
    <2>1. Viewed /\ Viewed'
      BY InvViewed, PTL
    <2>2. QED
      BY <2>1, CountedStep
  <1>2. PlayerInit => Counted!Init
    BY CountedInit
  <1>3. QED
    BY <1>1, <1>2, InitPlayerInv, NextPlayerInv, SessionSteps, PTL DEF Spec, Init, Counted!Spec

\* What SimplePlayersProofs proves of the player.
Proved == INSTANCE SimplePlayersProofs WITH
    UserptrCount <- 1, MinCapture <- {1}, SecureCounts <- Grants,
    SecureResetCounts <- ResetGrants, prog <- "secureplayer",
    inPending <- Pending("in"), outPending <- Pending("out"),
    inQ <- Reads(inQ), inDone <- Len(inDone), outQ <- Len(outQ), outDone <- Frames(outDone)

\* A secure session that ends well has handed on every frame in order, except the one of
\* the LAST buffer, and one that fails was refused something or had a file that is a
\* multiple of the buffer.
THEOREM SecureSessionEnds == Spec => [](Counted!DoneComplete /\ Counted!NoStall)
  <1>1. /\ NReads \in Nat \ {0} /\ ChangeAt \subseteq 1..NReads
        /\ {1, Depth} \cup Grants \cup ResetGrants \subseteq Nat \ {0}
        /\ {1} \subseteq Nat \ {0}
        /\ {} \notin {{1}, Grants, ResetGrants}
        /\ MaxErrors \in Nat
    BY SecurePlayerAssumption
  <1>2. Proved!Spec => []Proved!DoneComplete
    BY <1>1, Proved!EndsWellComplete, PTL
  <1>3. Proved!Spec => []Proved!NoStall
    BY <1>1, Proved!NeverStalls, PTL
  <1>4. /\ Counted!Init => Proved!Init
        /\ [Counted!Next]_(Counted!vars) => [Proved!Next]_(Proved!vars)
    BY Zenon
       DEF Counted!Init, Proved!Init, Counted!Next, Proved!Next, Counted!vars, Proved!vars,
           Counted!config, Proved!config, Counted!client, Proved!client, Counted!driver,
           Proved!driver, Counted!Programs, Proved!Programs, Counted!Counts, Proved!Counts,
           Counted!AtMost, Proved!AtMost, Counted!Filled, Proved!Filled, Counted!Setup,
           Proved!Setup, Counted!SetupFails, Proved!SetupFails, Counted!Ready, Proved!Ready,
           Counted!Polling, Proved!Polling, Counted!Poll, Proved!Poll, Counted!PollError,
           Proved!PollError, Counted!AtEnd, Proved!AtEnd, Counted!KeepInput,
           Proved!KeepInput, Counted!RefillInput, Proved!RefillInput, Counted!HandleInput,
           Proved!HandleInput, Counted!Done, Proved!Done, Counted!EndCapture,
           Proved!EndCapture, Counted!ResetsStream, Proved!ResetsStream,
           Counted!ResetCounts, Proved!ResetCounts, Counted!PendingAfterReset,
           Proved!PendingAfterReset, Counted!ResetCapture, Proved!ResetCapture,
           Counted!ResetFails, Proved!ResetFails, Counted!RequeueCapture,
           Proved!RequeueCapture, Counted!HandleOutput, Proved!HandleOutput,
           Counted!Streaming, Proved!Streaming, Counted!NewResolution, Proved!NewResolution,
           Counted!CanConsume, Proved!CanConsume, Counted!CanEmit, Proved!CanEmit,
           Counted!CanChange, Proved!CanChange, Counted!CanReturn, Proved!CanReturn,
           Counted!CanEnd, Proved!CanEnd, Counted!DriverConsume, Proved!DriverConsume,
           Counted!Complete, Proved!Complete, Counted!DriverEmit, Proved!DriverEmit,
           Counted!DriverChange, Proved!DriverChange, Counted!DriverReturnEmpty,
           Proved!DriverReturnEmpty, Counted!DriverEnd, Proved!DriverEnd,
           Counted!DriverCorrupt, Proved!DriverCorrupt, Counted!DriverBreak,
           Proved!DriverBreak, Counted!DriverIdle, Proved!DriverIdle, Counted!PollTimeout,
           Proved!PollTimeout, Counted!Client, Proved!Client, Counted!DriverWork,
           Proved!DriverWork, Counted!Terminated, Proved!Terminated
  <1>5. Proved!DoneComplete /\ Proved!NoStall => Counted!DoneComplete /\ Counted!NoStall
    BY Zenon DEF Proved!DoneComplete, Proved!NoStall, Proved!MayLose,
                 Counted!DoneComplete, Counted!NoStall, Counted!MayLose
  <1>6. QED
    BY <1>2, <1>3, <1>4, <1>5, ImplementsCounted, PTL DEF Counted!Spec, Proved!Spec
=============================================================================
