---------------------------- MODULE SecureHelper ----------------------------
(***************************************************************************)
(* mvx_securehelper (tools/securevideo/mvx_securehelper.cpp), which udev   *)
(* starts for every device by which the kernel driver asks for protected   *)
(* memory or for the firmware in protected memory, and the library it uses *)
(* (mvx_securevideo.cpp): Session, Firmware and BufferION.                 *)
(*                                                                         *)
(* A helper answers by writing a descriptor to an attribute of the device. *)
(* The descriptor holds the number of a file that the helper has open: the *)
(* driver looks it up among the files of the helper while it is written.   *)
(* The secure world (TEE) and the ION allocator are external; each of      *)
(* their calls may fail.                                                   *)
(***************************************************************************)
EXTENDS Integers

CONSTANTS
    Job,            \* requests of the driver
    Firmware,       \* those for the firmware; the others are for memory
    HasIonMap,      \* built with ION_IOC_MAP, where a handle is turned into a file
    MaxFd           \* the last number of a file

ASSUME HelperAssumption == Firmware \subseteq Job /\ HasIonMap \in BOOLEAN /\ MaxFd \in Nat

VARIABLES
    step,   \* where the helper of a request is
    at,     \* the numbers it keeps of the files it opened
    open,   \* its table of files
    buf,    \* how far its buffer has come
    desc,   \* the descriptor it is going to write
    sent    \* what was written to the attribute

hvars == <<step, at, open, buf, desc, sent>>

Fd    == 0..MaxFd
Numbers == {"dst", "tee", "ion", "buf"}
Files == {"closed", "std", "dst", "tee", "ion", "buffer"}
InTry == {"context", "session", "read", "ion", "alloc", "map", "free", "register", "load"}
Steps == {"none", "main", "open", "fill", "write", "ok", "error"} \cup InTry
Descriptor == [fd : Fd \cup {-1}, info : {"zero", "ta"}]
Answer == [n : {"none", "part", "whole"}, fd : Fd \cup {-1}, info : {"zero", "ta"}, file : Files]

NoAnswer == [n |-> "none", fd |-> -1, info |-> "zero", file |-> "closed"]

\* int32_t fd = -1 and zero in the rest.
EmptyDescriptor == [fd |-> -1, info |-> "zero"]

HelperTypeOK ==
    /\ step \in [Job -> Steps]
    /\ at \in [Job -> [Numbers -> Fd]]
    /\ open \in [Job -> [Fd -> Files]]
    /\ buf \in [Job -> {"none", "handle", "allocated", "registered", "loaded"}]
    /\ desc \in [Job -> Descriptor] /\ sent \in [Job -> Answer]

HelperInit ==
    /\ step = [j \in Job |-> "none"]
    /\ at = [j \in Job |-> [n \in Numbers |-> 0]]
    /\ open = [j \in Job |-> [f \in Fd |-> IF f < 3 THEN "std" ELSE "closed"]]
    /\ buf = [j \in Job |-> "none"]
    /\ desc = [j \in Job |-> EmptyDescriptor]
    /\ sent = [j \in Job |-> NoAnswer]

-----------------------------------------------------------------------------
(* The driver adds a device and udev starts a helper. *)

Request(j) ==
    /\ step[j] = "none"
    /\ step' = [step EXCEPT ![j] = "main"]
    /\ UNCHANGED <<at, open, buf, desc, sent>>

-----------------------------------------------------------------------------
(* The helper: loadFirmware and allocateMemory. *)

Go(j, s) == step' = [step EXCEPT ![j] = s]

\* A new file gets the lowest number that is free.
Lowest(j) == {f \in Fd : /\ open[j][f] = "closed"
                         /\ \A g \in 0..(f - 1) : open[j][g] # "closed"}
OpenAs(j, name, file) ==
    \E f \in Lowest(j) : /\ open' = [open EXCEPT ![j][f] = file]
                         /\ at' = [at EXCEPT ![j][name] = f]

\* Arguments; a size of memory that is not positive.
Main(j) ==
    /\ step[j] = "main"
    /\ Go(j, "open") \/ Go(j, "error")
    /\ UNCHANGED <<at, open, buf, desc, sent>>

OpenDestination(j) ==
    /\ step[j] = "open"
    /\ \/ Go(j, "context") /\ OpenAs(j, "dst", "dst")
       \/ Go(j, "error") /\ UNCHANGED <<at, open>>
    /\ UNCHANGED <<buf, desc, sent>>

\* Session::Session.
InitializeContext(j) ==
    /\ step[j] = "context"
    /\ Go(j, "session") /\ OpenAs(j, "tee", "tee")
    /\ UNCHANGED <<buf, desc, sent>>
OpenSession(j) ==
    /\ step[j] = "session"
    /\ Go(j, IF j \in Firmware THEN "read" ELSE "ion")
    /\ UNCHANGED <<at, open, buf, desc, sent>>

ReadFirmwareBinary(j) ==
    /\ step[j] = "read"
    /\ Go(j, "ion")
    /\ UNCHANGED <<at, open, buf, desc, sent>>

\* BufferION::allocateBuffer: with ION_IOC_MAP the handle is freed once it has a file.
OpenIon(j) ==
    /\ step[j] = "ion"
    /\ Go(j, "alloc") /\ OpenAs(j, "ion", "ion")
    /\ UNCHANGED <<buf, desc, sent>>
Allocate(j) ==
    /\ step[j] = "alloc"
    /\ IF HasIonMap
       THEN Go(j, "map") /\ buf' = [buf EXCEPT ![j] = "handle"] /\ UNCHANGED <<at, open>>
       ELSE Go(j, "register") /\ buf' = [buf EXCEPT ![j] = "allocated"]
            /\ OpenAs(j, "buf", "buffer")
    /\ UNCHANGED <<desc, sent>>
MapHandle(j) ==
    /\ step[j] = "map"
    /\ Go(j, "free") /\ buf' = [buf EXCEPT ![j] = "allocated"] /\ OpenAs(j, "buf", "buffer")
    /\ UNCHANGED <<desc, sent>>
FreeHandle(j) ==
    /\ step[j] = "free"
    /\ Go(j, "register")
    /\ UNCHANGED <<at, open, buf, desc, sent>>

Closed(t, f) == [t EXCEPT ![f] = "closed"]

\* The ION device is closed before the buffer is registered, also if that fails.
Register(j) ==
    /\ step[j] = "register"
    /\ Go(j, IF j \in Firmware THEN "load" ELSE "fill")
    /\ buf' = [buf EXCEPT ![j] = "registered"]
    /\ open' = [open EXCEPT ![j] = Closed(@, at[j].ion)]
    /\ UNCHANGED <<at, desc, sent>>

\* Firmware::loadFirmware: the trusted application fills the buffer.
Load(j) ==
    /\ step[j] = "load"
    /\ Go(j, "fill") /\ buf' = [buf EXCEPT ![j] = "loaded"]
    /\ UNCHANGED <<at, open, desc, sent>>

\* Slip: the buffer goes with the session that allocated it.
BufferToo(j, t) == Closed(Closed(t, at[j].tee), at[j].buf)

\* Session::~Session; the buffer is never deleted.
SessionEnd(j, t) == Closed(t, at[j].tee)

\* One of these calls fails and throws.  A constructor that throws is not followed by
\* its destructor: the context of a session that could not be opened stays, and so do
\* the files of a buffer that was not finished.
Throw(j) ==
    /\ step[j] \in InTry
    /\ Go(j, "write")
    /\ open' = [open EXCEPT ![j] =
            LET t == IF step[j] = "register" THEN Closed(@, at[j].ion) ELSE @
            IN  IF step[j] \in {"context", "session"} THEN t ELSE SessionEnd(j, t)]
    /\ UNCHANGED <<at, buf, desc, sent>>

Fill(j) ==
    /\ step[j] = "fill"
    /\ Go(j, "write")
    /\ desc' = [desc EXCEPT ![j] = [fd   |-> at[j].buf,
                                    info |-> IF j \in Firmware THEN "ta" ELSE "zero"]]
    /\ open' = [open EXCEPT ![j] = SessionEnd(j, @)]
    /\ UNCHANGED <<at, buf, sent>>

Success(n) == n = "whole"

\* The driver takes the file that has the number now; the helper ends with all its files.
Write(j) ==
    /\ step[j] = "write"
    /\ \E n \in {"none", "part", "whole"} :
        /\ Go(j, IF Success(n) THEN "ok" ELSE "error")
        /\ sent' = [sent EXCEPT ![j] =
                [n |-> n, fd |-> desc[j].fd, info |-> desc[j].info,
                 file |-> IF desc[j].fd \in Fd THEN open[j][desc[j].fd] ELSE "closed"]]
    /\ open' = [open EXCEPT ![j] = [f \in Fd |-> "closed"]]
    /\ UNCHANGED <<at, buf, desc>>

Helper(j) ==
    \/ Main(j) \/ OpenDestination(j)
    \/ InitializeContext(j) \/ OpenSession(j) \/ ReadFirmwareBinary(j)
    \/ OpenIon(j) \/ Allocate(j) \/ MapHandle(j) \/ FreeHandle(j)
    \/ Register(j) \/ Load(j) \/ Throw(j) \/ Fill(j) \/ Write(j)

HelperNext == \E j \in Job : Request(j) \/ Helper(j)

HelperSpec == HelperInit /\ [][HelperNext]_hvars

-----------------------------------------------------------------------------
(* Properties. *)

Complete(j) == IF j \in Firmware THEN "loaded" ELSE "registered"

\* A descriptor with a number gives the driver what it asked for: the number was that
\* of the buffer when it was written, the buffer is registered with the secure world
\* and, for a firmware, loaded, and the rest of the descriptor belongs to it.  Without
\* a number the descriptor is empty and the request was not served.
WrittenUsable ==
    \A j \in Job : sent[j].n = "whole" =>
        IF sent[j].fd = -1
        THEN sent[j].info = "zero" /\ buf[j] # Complete(j)
        ELSE /\ sent[j].file = "buffer" /\ buf[j] = Complete(j)
             /\ sent[j].info = "ta" <=> j \in Firmware
=============================================================================
