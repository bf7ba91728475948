-------------------------------- MODULE Logd --------------------------------
(***************************************************************************)
(* mvx_logd (tools/logd/mvx_logd.cpp): main and Logd::run, which read the  *)
(* driver's message log, and the driver that keeps writing to it.          *)
(*                                                                         *)
(* The log is read in 32 bit words, and every word is a number: what it is *)
(* as a body word, and what Logd::run takes it for when it reads it as a   *)
(* magic word or as the word that holds length and type.  A message is the *)
(* magic word, the length word, the rest of the header and the body,       *)
(* rounded up to whole words.  The first words may be the tail of a        *)
(* message that was overwritten.  The driver (external) appends to it; the *)
(* output is the list of the places of the unpacked messages.              *)
(*                                                                         *)
(* The buffer of Logd::run has MVX_LOG_MESSAGE_LENGTH_MAX + 1 bytes for    *)
(* the header and the body together, so that the longest bodies the length *)
(* check lets through do not fit.  To read one writes behind the buffer,   *)
(* which is undefined: the program is then at "overrun", and nothing is    *)
(* said of what it does from there.                                        *)
(***************************************************************************)
EXTENDS Naturals, Sequences, SequencesExt

CONSTANTS
    WordBytes,      \* bytes of a word
    MaxLength,      \* MVX_LOG_MESSAGE_LENGTH_MAX
    HeaderRest,     \* words of a header after the magic word
    MaxTail,        \* words the log may begin with: the rest of an overwritten message
    Lengths,        \* length words the driver writes; above MaxLength: an unknown type
    MaxMessages     \* messages the driver writes

Magic == MaxLength + 2
Word  == 0..Magic

ASSUME LogAssumption ==
    /\ {WordBytes, HeaderRest} \subseteq Nat \ {0} /\ MaxLength \in Nat
    /\ (1 + HeaderRest) * WordBytes <= MaxLength + 1
    /\ MaxTail \in Nat /\ Lengths \subseteq 0..(MaxLength + 1)
    /\ MaxMessages \in Nat

VARIABLES
    clearBefore, clearAfter, polling,   \* options -C, -c, --follow or -d
    pc,
    start,      \* where the log began when it was opened
    pos,        \* words read so far
    length,     \* header->length of the message being read
    printed,    \* messages unpacked: the places of their magic words
    file,       \* driver: every word ever written
    cleared,    \* driver: words dropped by MVX_LOG_IOCTL_CLEAR
    rest,       \* driver: words of the current message still to be written
    log,        \* driver: the messages begun, by place and length
    gone        \* driver: poll reports an error

options == <<clearBefore, clearAfter, polling>>
reader == <<pc, start, pos, length, printed>>
driver == <<file, cleared, rest, log, gone>>
vars == <<options, reader, driver>>

Init ==
    /\ clearBefore \in BOOLEAN /\ clearAfter \in BOOLEAN /\ polling \in BOOLEAN
    /\ pc = "start" /\ start = 0 /\ pos = 0 /\ length = 0 /\ printed = <<>>
    /\ file \in UNION {[1..n -> {0, Magic}] : n \in 0..MaxTail}
    /\ cleared = 0 /\ rest = <<>> /\ log = <<>> /\ gone = FALSE

-----------------------------------------------------------------------------
(* main and Logd::run. *)

\* Logd::clear; opening the log for it may fail, which main ignores.
Clear(wanted) == \/ wanted /\ cleared' = Len(file)
                 \/ cleared' = cleared

ClearBefore ==
    /\ pc = "start" /\ pc' = "open"
    /\ Clear(clearBefore)
    /\ UNCHANGED <<options, start, pos, length, printed, file, rest, log, gone>>

\* The log and the output are opened, or one of them cannot be.
Open ==
    /\ pc = "open" /\ pc' \in {"magic", "ended"}
    /\ start' = cleared /\ pos' = cleared
    /\ UNCHANGED <<options, length, printed, driver>>

\* Slip: the body is not rounded up.
WholeWords(bytes) == bytes \div WordBytes
BodyWords(bytes) == (bytes + WordBytes - 1) \div WordBytes

\* Slip: the longest message is rejected.
ShorterThanMax(w) == w < MaxLength
Legal(w) == w <= MaxLength

\* What the next readn asks for.
Wanted == CASE pc = "magic"  -> 1
            [] pc = "header" -> HeaderRest
            [] pc = "body"   -> BodyWords(length)

Reading == pc \in {"magic", "header", "body"}

\* The buffer has room for the header, the words of a body and, behind them, the byte
\* that ends a string.
Fits(words) == (1 + HeaderRest + words) * WordBytes <= MaxLength + 1

\* A word of the body that goes behind the buffer can be read.
Overruns ==
    pc = "body" /\ \E n \in 1..Wanted : pos + n <= Len(file) /\ ~Fits(n)

\* readn gets everything: it waits for it with --follow, but for nothing when
\* nothing is asked for.
Arrived == Reading /\ pos + Wanted <= Len(file) /\ (polling /\ gone => Wanted = 0)

ReadMagic ==
    /\ pc = "magic" /\ Arrived
    /\ pc' = IF file[pos + 1] = Magic THEN "header" ELSE "magic"
    /\ pos' = pos + Wanted
    /\ UNCHANGED <<options, start, length, printed, driver>>

\* The length and the type are checked.  After a bad header the search for a
\* magic word goes on behind it.
ReadHeader ==
    /\ pc = "header" /\ Arrived
    /\ \/ /\ Legal(file[pos + 1])
          /\ pc' = "body" /\ length' = file[pos + 1]
       \/ /\ ~Legal(file[pos + 1])
          /\ pc' = "magic" /\ UNCHANGED length
    /\ pos' = pos + Wanted
    /\ UNCHANGED <<options, start, printed, driver>>

ReadBody ==
    /\ pc = "body" /\ Arrived /\ ~Overruns
    /\ pc' = "magic"
    /\ pos' = pos + Wanted
    /\ printed' = Append(printed, pos - HeaderRest)
    /\ UNCHANGED <<options, start, length, driver>>

ReadPastBuffer ==
    /\ Overruns /\ ~(polling /\ gone)
    /\ pc' = "overrun"
    /\ UNCHANGED <<options, start, pos, length, printed, driver>>

\* Slips: the end is an end with --follow too, or is never one.
FailsAtEnd == gone \/ pos + Wanted > Len(file)
FailsGone == gone

\* readn fails: read has nothing more, or poll reports an error.
ReadFails == IF polling THEN gone ELSE pos + Wanted > Len(file)

\* How far the part of the read that succeeded has gone.
ReadSoFar == IF polling THEN pos ELSE Len(file)

\* Part of a message that was read is dropped with it.
Stop ==
    /\ Reading /\ Wanted > 0 /\ ReadFails /\ (polling \/ ~Overruns)
    /\ pc' = "ended"
    /\ pos' = ReadSoFar
    /\ UNCHANGED <<options, start, length, printed, driver>>

\* main clears the log whatever Logd::run returned.
ClearAfter ==
    /\ pc = "ended" /\ pc' = "exit"
    /\ Clear(clearAfter)
    /\ UNCHANGED <<options, start, pos, length, printed, file, rest, log, gone>>

-----------------------------------------------------------------------------
(* The driver. *)

Header(w) == <<Magic, w>> \o [i \in 1..(HeaderRest - 1) |-> 0]
BodyOf(w, b) == [i \in 1..((w + WordBytes - 1) \div WordBytes) |-> b]

\* The driver writes a header, and the body behind it, which may hold any word.
WriteHeader(w) ==
    /\ rest = <<>> /\ Len(log) < MaxMessages
    /\ file' = file \o Header(w)
    /\ \E b \in {0, Magic} : rest' = BodyOf(w, b)
    /\ log' = Append(log, [at |-> Len(file) + 1, length |-> w])
    /\ UNCHANGED <<options, reader, cleared, gone>>

WriteBody ==
    /\ rest # <<>>
    /\ file' = file \o rest /\ rest' = <<>>
    /\ UNCHANGED <<options, reader, cleared, log, gone>>

Vanish ==
    /\ polling /\ ~gone /\ gone' = TRUE
    /\ UNCHANGED <<options, reader, file, cleared, rest, log>>

Reader == \/ ClearBefore \/ Open \/ ReadMagic \/ ReadHeader \/ ReadBody
          \/ ReadPastBuffer \/ Stop \/ ClearAfter
Driver == WriteBody \/ Vanish \/ \E w \in Lengths : WriteHeader(w)

\* A read may wait for ever with --follow, and the program ends without.
Idle == (Reading \/ pc \in {"exit", "overrun"}) /\ UNCHANGED vars

Next == Reader \/ Driver \/ Idle
Spec == Init /\ [][Next]_vars
FairSpec == Spec /\ WF_vars(Reader) /\ WF_vars(WriteBody)

-----------------------------------------------------------------------------
(* Properties. *)

\* The place behind message m.
End(m) == m.at + HeaderRest + (m.length + WordBytes - 1) \div WordBytes

\* The legal messages behind the place where mvx_logd began to read.
Ours == {m \in Range(log) : m.length <= MaxLength /\ m.at > start}

IsOurs(i) == i <= Len(log) /\ log[i] \in Ours

\* No stray magic word: outside the legal messages there is one only where a
\* message begins.
Clean ==
    \A p \in (start + 1)..Len(file) : file[p] = Magic =>
        \/ \E m \in Range(log) : m.at = p
        \/ \E m \in Ours : m.at < p /\ p <= End(m)

\* Without stray magic words Logd::run never gets out of step: from a start in
\* the middle of a message, through messages with an unknown type and bodies
\* that hold magic words, it has unpacked exactly the legal messages it has
\* read to their ends, in order, and their bodies all fit its buffer.  It is a
\* legal message longer than that, and nothing else, that is read past the buffer.
InStep ==
    /\ Clean /\ pc \in {"magic", "ended", "exit"} =>
        /\ Range(printed) = {m.at : m \in {m \in Ours : End(m) <= pos}}
        /\ \A i, j \in DOMAIN printed : i < j => printed[i] < printed[j]
        /\ \A m \in Ours : End(m) <= pos => Fits(BodyWords(m.length))
    /\ Clean /\ pc = "overrun" =>
        \E m \in Ours : ~Fits(BodyWords(m.length)) /\ m.at = pos - HeaderRest

\* With --follow every legal message is unpacked, unless the driver goes away, a
\* file cannot be opened, or a message before it or itself is longer than the buffer.
FollowPrints ==
    \A i \in 1..MaxMessages :
        (polling /\ pc = "magic" /\ Clean /\ IsOurs(i))
            ~> \/ gone \/ ~Clean
               \/ IsOurs(i) /\ Contains(printed, log[i].at)
               \/ IsOurs(i) /\ pc = "overrun" /\ pos - HeaderRest <= log[i].at

\* Without --follow mvx_logd ends, whatever it finds in the log, unless a message is
\* longer than its buffer.
Ends == ~polling ~> pc = "exit" \/ pc = "overrun"
=============================================================================
