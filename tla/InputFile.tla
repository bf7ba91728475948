----------------------------- MODULE InputFile ------------------------------
(***************************************************************************)
(* InputFile (test/mvx_player/mvx_player.cpp): how an input file becomes   *)
(* packets.  A session calls prepare until eof, once for each packet.      *)
(*                                                                         *)
(* There are three modes.  A raw file is read a packet at a time, or       *)
(* copied from a preloaded one over and over.  With one frame for each     *)
(* buffer, start_code_reader (test/mvx_player/reader/parser.h) is asked    *)
(* for the next frame.  With one NAL unit for each buffer prepare looks    *)
(* for start codes itself.                                                 *)
(*                                                                         *)
(* A file is a sequence of cells.  In the raw and the unit mode a cell is  *)
(* a byte: 0, 1 or another.  In the frame mode it is the start code and    *)
(* header of a NAL unit, named for its kind, or some more of its body, so  *)
(* that in this mode no read ends inside a start code or a header and no   *)
(* unit is without one; the stream parsers (h264_parser, hevc_parser) are  *)
(* abstracted to the kinds they tell apart.  A packet has one plane.       *)
(***************************************************************************)
EXTENDS Naturals, Sequences, FiniteSets, FiniteSetsExt, SequencesExt

CONSTANTS
    BufLen,     \* V4L2_READ_LEN_BUFFER_ROI in the cells of the frame mode
    ReadLen,    \* and in bytes
    PacketLen,  \* bytes of a raw packet
    MaxCells,   \* bound on the length of a file of frames
    MaxBytes,   \* of one of bytes
    MaxLong,    \* and of one of zeros and ones only
    MaxPackets  \* bound on the packets copied from a preloaded file

\* A read is longer than a start code.
ASSUME ReaderAssumption ==
    /\ {BufLen, PacketLen} \subseteq Nat \ {0} /\ ReadLen \in Nat /\ ReadLen > 4
    /\ {MaxCells, MaxBytes, MaxLong, MaxPackets} \subseteq Nat

Config == "config"      \* parameter sets
First  == "first"       \* first slice of a frame
Slice  == "slice"       \* a further slice of the same frame
Other  == "other"       \* SEI, delimiters, end of sequence
Body   == "body"
Stale  == <<"stale">>   \* a buffer sent with what it held before

SliceKinds == {First, Slice}
NalKinds   == {Config, Other} \cup SliceKinds
Cells      == NalKinds \cup {Body}

Bytes == {"0", "1", "x"}

VARIABLES
    mode,       \* "raw", "frame" or "unit": the NALU format
    preload,    \* --preload
    file,
    pos,        \* cells read from it
    rem,        \* inputBuf: the first remaining_bytes, or curlen, of it
    isEos,      \* start_code_reader::is_eos
    heap,       \* what malloc left where the first read came up short
    offset,     \* in rem, where the unit begins
    part,       \* what the packet has already of the unit
    readPos,    \* in the preloaded file
    iseof,      \* InputFile::iseof
    out         \* packets prepared so far

config  == <<mode, preload, file, heap>>
reading == <<pos, rem, isEos, offset, part, readPos, iseof>>
vars == <<config, reading, out>>

HeadsOf(s) == {i \in 1..Len(s) : s[i] \in NalKinds}
\* The NAL unit before the one that starts at i.
Previous(s, i) == Max({j \in HeadsOf(s) : j < i})

\* A stream begins with a NAL unit, and a further slice follows a slice.
Stream(s) ==
    s # <<>> =>
        /\ s[1] \in NalKinds \ {Slice}
        /\ \A i \in HeadsOf(s) : s[i] = Slice => s[Previous(s, i)] \in SliceKinds

\* InputFile::preloadBuffer reads the whole file, so that for the modes that cut it
\* nothing is left: they see an empty one.
Files == IF mode # "raw" /\ preload THEN {<<>>}
         ELSE IF mode = "frame" THEN {s \in BoundedSeq(Cells, MaxCells) : Stream(s)}
         ELSE BoundedSeq(Bytes, MaxBytes) \cup BoundedSeq({"0", "1"}, MaxLong)

Init ==
    /\ mode \in {"raw", "frame", "unit"} /\ preload \in BOOLEAN
    /\ file \in Files
    /\ pos = IF preload THEN Len(file) ELSE 0
    /\ heap \in IF mode = "unit" THEN [1..(ReadLen - Min({ReadLen, Len(file)})) -> Bytes] ELSE {<<>>}
    /\ rem = <<>> /\ isEos = FALSE /\ offset = 0 /\ part = <<>> /\ readPos = 0
    /\ iseof = FALSE /\ out = <<>>

-----------------------------------------------------------------------------
(* start_code_reader::find_one_frame on buffer b, at the end of file or not. *)

\* Slip: the unit cut off by the end of the buffer is taken as whole.
EndsAnyway(b, i, eos) == TRUE
\* A unit ends at the next start code, or at the end of the file.
Ends(b, i, eos) == eos \/ \E j \in HeadsOf(b) : j > i

EndOf(b, i) ==
    IF \E j \in HeadsOf(b) : j > i THEN Min({j \in HeadsOf(b) : j > i}) - 1 ELSE Len(b)

\* Frames begun up to the unit at i.
Begun(b, i) == Cardinality({j \in HeadsOf(b) : j <= i /\ b[j] = First})

\* The scan goes on behind a slice unless a second frame begins there.
StopsAt(b, i) == b[i] \notin SliceKinds \/ Begun(b, i) >= 2

\* Cells of the buffer up to the end of the frame or of the unit that is no slice;
\* 0 for RR_EOP and RR_EOS.
FrameEnd(b, eos) ==
    LET stops == {i \in HeadsOf(b) : StopsAt(b, i)} IN
    IF stops = {} \/ ~Ends(b, Min(stops), eos) THEN 0
    ELSE IF Begun(b, Min(stops)) = 0 THEN EndOf(b, Min(stops)) ELSE Min(stops) - 1

-----------------------------------------------------------------------------
(* InputFile::prepare for one frame, one turn of its loop. *)

Space == BufLen - Len(rem)
Count == Min({Space, Len(file) - pos})
Filled == rem \o SubSeq(file, pos + 1, pos + Count)

\* Slip: the end is looked for only after an empty read.
EosAfterEmpty == isEos \/ (pos < Len(file) /\ Count = 0)
\* A short read meets the end; a read that is not tried, or fills the buffer, does not.
EosAfterRead == isEos \/ (pos < Len(file) /\ Count < Space)

\* Slip: what is left is dropped.
DropLeft(b, n) == <<>>
Left(b, n) == SubSeq(b, n + 1, Len(b))

Found ==
    LET n == FrameEnd(Filled, EosAfterRead) IN
    /\ n > 0
    /\ out' = Append(out, SubSeq(Filled, 1, n))
    /\ rem' = Left(Filled, n)
    /\ UNCHANGED iseof

\* Slip: the last frame is not copied.
NoLastFrame(b) == Stale
\* RR_EOS: what is left is the last frame.  Without any, the sizes of the buffer
\* are left as they were.
LastFrame(b) == IF b = <<>> THEN Stale ELSE b
EndOfStream ==
    /\ FrameEnd(Filled, EosAfterRead) = 0 /\ EosAfterRead
    /\ out' = Append(out, LastFrame(Filled))
    /\ rem' = <<>>
    /\ iseof' = TRUE

\* RR_EOP: more data is needed.
EndOfPacket ==
    /\ FrameEnd(Filled, EosAfterRead) = 0 /\ ~EosAfterRead
    /\ rem' = Filled
    /\ UNCHANGED <<out, iseof>>

PrepareFrame ==
    /\ mode = "frame" /\ ~iseof
    /\ Found \/ EndOfStream \/ EndOfPacket
    /\ pos' = pos + Count
    /\ isEos' = EosAfterRead
    /\ UNCHANGED <<config, offset, part, readPos>>

-----------------------------------------------------------------------------
(* InputFile::prepare for one unit, one turn of its loop. *)

IsAt(b, i, s) == i + Len(s) - 1 <= Len(b) /\ SubSeq(b, i, i + Len(s) - 1) = s
StartCode    == <<"0", "0", "0", "1">>
SubStartCode == <<"0", "0", "1">>

\* The length of the start code at i, 0 if there is none.
CodeLen(b, i) == IF IsAt(b, i, StartCode) THEN 4 ELSE IF IsAt(b, i, SubStartCode) THEN 3 ELSE 0

\* Slip: only a code that the read cuts is looked at again, not one without a body.
ShortTail == 2
\* What is kept at the end of the buffer, since a start code may begin there.
TailLen == 4

\* The first zero behind the offset that begins a start code or is near the end.
Stop == Min({i \in (offset + 1)..Len(rem) :
                rem[i] = "0" /\ (i > Len(rem) - TailLen \/ CodeLen(rem, i) > 0)}
            \cup {Len(rem) + 1})
AtTail == Stop > Len(rem) - TailLen

Packet(data, measured) == [data |-> data, measured |-> measured]
Unit(end) == part \o SubSeq(rem, offset + 1, end)
NextRead  == SubSeq(file, pos + 1, Min({pos + ReadLen, Len(file)}))

\* The first read is taken to have filled the buffer.  A long start code in front is
\* not the end of a unit.
FirstRead ==
    /\ rem = <<>>
    /\ rem' = NextRead \o heap
    /\ offset' = IF IsAt(rem', 1, StartCode) THEN 4 ELSE 0
    /\ pos' = pos + Len(NextRead)
    /\ UNCHANGED <<part, iseof, out>>

FoundUnit ==
    /\ rem # <<>> /\ ~AtTail
    /\ out' = Append(out, Packet(Unit(Stop - 1), TRUE))
    /\ part' = <<>> /\ offset' = Stop - 1 + CodeLen(rem, Stop)
    /\ UNCHANGED <<pos, rem, iseof>>

ReadOn ==
    /\ rem # <<>> /\ AtTail /\ pos < Len(file)
    /\ part' = Unit(Stop - 1)
    /\ rem' = SubSeq(rem, Stop, Len(rem)) \o NextRead /\ offset' = 0
    /\ pos' = pos + Len(NextRead)
    /\ UNCHANGED <<iseof, out>>

\* The length of the packet is left as it was, that of the plane.
LastUnit ==
    /\ rem # <<>> /\ AtTail /\ pos = Len(file)
    /\ out' = Append(out, Packet(Unit(Len(rem)), FALSE))
    /\ iseof' = TRUE
    /\ UNCHANGED <<pos, rem, offset, part>>

PrepareUnit ==
    /\ mode = "unit" /\ ~iseof
    /\ FirstRead \/ FoundUnit \/ ReadOn \/ LastUnit
    /\ UNCHANGED <<config, isEos, readPos>>

-----------------------------------------------------------------------------
(* InputFile::prepare and InputFile::readBuffer for a raw packet. *)

PrepareRaw ==
    LET data == SubSeq(file, pos + 1, Min({pos + PacketLen, Len(file)})) IN
    /\ mode = "raw" /\ ~preload /\ ~iseof
    /\ out' = Append(out, Packet(data, TRUE))
    /\ pos' = pos + Len(data)
    /\ iseof' = (Len(data) < PacketLen)
    /\ UNCHANGED <<config, rem, isEos, offset, part, readPos>>

\* At the end of the preloaded file the call begins again at the front; in an empty file
\* it would never find one.
PrepareAgain ==
    LET front == IF readPos < Len(file) THEN readPos ELSE 0
        data  == SubSeq(file, front + 1, Min({front + PacketLen, Len(file)})) IN
    /\ mode = "raw" /\ preload /\ file # <<>> /\ Len(out) < MaxPackets
    /\ out' = Append(out, Packet(data, TRUE))
    /\ readPos' = IF Len(data) < PacketLen THEN 0 ELSE front + PacketLen
    /\ UNCHANGED <<config, pos, rem, isEos, offset, part, iseof>>

-----------------------------------------------------------------------------
Prepare == PrepareFrame \/ PrepareUnit \/ PrepareRaw \/ PrepareAgain

\* The session has the whole file, or stops for reasons of its own.
Done == (iseof \/ (mode = "raw" /\ preload)) /\ UNCHANGED vars

Next == Prepare \/ Done

Spec == Init /\ [][Next]_vars /\ WF_vars(Prepare)

-----------------------------------------------------------------------------
(* Properties. *)

\* The reference: a sequence cut at places; what is behind a place goes on up to the next,
\* or to where that says the part in front of it ends.
Before(places, i) == Cardinality({j \in places : j < i})
Nth(places, k)    == CHOOSE i \in places : Before(places, i) = k - 1
Behind(places, i) == {j \in places : j > i}
EndOfPart(s, ends, i) ==
    IF Behind(DOMAIN ends, i) = {} THEN Len(s) ELSE ends[Min(Behind(DOMAIN ends, i))]
Parts(s, ends) ==
    [k \in 1..Cardinality(DOMAIN ends) |->
        LET i == Nth(DOMAIN ends, k) IN SubSeq(s, i + 1, EndOfPart(s, ends, i))]

\* The file cut into frames and other units, at the places in front of them.
UnitPlaces == {i - 1 : i \in {i \in HeadsOf(file) : i = 1 \/ file[i] # Slice}}
Units == Parts(file, [i \in UnitPlaces |-> i])

Sent == IF out # <<>> /\ Last(out) = Stale THEN Front(out) ELSE out

\* Every buffer is exactly one frame or other unit of the file, in the file's
\* order, wherever the reads cut the stream; the one sent without being filled comes last.
OneFrameEach == mode = "frame" => IsPrefix(Sent, Units)

\* The reference for raw packets: they follow one on the other, and a preloaded file
\* comes again and again from its front.
InRound == (Len(file) + PacketLen - 1) \div PacketLen
PlaceOf(k) == (IF preload THEN (k - 1) % InRound ELSE k - 1) * PacketLen
Piece(k) == SubSeq(file, PlaceOf(k) + 1, Min({PlaceOf(k) + PacketLen, Len(file)}))

\* When the end of file is reported the whole file has been prepared.
NothingLost ==
    /\ mode = "frame" /\ iseof => Sent = Units
    /\ mode = "raw" =>
        /\ \A k \in DOMAIN out : out[k] = Packet(Piece(k), TRUE)
        /\ iseof => PlaceOf(Len(out)) <= Len(file) /\ Len(file) < PlaceOf(Len(out) + 1)

\* The buffer sent at the end of file without being filled is that of a file whose
\* last unit is no slice: the end is noticed one buffer too late.
StaleOnlyAtEnd ==
    mode = "frame" /\ iseof =>
        (Last(out) = Stale <=> file[Max(HeadsOf(file))] \notin SliceKinds)

\* The reference for units: what the code takes for the file, cut at its start codes,
\* each named for its last byte.  A code with too little behind it stays in its unit.
Seen == file \o heap
CodeEnds == {i \in 3..Len(Seen) : Seen[i] = "1" /\ Seen[i - 1] = "0" /\ Seen[i - 2] = "0"}
CodeStart(i) == IF i > 3 /\ Seen[i - 3] = "0" THEN i - 3 ELSE i - 2
InFront == IF CodeLen(Seen, 1) = 4 THEN 4 ELSE 0
Cuts == {i \in CodeEnds : i > InFront /\ CodeStart(i) + 4 <= Len(Seen)}
NalUnits == Parts(Seen, [i \in {InFront} \cup Cuts |-> CodeStart(i) - 1])

\* Every packet is exactly one unit, whichever bytes of a start code a read cuts, and says
\* how long it is, but the last one, which does not; behind a file shorter than a read the
\* last unit goes on with what the buffer held.
OneUnitEach ==
    mode = "unit" =>
        LET units == NalUnits IN
        /\ Len(out) <= Len(units)
        /\ \A k \in DOMAIN out : out[k] = Packet(units[k], k < Len(units))
        /\ iseof => Len(out) = Len(units)

\* The loops end, except when a frame and the next start code do not fit the buffer,
\* when the rest of the file fills exactly what is free of the buffer, so that no
\* read is short, and when the file is empty or was preloaded.  Then the loop for one
\* frame spins.
EndsOrFull ==
    <>(\/ iseof
       \/ mode = "raw" /\ preload
       \/ mode = "frame" /\ (Len(rem) = BufLen \/ Len(file) - pos = Space \/ file = <<>>))
=============================================================================
