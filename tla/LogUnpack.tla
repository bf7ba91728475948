----------------------------- MODULE LogUnpack ------------------------------
(***************************************************************************)
(* What mvx_logd makes of a record of the log: LogdText and LogdJSON of    *)
(* tools/logd/mvx_logd.cpp, and the description of the messages of the     *)
(* firmware in mvx_logd_fwif_v2.cpp.  Which bytes of the log make a record *)
(* is the module Logd.                                                     *)
(*                                                                         *)
(* A description is built piece by piece in a buffer of DataSize bytes,    *)
(* one call of scnprintf for each piece.  A piece is kept as what decides  *)
(* its length and what it reads: the characters of its format, how many    *)
(* names it prints, and the members it prints of which structure.  Of its  *)
(* characters those are kept that come from the driver or the firmware.    *)
(* The line written for a record is a sequence of characters, with one     *)
(* token for a bracket, a comma or a key of JSON.                          *)
(***************************************************************************)
EXTENDS FwProtocol, SequencesExt

CONSTANTS
    DataSize,       \* the buffer of a description
    TextLength,     \* characters in the texts of a run
    Long,           \* ordinary characters the character "long" stands for
    CountMax        \* regions a list may claim to have; 255 in the code

ASSUME UnpackAssumption ==
    DataSize \in Nat \ {0} /\ TextLength \in Nat /\ Long \in Nat /\ CountMax \in Nat

VARIABLES
    fmt,    \* the format asked for, "text" or "json"
    stage,  \* "idle", "describe", "written", or "undefined"
    rec,    \* the record
    todo,   \* pieces still to print
    n,      \* characters in the buffer
    total,  \* characters all pieces so far had
    data,   \* which they are
    out     \* the line of the record

vars == <<fmt, stage, rec, todo, n, total, data, out>>

-----------------------------------------------------------------------------
(* Records. *)

\* "a" is an ordinary character, or any number of them that the code itself writes.
Special == {"'", "\"", "\\"}
Chars   == Special \cup {"a", "\n", "long"}
Texts   == BoundedSeq(Chars, TextLength)
Version == {1, 2, 3}

Fwif(versions, channels, msgs) ==
    [type : {"FWIF"}, version : versions, channel : channels, msg : msgs]

\* The driver has a code of its own, and newer firmware others.
OtherCodes == {"STAT", "new"}
Logged == Messages \cup [code : OtherCodes, tag : {"none"}]

\* A list of regions says how many there are, in a byte; nothing compares it with
\* the MaxRegions there is room for.
Signals == [code : {m.code : m \in Logged}, tag : {m.tag : m \in Logged},
            count : 0..CountMax]
SignalsSent == {m \in Signals : /\ [code |-> m.code, tag |-> m.tag] \in Logged
                                /\ m.tag # "REGIONS" => m.count = 0}
\* A print says how long its text is, in a word; past: beyond what was sent.
RpcSent ==
    [code : {"RPC"}, state : RpcStates, call : DOMAIN RpcMember, text : {<<>>},
     past : {FALSE}]
    \cup [code : {"RPC"}, state : {"PARAM"}, call : {"DEBUG_PRINTF"}, text : Texts,
          past : BOOLEAN]

Records ==
    [type : {"TEXT"}, text : Texts]
    \cup Fwif(Version, {"MESSAGE", "INPUT", "OUTPUT"}, SignalsSent)
    \cup Fwif(Version, {"RPC"}, RpcSent)
    \cup Fwif(Version, {"other"}, {m \in SignalsSent : m.code = "GO"})
    \cup [type : {"FW_BINARY"}]

-----------------------------------------------------------------------------
(* Logd::getSignalData and Logd::getRpcData: the pieces of a description. *)

\* A piece of text characters and some names (labels), which prints members of the
\* structure s at an offset of the message; member is what the code takes s to be.
Piece(text, labels, member, s, at, names) ==
    [text |-> text, labels |-> labels, member |-> member, s |-> s, at |-> at, names |-> names]

OfStruct(code, text, names) == <<Piece(text, <<>>, "none", Structs[code], 0, names)>>

\* Slip: a case is missing.
NameOfKnown(code) ==
    IF code \in OtherCodes \cup {"RELEASE_REF_FRAME", "REF_FRAME_UNUSED", "IDLE_ACK"}
    THEN "UNKNOWN" ELSE code

\* The names; a request and a response with one name are not told apart.
SignalName(code) == CASE code \in OtherCodes -> "UNKNOWN"
                      [] code \in {"RELEASE_REF_FRAME", "REF_FRAME_UNUSED"} -> "UNKNOWN"
                      [] code = "DUMP_REQUEST"  -> "DUMP"
                      [] code = "DEBUG_REQUEST" -> "DEBUG"
                      [] OTHER -> code
SetOptionName(o) ==
    IF o \in {"ENC_EXTRA_REFS", "QP_DELTA_RAW_I_P", "QP_DELTA_RAW_I_B_REF",
              "QP_DELTA_RAW_I_B_NONREF", "ENC_FIXED_QP", "FLUSHLESS_REFBANK",
              "ENC_CROP_RARAM_LEFT", "ENC_CROP_RARAM_RIGHT", "ENC_CROP_RARAM_TOP",
              "ENC_CROP_RARAM_BOTTOM", "DEC_DOWNSCALE_POS_MODE"}
    THEN "UNKNOWN" ELSE o
BufferParamName(t) == IF t \in {"VP9_SEGMAP", "RATE_CONTROL_QP_RANGE_I"} THEN "UNKNOWN" ELSE t
EventName(e) == e

\* Codes without a case of their own print nothing.
StructPieces(code) ==
    CASE code = "JOB"             -> OfStruct(code, 25, <<"cores", "frames", "flags">>)
      [] code = "SWITCHED_IN"     -> OfStruct(code, 5, <<"core">>)
      [] code = "SWITCHED_OUT"    -> OfStruct(code, 27, <<"core", "reason", "sub_reason">>)
      [] code = "JOB_DEQUEUED"    -> OfStruct(code, 10, <<"valid_job">>)
      [] code = "ERROR"           -> OfStruct(code, 25, <<"error_code", "message">>)
      [] code = "STATE_CHANGE"    -> OfStruct(code, 10, <<"new_state">>)
      [] code = "SET_OPTION_FAIL" -> OfStruct(code, 18, <<"index", "message">>)
      [] code = "FRAME_ALLOC_PARAM" -> OfStruct(code, 120,
            <<"planar_alloc_frame_width", "planar_alloc_frame_height", "afbc_alloc_bytes",
              "afbc_width_in_superblocks", "mbinfo_alloc_bytes", "dsl_frame_width",
              "dsl_frame_height">>)
      [] code = "SEQUENCE_PARAMETERS" -> OfStruct(code, 124,
            <<"interlace", "chroma_format", "bitdepth_luma", "bitdepth_chroma",
              "num_buffers_planar", "num_buffers_afbc", "range_mapping_enabled">>)
      [] code = "BITSTREAM" -> OfStruct(code, 99,
            <<"host_handle", "user_data_tag", "bitstream_flags", "bitstream_alloc_bytes",
              "bitstream_offset", "bitstream_filled_len", "bitstream_buf_addr">>)
      [] OTHER -> <<>>

InUnion(code, member, text, names) ==
    <<Piece(text, <<>>, member, Data[code][member], SizeOf(HeadOf(code)), names)>>

PrintedOption(o) ==
    CASE o \in {"NALU_FORMAT"} ->
            <<Piece(12, <<"nalu">>, "arg", OptionData["arg"], SizeOf(HeadOf("SET_OPTION")), <<"arg">>)>>
      [] o \in {"STREAM_ESCAPING", "HOST_PROTOCOL_PRINTS", "PROFILING", "DISABLE_FEATURES",
                "IGNORE_STREAM_HEADERS", "FRAME_REORDERING", "INTBUF_SIZE", "ENC_P_FRAMES",
                "ENC_B_FRAMES", "GOP_TYPE", "INTRA_MB_REFRESH", "ENC_CONSTR_IPRED",
                "ENC_ENTROPY_SYNC", "ENC_TEMPORAL_MVP", "ENC_MIN_LUMA_CB_SIZE",
                "ENC_MB_TYPE_ENABLE", "ENC_MB_TYPE_DISABLE", "ENC_H264_CABAC",
                "ENC_SLICE_SPACING", "ENC_VP9_PROB_UPDATE", "RESYNC_INTERVAL",
                "ENC_EXPOSE_REF_FRAMES", "MBINFO_OUTPUT", "ENC_STREAM_CHROMA_FORMAT",
                "WATCHDOG_TIMEOUT", "ENC_CABAC_INIT_IDC", "ENC_LTR_MODE", "ENC_LTR_PERIOD"} ->
            InUnion("SET_OPTION", "arg", 11, <<"arg", "arg">>)
      [] o = "PROFILE_LEVEL"   -> InUnion("SET_OPTION", "profile_level", 34, <<"profile", "level">>)
      [] o = "TILES"           -> InUnion("SET_OPTION", "tiles", 22, <<"tile_rows", "tile_cols">>)
      [] o = "HUFFMAN_TABLE"   -> InUnion("SET_OPTION", "huffman_table", 23, <<"type">>)
      [] o = "QUANT_TABLE"     -> InUnion("SET_OPTION", "quant_table", 21, <<"type">>)
      [] o = "MV_SEARCH_RANGE" -> InUnion("SET_OPTION", "motion_vector_search_range", 24,
                                          <<"mv_search_range_x", "mv_search_range_y">>)
      [] o = "ENC_STREAM_BITDEPTH" -> InUnion("SET_OPTION", "bitdepth", 27,
                                              <<"luma_bitdepth", "chroma_bitdepth">>)
      [] o = "DEC_DOWNSCALE"   -> InUnion("SET_OPTION", "downscaled_frame", 29,
                                          <<"width", "height">>)
      [] OTHER -> <<>>

PrintedEvent(e) ==
    CASE e = "PROCESSED" -> InUnion("EVENT", "event_processed", 277,
            <<"pic_format", "parse_start_time", "parse_end_time", "parse_idle_time",
              "pipe_start_time", "pipe_end_time", "pipe_idle_time", "parser_coreid",
              "pipe_coreid", "bitstream_bits", "intermediate_buffer_size",
              "total_memory_allocated", "bus_read_bytes", "bus_write_bytes", "afbc_bytes">>)
      [] e = "REF_FRAME" -> InUnion("EVENT", "event_ref_frame", 125,
            <<"ref_addr", "ref_width", "ref_height", "ref_mb_width", "ref_mb_height",
              "ref_left_crop", "ref_top_crop", "ref_frame_size", "ref_display_order",
              "bit_width">>)
      [] OTHER -> <<>>

\* Slip: the bits of the variant, not the AFBC bit.
VariantBit(f) == (FormatValue(f) \div 2^12) % 2 = 1

IsAfbc(f) == (FormatValue(f) \div 2^15) % 2 = 1

\* Slip: both descriptions, one after the other.
PrintedBoth(f) ==
    InUnion("FRAME", "afbc", 104,
        <<"plane", "alloc_bytes", "cropx", "cropy", "afbc_width_in_superblocks",
          "afbc_params">>)
    \o InUnion("FRAME", "planar", 97,
        <<"plane_top", "plane_bot", "stride", "max_frame_width", "max_frame_height">>)

PrintedFrame(f) ==
    IF IsAfbc(f)
    THEN InUnion("FRAME", "afbc", 104,
            <<"plane", "alloc_bytes", "cropx", "cropy", "afbc_width_in_superblocks",
              "afbc_params">>)
    ELSE InUnion("FRAME", "planar", 97,
            <<"plane_top", "plane_bot", "stride", "max_frame_width", "max_frame_height">>)

\* One piece for each region.
PrintedRegions(count) ==
    LET at == SizeOf(HeadOf("PARAM"))
        Region(i) == Piece(59, <<>>, "regions", ParamRegion,
                           at + OffsetOf(ParamRegions, "region") + (i - 1) * SizeOf(ParamRegion),
                           <<"mbx_left", "mbx_right", "mby_top", "mby_bottom", "qp_delta">>)
    IN  <<Piece(21, <<>>, "regions", ParamRegions, at, <<"n_regions">>)>>
        \o [i \in 1..count |-> Region(i)]
        \o <<Piece(1, <<>>, "regions", ParamRegions, at, <<>>)>>

PrintedParam(t, count) ==
    CASE t = "QP"            -> InUnion("PARAM", "qp", 5, <<"qp">>)
      [] t \in {"QP_I", "QP_P", "QP_B"} -> InUnion("PARAM", "qp", 7, <<"qp">>)
      [] t = "REGIONS"       -> PrintedRegions(count)
      [] t = "DISPLAY_SIZE"  -> InUnion("PARAM", "display_size", 32,
                                        <<"display_width", "display_height">>)
      [] t = "RANGE_MAP"     -> InUnion("PARAM", "range_map", 72,
            <<"luma_map_enabled", "luma_map_value", "chroma_map_enabled", "chroma_map_value">>)
      [] t = "FRAME_RATE"    -> InUnion("PARAM", "arg", 16, <<"arg", "arg">>)
      [] t = "RATE_CONTROL"  -> InUnion("PARAM", "rate_control", 53,
            <<"rate_control_mode", "target_bitrate", "maximum_bitrate">>)
      [] t = "RATE_CONTROL_QP_RANGE" -> InUnion("PARAM", "rate_control_qp_range", 42,
                                                <<"qp_min", "qp_max">>)
      [] t = "COLOUR_DESCRIPTION" -> InUnion("PARAM", "colour_description", 19, <<>>)
      [] t = "FRAME_PACKING" -> InUnion("PARAM", "frame_packing", 15, <<>>)
      [] t = "DPB_HELD_FRAMES" -> InUnion("PARAM", "arg", 18, <<"arg">>)
      [] t = "CHANGE_RECTANGLES" -> InUnion("PARAM", "change_rectangles", 19, <<>>)
      [] t = "RATE_CONTROL_HRD_BUF_SIZE" -> InUnion("PARAM", "arg", 15, <<"arg">>)
      [] t = "SEI_USER_DATA_UNREGISTERED" -> InUnion("PARAM", "user_data_unregistered", 15, <<>>)
      [] t = "FRAME_FIELD_INFO" -> InUnion("PARAM", "frame_field_info", 68,
            <<"pic_struct", "source_scan_type", "duplicate_flag">>)
      [] t = "GOP_RESET"     -> <<Piece(11, <<>>, "none", <<>>, 0, <<>>)>>
      [] OTHER -> <<>>

HeadPiece(code, text, labels, names) == <<Piece(text, labels, "none", HeadOf(code), 0, names)>>

SignalPieces(m) ==
    CASE m.code = "SET_OPTION" ->
            HeadPiece(m.code, 9, <<SetOptionName(m.tag)>>, <<"index">>) \o PrintedOption(m.tag)
      [] m.code = "EVENT"   -> HeadPiece(m.code, 14, <<EventName(m.tag)>>, <<"event_code">>)
                            \o PrintedEvent(m.tag)
      [] m.code = "PARAM"   -> HeadPiece(m.code, 8, <<BufferParamName(m.tag)>>, <<"type">>)
                            \o PrintedParam(m.tag, m.count)
      [] m.code = "FRAME"   ->
            HeadPiece(m.code, 74, <<>>, <<"host_handle", "user_data_tag", "frame_flags",
                       "visible_frame_width", "visible_frame_height", "format">>)
            \o PrintedFrame(m.tag)
      [] m.code = "GENERAL" ->      \* one call in the code; whatever the type
            HeadPiece(m.code, 60, <<>>,
                      <<"host_handle", "user_data_tag", "buffer_size", "config_size">>)
            \o InUnion(m.code, "block_configs", 30, <<"n_cols_minus1", "n_rows_minus1">>)
      [] OTHER -> StructPieces(m.code)

\* Logd::rstrip: cuts characters of trim off the end.
RStrip(s, trim) ==
    LET Kept[l \in 0..Len(s)] == IF l = 0 \/ s[l] \notin trim THEN l ELSE Kept[l - 1]
    IN  SubSeq(s, 1, Kept[Len(s)])

SumOf(ns) ==
    LET Upto[i \in 0..Len(ns)] == IF i = 0 THEN 0 ELSE Upto[i - 1] + ns[i] IN Upto[Len(ns)]

Length(text) == SumOf([i \in DOMAIN text |-> IF text[i] = "long" THEN Long ELSE 1])

InRpc(member, text, names) ==
    <<Piece(text, <<>>, member, RpcData[member], SizeOf(RpcHead), names)>>

RpcPieces(m) ==
    <<Piece(23, <<m.state, m.call>>, "none", RpcHead, 0, <<"size">>)>>
    \o CASE m.state = "PARAM" /\ m.call = "DEBUG_PRINTF" ->
              InRpc("debug_print", 10 + Length(RStrip(m.text, {"\n"})), <<>>)
         [] m.state = "PARAM" /\ m.call = "MEM_ALLOC" ->
              InRpc("mem_alloc", 52, <<"size", "max_size", "region", "log2_alignment">>)
         [] m.state = "PARAM" /\ m.call = "MEM_RESIZE" ->
              InRpc("mem_resize", 25, <<"ve_pointer", "new_size">>)
         [] m.state = "PARAM" /\ m.call = "MEM_FREE" -> InRpc("mem_free", 12, <<"ve_pointer">>)
         [] m.state = "RETURN" /\ m.call \in {"MEM_ALLOC", "MEM_RESIZE"} ->
              InRpc("data", 7 + 8, <<>>)    \* the first word, in hexadecimal
         [] OTHER -> <<>>

\* The header of a firmware binary, with the strings that are printed.
FirmwareHeader ==
    U32(<<"rasc_jmp">>) \o U8(<<"protocol_minor", "protocol_major">>)
    \o Array("reserved", 1, 1, 2) \o Array("info_string", 1, 1, 56)
    \o Array("part_number", 1, 1, 8) \o Array("svn_revision", 1, 1, 8)
    \o Array("version_string", 1, 1, 16)
BinaryPieces ==
    <<Piece(83, <<>>, "none", FirmwareHeader, 0,
            <<"protocol_major", "protocol_minor", "info_string", "part_number",
              "version_string">>)>>

Understood(r) == r.version \in {2, 3}

Pieces(r) ==
    CASE r.type = "FW_BINARY" -> BinaryPieces
      [] r.type = "FWIF" /\ Understood(r) /\ r.channel \in {"MESSAGE", "INPUT", "OUTPUT"} ->
            SignalPieces(r.msg)
      [] r.type = "FWIF" /\ Understood(r) /\ r.channel = "RPC" -> RpcPieces(r.msg)
      [] OTHER -> <<>>

\* The longest and the shortest a piece can be.  Digits of a word of 1, 2, 4 or 8
\* bytes with a sign, hexadecimal for 8; an array of bytes is a string.
Digits == [b \in {1, 2, 4, 8} |-> CASE b = 1 -> 3 [] b = 2 -> 6 [] b = 4 -> 11 [] b = 8 -> 16]
Widest(f)  == IF f.size = 1 /\ f.n > 1 THEN f.n - 1 ELSE f.n * Digits[f.size]
Narrow(f)  == IF f.size = 1 /\ f.n > 1 THEN 0 ELSE f.n
Sum(p, Width(_)) == SumOf([i \in DOMAIN p.names |-> Width(p.s[IndexOf(p.s, p.names[i])])])
LabelMax == 25
LabelMin == 2
Lengths(p) == {p.text + LabelMin * Len(p.labels) + Sum(p, Narrow),
               p.text + LabelMax * Len(p.labels) + Sum(p, Widest)}

-----------------------------------------------------------------------------
(* The characters of a description, and the line of a record. *)

\* The firmware writes what a call of printf says.
IsPrint(r) == r.type = "FWIF" /\ r.msg.code = "RPC"
              /\ r.msg.state = "PARAM" /\ r.msg.call = "DEBUG_PRINTF"

Printed(r) == <<"a", "\"">> \o RStrip(r.msg.text, {"\n"}) \o <<"\"">>

HasString(p) == \E i \in DOMAIN p.names :
                    LET f == p.s[IndexOf(p.s, p.names[i])] IN f.size = 1 /\ f.n > 1

\* What a piece may read: of strings of the firmware one character is told apart.
Contents(p, r) ==
    CASE IsPrint(r) /\ p.member = "debug_print" -> {Printed(r)}
      [] ~(IsPrint(r) /\ p.member = "debug_print") /\ HasString(p) ->
            {<<"a", c>> : c \in Chars}
      [] OTHER -> {<<"a">>}

\* What of it goes into a buffer; it is cut anywhere, inside an "a" too.
Fitting(chars, len, size) ==
    CASE len < size               -> {chars}
      [] len >= size /\ size > 1  ->
            {SubSeq(chars, 1, k) : k \in {1} \cup 1..(Len(chars) - 1)}
      [] OTHER                    -> {<<>>}

\* Slip: the character that escapes is not escaped.
EscapedQuotes(text) ==
    FlattenSeq([i \in DOMAIN text |->
                   IF text[i] \in {"'", "\""} THEN <<"\\", text[i]>> ELSE <<text[i]>>])

\* LogdJSON::writeJSON: special characters behind a backslash, any other as it is.
Escaped(text) ==
    FlattenSeq([i \in DOMAIN text |->
                   IF text[i] \in Special THEN <<"\\", text[i]>> ELSE <<text[i]>>])

Word == <<"\"", "a", "\"">>
WriteJSON(value) == <<",", "key", "\"">> \o Escaped(value) \o <<"\"">>

TextV2(channel, described) ==
    CASE channel \in {"MESSAGE", "INPUT", "OUTPUT"} -> <<"a">> \o described
      [] channel = "RPC" -> <<"a">> \o described
      [] OTHER -> <<>>

TextFwif(r, described) ==
    <<"a">> \o IF Understood(r) THEN TextV2(r.channel, described) \o <<"\n">> ELSE <<>>

TextLine(r, described) ==
    <<"a">> \o CASE r.type = "TEXT"      -> r.text \o <<"\n">>
                 [] r.type = "FWIF"      -> TextFwif(r, described)
                 [] r.type = "FW_BINARY" -> <<"a">> \o described \o <<"\n">>

JsonV2(channel, described) ==
    CASE channel \in {"MESSAGE", "INPUT", "OUTPUT"} ->
            WriteJSON(<<"a">>) \o (IF described # <<>> THEN WriteJSON(described) ELSE <<>>)
      [] channel = "RPC" -> WriteJSON(described)
      [] OTHER -> <<>>

\* Slip: a channel that is not known ends the object too early.
JsonFwifShort(r, described) ==
    <<",", "key", "{", "key">> \o Word \o WriteJSON(<<"a">>) \o WriteJSON(<<"a">>)
    \o IF Understood(r) /\ r.channel # "other" THEN JsonV2(r.channel, described) \o <<"}">>
                                               ELSE <<>>

JsonFwif(r, described) ==
    <<",", "key", "{", "key">> \o Word \o WriteJSON(<<"a">>) \o WriteJSON(<<"a">>)
    \o IF Understood(r) THEN JsonV2(r.channel, described) \o <<"}">> ELSE <<>>

JsonLine(r, described) ==
    <<"{", "key">> \o Word
    \o (CASE r.type = "TEXT"      -> WriteJSON(r.text)
          [] r.type = "FWIF"      -> JsonFwif(r, described)
          [] r.type = "FW_BINARY" -> <<"key", "{", "key">> \o Word \o WriteJSON(described)
                                     \o <<"}">>)
    \o <<"}", "\n">>

-----------------------------------------------------------------------------
(* Actions. *)

Init ==
    /\ fmt \in {"text", "json"}
    /\ stage = "idle" /\ rec = [type |-> "none"]
    /\ todo = <<>> /\ n = 0 /\ total = 0 /\ data = <<>> /\ out = <<>>

Unpack(r) ==
    /\ stage = "idle"
    /\ stage' = "describe" /\ rec' = r /\ todo' = Pieces(r)
    /\ UNCHANGED <<fmt, n, total, data, out>>

\* Slip: what vsnprintf returns is taken as it is.
Wanted(len, size) == len

\* Logd::vscnprintf: the characters that went into the buffer.
Scn(len, size) == IF len < size - 1 THEN len ELSE size - 1

\* Logd::getRpcData ends the text where the message says.
Past == IsPrint(rec) /\ rec.msg.past /\ Head(todo).member = "debug_print"

PrintPiece(len, chars) ==
    /\ stage = "describe" /\ todo # <<>> /\ ~Past
    /\ todo' = Tail(todo)
    /\ n' = n + Scn(len, DataSize - n)
    /\ total' = total + len
    /\ \E s \in Fitting(chars, len, DataSize - n) : data' = data \o s
    /\ UNCHANGED <<fmt, stage, rec, out>>

\* Past the message a byte of something else is set to zero.
WritePast ==
    /\ stage = "describe" /\ todo # <<>> /\ Past
    /\ stage' = "undefined"
    /\ UNCHANGED <<fmt, rec, todo, n, total, data, out>>

WriteLine ==
    /\ stage = "describe" /\ todo = <<>>
    /\ stage' = "written"
    /\ out' = IF fmt = "text" THEN TextLine(rec, data) ELSE JsonLine(rec, data)
    /\ UNCHANGED <<fmt, rec, todo, n, total, data>>

\* Back in Logd::run.
Return ==
    /\ stage = "written"
    /\ stage' = "idle" /\ rec' = [type |-> "none"]
    /\ n' = 0 /\ total' = 0 /\ data' = <<>> /\ out' = <<>>
    /\ UNCHANGED <<fmt, todo>>

Terminated == stage = "undefined" /\ UNCHANGED vars

Next ==
    \/ \E r \in Records : Unpack(r)
    \/ /\ todo # <<>>
       /\ \E len \in Lengths(Head(todo)), chars \in Contents(Head(todo), rec) :
              PrintPiece(len, chars)
    \/ WritePast
    \/ WriteLine
    \/ Return
    \/ Terminated

Spec == Init /\ [][Next]_vars

-----------------------------------------------------------------------------
(* Properties. *)

\* The buffer holds the description, cut to what fits with its terminating zero,
\* however many pieces there are: the offset of a piece stays in the buffer.
DataExact == n = IF total < DataSize THEN total ELSE DataSize - 1

\* A description is cut only if it is a list of regions or holds a text of the
\* firmware; every other message fits, whatever its values.
CutOnlyLists ==
    total >= DataSize =>
        /\ rec.type = "FWIF"
        /\ \/ rec.msg.code = "PARAM" /\ rec.msg.tag = "REGIONS" /\ rec.msg.count > 4
           \/ rec.msg.code = "RPC" /\ "long" \in Range(rec.msg.text)

\* A JSON object, read by the grammar of JSON: where the reader is after each
\* token, how deep, and the string it read last.  A string holds no raw newline, and
\* behind a backslash stands a quote or a backslash, never an apostrophe.
Reads(place, token) ==
    LET kind == place[1]  depth == place[2]  string == place[3] IN
    CASE kind = "string" /\ token = "\""    -> <<"pair", depth, string>>
      [] kind = "string" /\ token = "\\"    -> <<"escape", depth, string>>
      [] kind = "string" /\ token \in {"a", "'", "long"} ->
            <<"string", depth, Append(string, token)>>
      [] kind = "escape" /\ token \in {"\"", "\\"} ->
            <<"string", depth, Append(string, token)>>
      [] kind \in {"start", "value"} /\ token = "{" -> <<"first", depth + 1, string>>
      [] kind \in {"first", "comma"} /\ token = "key" -> <<"value", depth, string>>
      [] kind = "value" /\ token = "\"" -> <<"string", depth, <<>>>>
      [] kind = "pair" /\ token = ","   -> <<"comma", depth, string>>
      [] kind \in {"first", "pair"} /\ depth > 0 /\ token = "}" ->
            <<"pair", depth - 1, string>>
      [] kind = "pair" /\ depth = 0 /\ token = "\n" -> <<"end", 0, string>>
      [] OTHER -> <<"error", 0, <<>>>>
ReadOn(place, line) ==
    LET Place[i \in 0..Len(line)] == IF i = 0 THEN place ELSE Reads(Place[i - 1], line[i])
    IN  Place[Len(line)]
Reading(line)  == ReadOn(<<"start", 0, <<>>>>, line)
IsObject(line) == Reading(line)[1] = "end"

IsLine(line) == Last(line) = "\n" /\ "\n" \notin Range(Front(line))

\* The characters of the driver or the firmware in the record.
Shown == IF rec.type = "TEXT" THEN rec.text ELSE data

\* What is written for a record is one line, and in JSON one object on a line, but
\* for exactly these: a record of an unknown version of the interface is left open,
\* the object of a firmware binary lacks a comma, a newline in a text is written as
\* it is, and an apostrophe behind a backslash.
OneRecordEach ==
    stage = "written" =>
        LET open == rec.type = "FWIF" /\ ~Understood(rec) IN
        IF fmt = "text"
        THEN IsLine(out) <=> ~open /\ "\n" \notin Range(Shown)
        ELSE IsObject(out) <=> /\ ~open /\ rec.type # "FW_BINARY"
                               /\ {"\n", "'"} \cap Range(Shown) = {}

\* The JSON line has the name of a signal and not its code: with the direction of
\* the record, the name still tells which message it was, but for the four that are
\* all named UNKNOWN.
OneWay(c, d) == \E S \in {Requests, Responses} : {c, d} \subseteq S \cup Buffers \cup OtherCodes
Unnamed == OtherCodes \cup {"RELEASE_REF_FRAME", "REF_FRAME_UNUSED"}
SignalTold ==
    stage = "written" /\ rec.type = "FWIF" /\ rec.msg.code # "RPC" =>
        \A m \in Logged :
            OneWay(m.code, rec.msg.code) /\ m.code # rec.msg.code =>
                (SignalName(m.code) = SignalName(rec.msg.code)
                    <=> {m.code, rec.msg.code} \subseteq Unnamed)

\* When the line is an object, its reader has the text of the driver, or the
\* description, as it was before it was escaped.  The description of a print holds its
\* text, without the newlines at its end, or if the buffer is full a part of its start.
StringIntact ==
    stage = "written" =>
        /\ fmt = "json" /\ IsObject(out) /\ Shown # <<>> => Reading(out)[3] = Shown
        /\ rec.type = "FWIF" /\ rec.channel = "RPC" /\ Understood(rec) /\ IsPrint(rec) =>
            \E k \in 0..Len(rec.msg.text) :
                LET text  == rec.msg.text
                    whole == <<"a", "a", "\"">> \o SubSeq(text, 1, k) \o <<"\"">>
                IN  /\ k > 0 => text[k] # "\n"
                    /\ \A i \in (k + 1)..Len(text) : text[i] = "\n"
                    /\ IF total < DataSize THEN data = whole ELSE IsStrictPrefix(data, whole)

\* Every member that is printed is one the message carries: it is of the member of
\* the union that goes with the tag, and inside the bytes that were sent.  Only the
\* statistics of an encoder are printed as the blocks of another buffer type, and a
\* list that claims more regions than there is room for is read beyond its end.
MemberOf(m) == IF m.code \in DOMAIN Tags THEN Member(m.code, m.tag) ELSE "none"
BytesSent(m) ==
    SizeOf(HeadOf(m.code)) + IF MemberOf(m) = "none" THEN 0 ELSE SizeOf(Data[m.code][MemberOf(m)])
Sent(p, m) ==
    /\ p.member \in {"none", MemberOf(m)}
    /\ \A i \in DOMAIN p.names :
           LET f == p.s[IndexOf(p.s, p.names[i])]
           IN  p.at + OffsetOf(p.s, f.name) + f.size * f.n <= BytesSent(m)
PrintsWhatWasSent ==
    stage = "describe" /\ rec.type = "FWIF" /\ rec.msg.code # "RPC" /\ n = 0 =>
        LET pieces == Pieces(rec) IN
        (\A i \in DOMAIN pieces : Sent(pieces[i], rec.msg))
            <=> pieces = <<>> \/ ~(\/ rec.msg.code = "GENERAL" /\ rec.msg.tag = "ENCODER_STATS"
                                 \/ rec.msg.count > MaxRegions)
=============================================================================
