----------------------------- MODULE FwProtocol -----------------------------
(***************************************************************************)
(* The messages of the firmware interface (include/fw_v2/                  *)
(* mve_protocol_def.h): their C structures, and which member of a union a  *)
(* message carries.  Codes and tags are named as the header names them,    *)
(* without the common prefix.                                              *)
(*                                                                         *)
(* A structure is a sequence of members, each with the size and alignment  *)
(* of an element and the number of elements; a nested structure is a       *)
(* member too.  Layout is that of C.                                       *)
(***************************************************************************)
EXTENDS Naturals, Sequences, FiniteSets

RoundUp(n, a) == ((n + a - 1) \div a) * a

Fields(size, names) ==
    [i \in DOMAIN names |-> [name |-> names[i], size |-> size, align |-> size, n |-> 1]]
U8(names)  == Fields(1, names)
U16(names) == Fields(2, names)
U32(names) == Fields(4, names)
U64(names) == Fields(8, names)
Array(name, size, align, n) == <<[name |-> name, size |-> size, align |-> align, n |-> n]>>

EndOf(s) ==     \* where the first i members end
    LET End[i \in 0..Len(s)] ==
            IF i = 0 THEN 0 ELSE RoundUp(End[i - 1], s[i].align) + s[i].size * s[i].n
    IN  End

AlignOf(s)  == CHOOSE a \in {1, 2, 4, 8} :
                   /\ \E i \in DOMAIN s : s[i].align = a
                   /\ \A i \in DOMAIN s : s[i].align <= a
SizeOf(s)   == RoundUp(EndOf(s)[Len(s)], AlignOf(s))
IndexOf(s, name)  == CHOOSE i \in DOMAIN s : s[i].name = name
OffsetOf(s, name) == LET i == IndexOf(s, name) IN RoundUp(EndOf(s)[i - 1], s[i].align)

ErrorMessageSize == 128

-----------------------------------------------------------------------------
(* Messages with a structure of their own. *)

\* The codes by who sends them; buffers go both ways.  DUMP and DEBUG are two codes each.
Requests  == {"GO", "STOP", "INPUT_FLUSH", "OUTPUT_FLUSH", "SWITCH", "PING", "DUMP_REQUEST",
              "JOB", "SET_OPTION", "RELEASE_REF_FRAME", "IDLE_ACK", "DEBUG_REQUEST"}
Buffers   == {"FRAME", "BITSTREAM", "PARAM", "GENERAL"}
Responses == {"SWITCHED_IN", "SWITCHED_OUT", "SET_OPTION_CONFIRM", "JOB_DEQUEUED", "INPUT",
              "OUTPUT", "INPUT_FLUSHED", "OUTPUT_FLUSHED", "PONG", "ERROR", "STATE_CHANGE",
              "DUMP", "IDLE", "FRAME_ALLOC_PARAM", "SEQUENCE_PARAMETERS", "EVENT",
              "SET_OPTION_FAIL", "REF_FRAME_UNUSED", "DEBUG"}

Job              == U16(<<"cores", "frames">>) \o U32(<<"flags">>)
ReleaseRefFrame  == U32(<<"buffer_address">>)
SwitchedIn       == U32(<<"core">>)
SwitchedOut      == U32(<<"core", "reason", "sub_reason">>)
StateChange      == U32(<<"new_state">>)
JobDequeued      == U32(<<"valid_job">>)
Error            == U32(<<"error_code">>) \o Array("message", 1, 1, ErrorMessageSize)
SetOptionConfirm == U32(<<"index">>)
SetOptionFail    == U32(<<"index">>) \o Array("message", 1, 1, ErrorMessageSize)
FrameAllocParam  ==
    U16(<<"planar_alloc_frame_width", "planar_alloc_frame_height">>)
    \o U32(<<"afbc_alloc_bytes", "afbc_alloc_bytes_downscaled">>)
    \o U16(<<"afbc_width_in_superblocks", "afbc_width_in_superblocks_downscaled",
             "cropx", "cropy">>)
    \o U32(<<"mbinfo_alloc_bytes">>)
    \o U16(<<"dsl_frame_width", "dsl_frame_height", "dsl_pos_mode">>) \o U8(<<"ctu_size">>)
SequenceParameters ==
    U8(<<"interlace", "chroma_format", "bitdepth_luma", "bitdepth_chroma",
         "num_buffers_planar", "num_buffers_afbc", "range_mapping_enabled", "reserved0">>)
RefFrameUnused   == U32(<<"unused_buffer_address">>)
Bitstream ==
    U64(<<"host_handle", "user_data_tag">>)
    \o U32(<<"bitstream_flags", "bitstream_alloc_bytes", "bitstream_offset",
             "bitstream_filled_len", "bitstream_buf_addr">>)
    \o U8(<<"frame_type">>) \o Array("reserved", 1, 1, 3)

Structs == [JOB |-> Job, RELEASE_REF_FRAME |-> ReleaseRefFrame, SWITCHED_IN |-> SwitchedIn,
            SWITCHED_OUT |-> SwitchedOut, STATE_CHANGE |-> StateChange,
            JOB_DEQUEUED |-> JobDequeued, ERROR |-> Error,
            SET_OPTION_CONFIRM |-> SetOptionConfirm, SET_OPTION_FAIL |-> SetOptionFail,
            FRAME_ALLOC_PARAM |-> FrameAllocParam,
            SEQUENCE_PARAMETERS |-> SequenceParameters,
            REF_FRAME_UNUSED |-> RefFrameUnused, BITSTREAM |-> Bitstream]

-----------------------------------------------------------------------------
(* Messages with a tag and a union. *)

OptionData ==
    [arg                        |-> U32(<<"arg">>),
     profile_level              |-> U16(<<"profile", "level">>),
     motion_vector_search_range |-> U32(<<"mv_search_range_x", "mv_search_range_y">>),
     huffman_table              |-> U32(<<"type">>) \o Array("number_of_huffman", 1, 1, 16)
                                                    \o Array("table", 1, 1, 162),
     quant_table                |-> U32(<<"type">>) \o Array("matrix", 1, 1, 64),
     tiles                      |-> U16(<<"tile_rows", "tile_cols">>),
     bitdepth                   |-> U16(<<"luma_bitdepth", "chroma_bitdepth">>),
     lambda_scale               |-> Array("lambda_scale", 2, 2, 8),
     downscaled_frame           |-> U16(<<"width", "height">>),
     dsl_pos                    |-> U32(<<"mode">>)]

\* Options with a structure, by the comment at their index; the others take arg.
StructOption ==
    [PROFILE_LEVEL |-> "profile_level", TILES |-> "tiles",
     HUFFMAN_TABLE |-> "huffman_table", QUANT_TABLE |-> "quant_table",
     MV_SEARCH_RANGE |-> "motion_vector_search_range",
     ENC_STREAM_BITDEPTH |-> "bitdepth", LAMBDA_SCALE |-> "lambda_scale",
     DEC_DOWNSCALE |-> "downscaled_frame", DEC_DOWNSCALE_POS_MODE |-> "dsl_pos"]

Options == DOMAIN StructOption \cup
    {"NALU_FORMAT", "STREAM_ESCAPING", "HOST_PROTOCOL_PRINTS", "PROFILING",
     "DISABLE_FEATURES", "IGNORE_STREAM_HEADERS", "FRAME_REORDERING", "INTBUF_SIZE",
     "ENC_P_FRAMES", "ENC_B_FRAMES", "GOP_TYPE", "INTRA_MB_REFRESH", "ENC_CONSTR_IPRED",
     "ENC_ENTROPY_SYNC", "ENC_TEMPORAL_MVP", "ENC_MIN_LUMA_CB_SIZE", "ENC_MB_TYPE_ENABLE",
     "ENC_MB_TYPE_DISABLE", "ENC_H264_CABAC", "ENC_SLICE_SPACING", "ENC_VP9_PROB_UPDATE",
     "RESYNC_INTERVAL", "ENC_EXPOSE_REF_FRAMES", "MBINFO_OUTPUT",
     "ENC_STREAM_CHROMA_FORMAT", "ENC_RGB_TO_YUV_MODE", "ENC_BANDWIDTH_LIMIT",
     "WATCHDOG_TIMEOUT", "ENC_CABAC_INIT_IDC", "ENC_ADPTIVE_QUANTISATION",
     "QP_DELTA_I_P", "QP_DELTA_I_B_REF", "QP_DELTA_I_B_NONREF", "CB_QP_OFFSET",
     "CR_QP_OFFSET", "ENC_MAX_NUM_CORES", "ENC_EXTRA_REFS", "QP_DELTA_RAW_I_P",
     "QP_DELTA_RAW_I_B_REF", "QP_DELTA_RAW_I_B_NONREF", "ENC_FIXED_QP",
     "FLUSHLESS_REFBANK", "ENC_CROP_RARAM_LEFT", "ENC_CROP_RARAM_RIGHT",
     "ENC_CROP_RARAM_TOP", "ENC_CROP_RARAM_BOTTOM", "ENC_LTR_MODE", "ENC_LTR_PERIOD"}

OptionMember(o) == IF o \in DOMAIN StructOption THEN StructOption[o] ELSE "arg"

EventProcessed ==
    U8(<<"pic_format", "qp", "pad0", "pad1">>)
    \o U32(<<"parse_start_time", "parse_end_time", "parse_idle_time", "pipe_start_time",
             "pipe_end_time", "pipe_idle_time", "parser_coreid", "pipe_coreid",
             "bitstream_bits", "intermediate_buffer_size", "total_memory_allocated",
             "bus_read_bytes", "bus_write_bytes", "afbc_bytes", "slice0_end_time",
             "stream_start_time", "stream_open_time">>)
EventRefFrame ==
    U32(<<"ref_addr", "ref_width", "ref_height", "ref_mb_width", "ref_mb_height",
          "ref_left_crop", "ref_top_crop", "ref_frame_size", "ref_display_order">>)
    \o U16(<<"bit_width", "tiled_headers">>) \o U64(<<"user_data_tag">>)
EventTraceBuffers ==
    U16(<<"reserved">>) \o U8(<<"num_cores", "rasc_mask">>) \o Array("buffers", 8, 4, 40)
EventData == [event_processed |-> EventProcessed, event_ref_frame |-> EventRefFrame,
              event_trace_buffers |-> EventTraceBuffers,
              message |-> Array("message", 1, 1, ErrorMessageSize)]
EventMember == [STREAM_CORRUPT |-> "message", STREAM_NOT_SUPPORTED |-> "message",
                PROCESSED |-> "event_processed", REF_FRAME |-> "event_ref_frame",
                TRACE_BUFFERS |-> "event_trace_buffers"]

FramePlanar ==
    Array("plane_top", 4, 4, 3) \o Array("plane_bot", 4, 4, 3) \o Array("stride", 4, 4, 3)
    \o U16(<<"max_frame_width", "max_frame_height">>)
FrameAfbc ==
    Array("plane", 4, 4, 2) \o Array("alloc_bytes", 4, 4, 2) \o U16(<<"cropx", "cropy">>)
    \o Array("afbc_width_in_superblocks", 2, 2, 2) \o U32(<<"afbc_params">>)
FrameData == [planar |-> FramePlanar, afbc |-> FrameAfbc]
FrameHead ==
    U64(<<"host_handle", "user_data_tag">>) \o U32(<<"frame_flags">>)
    \o U16(<<"visible_frame_height", "visible_frame_width", "format", "reserved0">>)

\* A format is a word of bit fields: chroma, depth minus 8, planes, variant, AFBC.
Format(c, depth, planes, v, afbc) ==
    c + 2^4 * (depth - 8) + 2^8 * planes + 2^12 * v + 2^15 * afbc
AfbcFormats ==
    [YUV420_AFBC_8  |-> Format(1, 8, 0, 0, 1), YUV420_AFBC_10 |-> Format(1, 10, 0, 0, 1),
     YUV422_AFBC_8  |-> Format(2, 8, 0, 0, 1), YUV422_AFBC_10 |-> Format(2, 10, 0, 0, 1)]
PlanarFormats ==
    [YUV420_I420 |-> Format(1, 8, 3, 0, 0),  YUV420_NV12 |-> Format(1, 8, 2, 0, 0),
     YUV420_NV21 |-> Format(1, 8, 2, 1, 0),  YUV420_P010 |-> Format(1, 16, 2, 0, 0),
     YUV420_Y0L2 |-> Format(1, 10, 1, 0, 0), YUV420_AQB1 |-> Format(1, 10, 1, 1, 0),
     YUV422_YUY2 |-> Format(2, 8, 1, 0, 0),  YUV422_UYVY |-> Format(2, 8, 1, 1, 0),
     YUV422_Y210 |-> Format(2, 16, 1, 0, 0), RGBA_8888 |-> Format(4, 8, 1, 0, 0),
     BGRA_8888 |-> Format(4, 8, 1, 1, 0),    ARGB_8888 |-> Format(4, 8, 1, 2, 0),
     ABGR_8888 |-> Format(4, 8, 1, 3, 0),    MBINFO |-> 1, UNUSED |-> 0]
FormatValue(f) == IF f \in DOMAIN AfbcFormats THEN AfbcFormats[f] ELSE PlanarFormats[f]
FrameMember(f) == IF f \in DOMAIN AfbcFormats THEN "afbc" ELSE "planar"

ParamRegion ==
    U16(<<"mbx_left", "mbx_right", "mby_top", "mby_bottom", "qp_delta", "reserved">>)
MaxRegions == 16
ParamRegions ==
    U8(<<"n_regions">>) \o Array("reserved", 1, 1, 3)
    \o Array("region", SizeOf(ParamRegion), 2, MaxRegions)
ColourDescription ==
    U32(<<"flags">>)
    \o U8(<<"range", "colour_primaries", "transfer_characteristics", "matrix_coeff">>)
    \o Array("primaries_x", 2, 2, 3) \o Array("primaries_y", 2, 2, 3)
    \o U16(<<"white_point_x", "white_point_y">>)
    \o U32(<<"max_display_luminance", "min_display_luminance",
             "max_content_light_level", "avg_content_light_level">>)
    \o U8(<<"video_format_present_flag", "video_format", "aspect_ratio_info_present_flag",
            "aspect_ratio_idc", "timing_flag_info_present_flag">>)
    \o U16(<<"sar_width", "sar_height">>) \o U32(<<"num_units_in_tick", "time_scale">>)
UserDataUnregistered ==
    U8(<<"flags">>) \o Array("uuid", 1, 1, 16) \o Array("user_data", 1, 1, 256 - 35)
    \o U8(<<"user_data_len">>) \o Array("reserved", 1, 1, 5)
FramePacking ==
    U32(<<"flags">>)
    \o U8(<<"frame_packing_arrangement_type", "content_interpretation_type",
            "frame0_grid_position_x", "frame0_grid_position_y",
            "frame1_grid_position_x", "frame1_grid_position_y">>)
    \o Array("reserved", 1, 1, 2)
ChangeRectangles ==
    U8(<<"n_rectangles">>) \o Array("reserved", 1, 1, 3) \o Array("rectangles", 8, 2, 2)

ParamQp     == U32(<<"qp">>)
DisplaySize == U16(<<"display_width", "display_height">>)
Vp9Segmap   == Array("qp_delta", 1, 1, 8) \o U8(<<"num_segments">>)

ParamData ==
    [arg                   |-> U32(<<"arg">>),
     qp                    |-> ParamQp,
     regions               |-> ParamRegions,
     display_size          |-> DisplaySize,
     range_map             |-> U8(<<"luma_map_enabled", "luma_map_value",
                                    "chroma_map_enabled", "chroma_map_value">>),
     rate_control          |-> U32(<<"rate_control_mode", "target_bitrate",
                                     "maximum_bitrate">>),
     rate_control_qp_range |-> U32(<<"qp_min", "qp_max">>),
     colour_description    |-> ColourDescription,
     frame_packing         |-> FramePacking,
     frame_field_info      |-> U8(<<"pic_struct", "source_scan_type", "duplicate_flag",
                                    "reserved">>),
     change_rectangles     |-> ChangeRectangles,
     vp9_segmap            |-> Vp9Segmap,
     user_data_unregistered |-> UserDataUnregistered]

ParamMember ==
    [QP |-> "qp", REGIONS |-> "regions", DISPLAY_SIZE |-> "display_size",
     RANGE_MAP |-> "range_map", FRAME_RATE |-> "arg", RATE_CONTROL |-> "rate_control",
     QP_I |-> "qp", QP_P |-> "qp", QP_B |-> "qp",
     COLOUR_DESCRIPTION |-> "colour_description", FRAME_PACKING |-> "frame_packing",
     FRAME_FIELD_INFO |-> "frame_field_info", GOP_RESET |-> "none",
     DPB_HELD_FRAMES |-> "arg", CHANGE_RECTANGLES |-> "change_rectangles",
     RATE_CONTROL_QP_RANGE |-> "rate_control_qp_range",
     RATE_CONTROL_HRD_BUF_SIZE |-> "arg", VP9_SEGMAP |-> "vp9_segmap",
     RATE_CONTROL_QP_RANGE_I |-> "rate_control_qp_range",
     SEI_USER_DATA_UNREGISTERED |-> "user_data_unregistered"]

GeneralHead ==
    U64(<<"host_handle", "user_data_tag">>) \o U32(<<"buffer_ptr", "buffer_size">>)
    \o U16(<<"type", "config_size">>) \o U32(<<"reserved">>)
BlockConfigs ==     \* the union holds rows_uncomp alone
    U8(<<"blk_cfg_type">>) \o Array("reserved", 1, 1, 3)
    \o U8(<<"n_cols_minus1", "n_rows_minus1">>) \o Array("reserved1", 1, 1, 2)
EncoderStats ==
    U8(<<"encoder_stats_type", "frame_type", "used_as_reference", "qp">>)
    \o U32(<<"picture_count">>) \o U16(<<"num_cols", "num_rows">>)
    \o Array("ref_pic_count", 4, 4, 2)
GeneralData   == [block_configs |-> BlockConfigs, encoder_stats |-> EncoderStats]
GeneralMember == [BLOCK_CONFIGS |-> "block_configs", ENCODER_STATS |-> "encoder_stats"]

-----------------------------------------------------------------------------
(* The area of the remote procedure calls: a head and the parameters of a call. *)

RpcWords == 256
RpcHead  == U32(<<"state", "call_id", "size">>)
RpcData ==
    [data        |-> Array("data", 4, 4, RpcWords - 3),
     debug_print |-> Array("string", 1, 1, 4 * (RpcWords - 3)),
     mem_alloc   |-> U32(<<"size", "max_size">>) \o U8(<<"region", "log2_alignment">>),
     mem_resize  |-> U32(<<"ve_pointer", "new_size">>),
     mem_free    |-> U32(<<"ve_pointer">>)]
RpcStates == {"FREE", "PARAM", "RETURN"}
RpcMember == [DEBUG_PRINTF |-> "debug_print", MEM_ALLOC |-> "mem_alloc",
              MEM_RESIZE |-> "mem_resize", MEM_FREE |-> "mem_free"]

-----------------------------------------------------------------------------
(* What a message is laid out as: its head, and the member its tag names. *)

Tags == [SET_OPTION |-> Options, EVENT |-> DOMAIN EventMember,
         FRAME |-> DOMAIN AfbcFormats \cup DOMAIN PlanarFormats,
         PARAM |-> DOMAIN ParamMember, GENERAL |-> DOMAIN GeneralMember]

HeadOf(code) == CASE code = "SET_OPTION" -> U32(<<"index">>)
                [] code = "EVENT"      -> U32(<<"event_code">>)
                [] code = "PARAM"      -> U32(<<"type">>)
                [] code = "FRAME"      -> FrameHead
                [] code = "GENERAL"    -> GeneralHead
                [] code \in DOMAIN Structs -> Structs[code]
                [] OTHER               -> <<>>

Data == [SET_OPTION |-> OptionData, EVENT |-> EventData, PARAM |-> ParamData,
         FRAME |-> FrameData, GENERAL |-> GeneralData]

Member(code, tag) == CASE code = "SET_OPTION" -> OptionMember(tag)
                       [] code = "EVENT"      -> EventMember[tag]
                       [] code = "PARAM"      -> ParamMember[tag]
                       [] code = "FRAME"      -> FrameMember(tag)
                       [] code = "GENERAL"    -> GeneralMember[tag]

Messages ==
    {[code |-> c, tag |-> "none"] :
        c \in (Requests \cup Responses \cup Buffers) \ DOMAIN Tags}
    \cup UNION {[code : {c}, tag : Tags[c]] : c \in DOMAIN Tags}
=============================================================================
