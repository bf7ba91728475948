---------------------------- MODULE EncSettings ----------------------------
(***************************************************************************)
(* How the options of mvx_encoder_gen reach the encoder's controls.  main  *)
(* calls one setter of class Encoder per option, in a fixed order; with    *)
(* option -x the setters of the frame rate, the bit rate and the QP        *)
(* options keep a value back, and Codec::runPoll sends it when the first   *)
(* coded buffer is ready.  In blocking mode (-z) Codec::runThreads runs    *)
(* instead.                                                                *)
(*                                                                         *)
(* Only the options that interact are modelled; the other setters send one *)
(* control each and share no state, and the pacing of the input that       *)
(* setFramerate also sets is left out.  main looks at whether an option is *)
(* given, runPoll at whether the value kept back is 0: an option given as  *)
(* 0 is not the same as one not given.                                     *)
(***************************************************************************)
EXTENDS Naturals

CONSTANTS
    FpsValues, BpsValues, MinQpValues, MaxQpValues, FixedQpValues,
                    \* the values an option may be given
    NotGiven,       \* instead of a value: mvx_argp_is_set is false
    Fraction,       \* fraction bits of the fixed point frame rate (16)
    Word,           \* bits of uint32_t (32)
    BpsStep,        \* what setBitrate takes off (500)
    FwMinQp, FwMaxQp    \* external: the firmware's QP range at reset

ASSUME ValueAssumption ==
    /\ FpsValues \cup BpsValues \cup MinQpValues \cup MaxQpValues \cup FixedQpValues
         \subseteq Nat
    /\ NotGiven \notin Nat
    /\ Fraction \in Nat \ {0} /\ Word = 2 * Fraction
    /\ \A f \in FpsValues : f < 2^Fraction
    /\ \A v \in BpsValues \cup FixedQpValues \cup {BpsStep} : v + 2 < 2^Word
    /\ BpsStep \in Nat
    /\ FwMinQp \in Nat /\ FwMaxQp \in Nat /\ FwMinQp <= FwMaxQp

VARIABLES
    opt,        \* the command line
    step,       \* next statement of main, then the state of the session
    csweo, fps, bps, minqp, maxqp, fixedqp,     \* members of Codec
    rcType,     \* output.rc_type, never assigned
    rate, bitRate, fwMin, fwMax, qp, rcEnable   \* the encoder's controls

held == <<csweo, fps, bps, minqp, maxqp, fixedqp>>
controls == <<rate, bitRate, fwMin, fwMax, qp, rcEnable>>
vars == <<opt, step, held, rcType, controls>>

Option(values) == values \cup {NotGiven}
Options == [exec : BOOLEAN, block : BOOLEAN, fps : Option(FpsValues),
            bps : Option(BpsValues), minqp : Option(MinQpValues),
            maxqp : Option(MaxQpValues), fixedqp : Option(FixedQpValues)]

ShiftLeft(x) == (x * 2^Fraction) % 2^Word

\* Codec, Encoder and Port constructors; rc_type has whatever the memory held.
Init ==
    /\ opt \in Options
    /\ step = "exec"
    /\ csweo = FALSE /\ fps = 0 /\ bps = 0 /\ minqp = 0 /\ maxqp = 0 /\ fixedqp = 0
    /\ rcType \in {0, 1}
    /\ rate = ShiftLeft(30) /\ bitRate = 0 /\ fwMin = FwMinQp /\ fwMax = FwMaxQp /\ qp = 0
    /\ rcEnable = FALSE

-----------------------------------------------------------------------------
(* The firmware's view of a QP range (external). *)

FwAcceptsMax(v) == fwMin <= v
FwAcceptsMin(v) == v <= fwMax

\* Port::setEncBitrate sends nothing for 0 when rate control is off.
BitRateAfter(v) == IF v = 0 /\ rcType = 0 THEN bitRate ELSE v

\* The statements of main that call the setters, one action each.
At(here, there) == step = here /\ step' = there

ChangeSWEO ==
    /\ At("exec", "maxqp")
    /\ csweo' = opt.exec
    /\ UNCHANGED <<opt, fps, bps, minqp, maxqp, fixedqp, rcType, controls>>

SetH264MaxQP ==
    \/ /\ At("maxqp", "minqp") /\ opt.maxqp = NotGiven
       /\ UNCHANGED <<opt, held, rcType, controls>>
    \/ /\ At("maxqp", "minqp") /\ opt.maxqp # NotGiven /\ csweo
       /\ maxqp' = opt.maxqp
       /\ UNCHANGED <<opt, csweo, fps, bps, minqp, fixedqp, rcType, controls>>
    \/ /\ At("maxqp", "minqp") /\ opt.maxqp # NotGiven /\ ~csweo
       /\ FwAcceptsMax(opt.maxqp)
       /\ fwMax' = opt.maxqp /\ rcEnable' = TRUE
       /\ UNCHANGED <<opt, held, rcType, rate, bitRate, fwMin, qp>>

SetH264MinQP ==
    \/ /\ At("minqp", "fixedqp") /\ opt.minqp = NotGiven
       /\ UNCHANGED <<opt, held, rcType, controls>>
    \/ /\ At("minqp", "fixedqp") /\ opt.minqp # NotGiven /\ csweo
       /\ minqp' = opt.minqp
       /\ UNCHANGED <<opt, csweo, fps, bps, maxqp, fixedqp, rcType, controls>>
    \/ /\ At("minqp", "fixedqp") /\ opt.minqp # NotGiven /\ ~csweo
       /\ FwAcceptsMin(opt.minqp)
       /\ fwMin' = opt.minqp
       /\ UNCHANGED <<opt, held, rcType, rate, bitRate, fwMax, qp, rcEnable>>

\* Sent at once in both cases; -x keeps a second value for later.
SetH264FixedQP ==
    /\ At("fixedqp", "fps")
    /\ IF opt.fixedqp # NotGiven THEN qp' = opt.fixedqp /\ rcEnable' = FALSE
                          ELSE UNCHANGED <<qp, rcEnable>>
    /\ fixedqp' = IF opt.fixedqp # NotGiven /\ csweo THEN opt.fixedqp + 2 ELSE fixedqp
    /\ UNCHANGED <<opt, csweo, fps, bps, minqp, maxqp, rcType, rate, bitRate,
                   fwMin, fwMax>>

\* main shifts the option to fixed point, and setFramerate does it again.
SetFramerate ==
    LET v == ShiftLeft(ShiftLeft(opt.fps)) IN
    /\ At("fps", "bps")
    /\ rate' = IF opt.fps # NotGiven /\ ~csweo THEN v ELSE rate
    /\ fps'  = IF opt.fps # NotGiven /\ csweo  THEN v ELSE fps
    /\ UNCHANGED <<opt, csweo, bps, minqp, maxqp, fixedqp, rcType, bitRate,
                   fwMin, fwMax, qp, rcEnable>>

\* What is kept back wraps below BpsStep and is nothing at BpsStep.
SetBitrate ==
    /\ At("bps", "run")
    /\ bitRate' = IF opt.bps # NotGiven THEN BitRateAfter(opt.bps) ELSE bitRate
    /\ bps' = IF opt.bps # NotGiven /\ csweo
              THEN (opt.bps + 2^Word - BpsStep) % 2^Word ELSE bps
    /\ UNCHANGED <<opt, csweo, fps, minqp, maxqp, fixedqp, rcType, rate,
                   fwMin, fwMax, qp, rcEnable>>

\* Codec::stream chooses between runPoll and runThreads.
Run == At("run", "encoding") /\ UNCHANGED <<opt, held, rcType, controls>>

\* Slip: the minimum is sent first.
MinimumFirst ==
    /\ minqp # 0 => FwAcceptsMin(minqp)
    /\ maxqp # 0 => maxqp >= (IF minqp # 0 THEN minqp ELSE fwMin)

\* The order in which runPoll sends the two limits.
LimitsAccepted ==
    LET max == IF maxqp # 0 THEN maxqp ELSE fwMax IN
    /\ maxqp # 0 => FwAcceptsMax(maxqp)
    /\ minqp # 0 => minqp <= max

\* Slip: the fixed QP is sent before the maximum.
RcEnableMaxLast ==
    IF maxqp # 0 THEN TRUE ELSE IF fixedqp # 0 THEN FALSE ELSE rcEnable

\* Rate control after the limits and then the fixed QP were sent.
RcEnableAfter ==
    IF fixedqp # 0 THEN FALSE ELSE IF maxqp # 0 THEN TRUE ELSE rcEnable

\* Slip: a limit is only ever lowered.
Lowered(v, old) == IF v # 0 /\ v < old THEN v ELSE old

\* A setting kept back is sent unless it is 0.
Sent(v, old) == IF v # 0 THEN v ELSE old

\* The first POLLIN of runPoll with csweo set.  0 is sent for the bit rate.
ChangeSettings ==
    /\ step = "encoding" /\ ~opt.block /\ csweo /\ LimitsAccepted
    /\ csweo' = FALSE
    /\ fps' = 0 /\ bps' = 0 /\ minqp' = 0 /\ maxqp' = 0 /\ fixedqp' = 0
    /\ rate' = Sent(fps, rate)
    /\ bitRate' = IF bps # 0 THEN BitRateAfter(0) ELSE bitRate
    /\ fwMax' = Sent(maxqp, fwMax) /\ fwMin' = Sent(minqp, fwMin)
    /\ qp' = Sent(fixedqp, qp)
    /\ rcEnable' = RcEnableAfter
    /\ UNCHANGED <<opt, step, rcType>>

\* The firmware rejects a limit: an exception ends the program or the session.  The
\* maximum's setter has turned rate control on by then.
RejectMax ==
    /\ At("maxqp", "failed") /\ opt.maxqp # NotGiven /\ ~csweo
    /\ ~FwAcceptsMax(opt.maxqp)
    /\ rcEnable' = TRUE
    /\ UNCHANGED <<opt, held, rcType, rate, bitRate, fwMin, fwMax, qp>>

RejectMin ==
    /\ At("minqp", "failed") /\ opt.minqp # NotGiven /\ ~csweo
    /\ ~FwAcceptsMin(opt.minqp)
    /\ UNCHANGED <<opt, held, rcType, controls>>

\* What runPoll sends before the limit that is rejected is in force.
RejectHeld ==
    /\ At("encoding", "failed") /\ ~opt.block /\ csweo /\ ~LimitsAccepted
    /\ rate' = Sent(fps, rate) /\ fps' = 0
    /\ bitRate' = IF bps # 0 THEN BitRateAfter(0) ELSE bitRate
    /\ bps' = 0
    /\ fwMax' = IF FwAcceptsMax(maxqp) THEN Sent(maxqp, fwMax) ELSE fwMax
    /\ maxqp' = IF FwAcceptsMax(maxqp) THEN 0 ELSE maxqp
    /\ rcEnable' = (rcEnable \/ maxqp # 0)
    /\ UNCHANGED <<opt, csweo, minqp, fixedqp, rcType, fwMin, qp>>

\* The stream ends; a poll session has had its first coded buffer by then.
Finish ==
    /\ At("encoding", "done") /\ (opt.block \/ ~csweo)
    /\ UNCHANGED <<opt, held, rcType, controls>>

Terminated == step \in {"done", "failed"} /\ UNCHANGED vars

Next ==
    \/ ChangeSWEO \/ SetH264MaxQP \/ SetH264MinQP \/ SetH264FixedQP
    \/ SetFramerate \/ SetBitrate \/ Run \/ ChangeSettings
    \/ RejectMax \/ RejectMin \/ RejectHeld \/ Finish \/ Terminated

Spec == Init /\ [][Next]_vars

-----------------------------------------------------------------------------
(* Properties. *)

\* The limit of an option: with -x a limit given as 0 is lost, since runPoll takes
\* the 0 kept back for nothing kept back.
Limit(v, default) == IF v = NotGiven \/ (opt.exec /\ v = 0) THEN default ELSE v

\* The limits suit each other and the maximum, which is sent first, suits the
\* firmware's minimum.
ConsistentLimits ==
    LET max == Limit(opt.maxqp, FwMaxQp) IN
    /\ FwMinQp <= max
    /\ Limit(opt.minqp, FwMinQp) <= max

\* A pair of QP limits is rejected, at once or when it is sent later, if and only if
\* it contradicts itself or the firmware; a limit of 0 that -x loses is never
\* rejected, where without -x it would be.
LimitsRejectedIffBad ==
    /\ step = "failed" => ~ConsistentLimits
    /\ step = "done" /\ ~opt.block => ConsistentLimits

\* After a poll session the limits asked for are the encoder's, whether they were
\* sent at once or kept back, except a limit of 0 with -x: that one leaves the
\* firmware's own limit in force, as if it had not been given.
LimitsInForce ==
    step = "done" /\ ~opt.block =>
        /\ fwMax = Limit(opt.maxqp, FwMaxQp)
        /\ fwMin = Limit(opt.minqp, FwMinQp)

\* A fixed QP, 0 included, stays in force with rate control off, also next to a
\* maximum QP, whose control turns rate control on; with -x it is later increased
\* by 2.
FixedQpInForce ==
    step = "done" /\ opt.fixedqp # NotGiven =>
        /\ qp = opt.fixedqp + (IF opt.exec /\ ~opt.block THEN 2 ELSE 0)
        /\ ~rcEnable

\* "Frame rate.": the fixed point value of -v, given without -x, reaches the encoder.
FrameRateInForce ==
    step = "done" /\ ~opt.exec /\ opt.fps \notin {NotGiven, 0} => rate = ShiftLeft(opt.fps)

\* "Change settings while encoding is ongoing.": a maximum QP given with -x, and not
\* as 0, is the encoder's when the session has ended.
HeldSettingsSent ==
    step = "done" /\ opt.exec /\ opt.maxqp \notin {NotGiven, 0} => fwMax = opt.maxqp
=============================================================================
