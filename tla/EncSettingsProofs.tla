------------------------- MODULE EncSettingsProofs -------------------------
(***************************************************************************)
(* The QP options reach the encoder, for all values of the options and for *)
(* every range of the firmware.                                            *)
(*                                                                         *)
(* The invariant says, for every statement of main and for the running     *)
(* session, where the value of an option is: not looked at yet, kept back  *)
(* in Codec, or in the encoder.                                            *)
(***************************************************************************)
EXTENDS EncSettings, TLAPS

Typed ==
    /\ opt \in Options
    /\ step \in {"exec", "maxqp", "minqp", "fixedqp", "fps", "bps", "run",
                 "encoding", "done", "failed"}
    /\ csweo \in BOOLEAN /\ rcEnable \in BOOLEAN

\* Settings are held back with -x from the first statement on, until a poll session
\* sends them.
HoldsBack ==
    /\ step = "exec" => ~csweo
    /\ step \in {"maxqp", "minqp", "fixedqp", "fps", "bps", "run"} => csweo = opt.exec
    /\ step \in {"encoding", "done"} =>
        /\ csweo => opt.exec
        /\ opt.exec /\ ~csweo => ~opt.block
    /\ step = "done" /\ ~opt.block => ~csweo

\* What Codec keeps back of an option, 0 when it is not given.
Kept(v) == IF v = NotGiven THEN 0 ELSE v

MaxAt ==
    IF step \in {"exec", "maxqp"} THEN maxqp = 0 /\ fwMax = FwMaxQp
    ELSE IF csweo THEN maxqp = Kept(opt.maxqp) /\ fwMax = FwMaxQp
    ELSE /\ maxqp = 0 /\ fwMax = Limit(opt.maxqp, FwMaxQp)
         /\ FwMinQp <= Limit(opt.maxqp, FwMaxQp)

MinAt ==
    IF step \in {"exec", "maxqp", "minqp"} THEN minqp = 0 /\ fwMin = FwMinQp
    ELSE IF csweo THEN minqp = Kept(opt.minqp) /\ fwMin = FwMinQp
    ELSE /\ minqp = 0 /\ fwMin = Limit(opt.minqp, FwMinQp)
         /\ Limit(opt.minqp, FwMinQp) <= Limit(opt.maxqp, FwMaxQp)

FixedAt ==
    IF step \in {"exec", "maxqp", "minqp", "fixedqp"} THEN fixedqp = 0
    ELSE IF csweo
    THEN /\ fixedqp = IF opt.fixedqp # NotGiven THEN opt.fixedqp + 2 ELSE 0
         /\ opt.fixedqp # NotGiven => qp = opt.fixedqp /\ ~rcEnable
    ELSE /\ fixedqp = 0
         /\ opt.fixedqp # NotGiven =>
                qp = opt.fixedqp + (IF opt.exec THEN 2 ELSE 0) /\ ~rcEnable

IInv ==
    /\ Typed /\ HoldsBack
    /\ step # "failed" => MaxAt /\ MinAt /\ FixedAt
    /\ step = "failed" => ~ConsistentLimits

-----------------------------------------------------------------------------

LEMMA OptionsAreNat ==
  ASSUME Typed
  PROVE  /\ opt.minqp \in Nat \cup {NotGiven} /\ opt.maxqp \in Nat \cup {NotGiven}
         /\ opt.fixedqp \in Nat \cup {NotGiven} /\ NotGiven \notin Nat
         /\ opt.exec \in BOOLEAN /\ opt.block \in BOOLEAN
         /\ FwMinQp \in Nat /\ FwMaxQp \in Nat /\ FwMinQp <= FwMaxQp
  BY ValueAssumption DEF Typed, Options, Option

LEMMA InitIInv == Init => IInv
  BY DEF Init, IInv, Typed, HoldsBack, MaxAt, MinAt, FixedAt

\* What a statement does not look at stays where it is.
LEMMA NextIInv == IInv /\ [Next]_vars => IInv'
  <1> SUFFICES ASSUME IInv, [Next]_vars PROVE IInv'
    OBVIOUS
  <1>0. Typed
    BY DEF IInv
  <1> USE <1>0, OptionsAreNat
  <1>1. CASE ChangeSWEO
    BY <1>1 DEF IInv, Typed, HoldsBack, MaxAt, MinAt, FixedAt, ChangeSWEO, At, controls
  <1>2. CASE SetH264MaxQP
    <2>1. /\ step = "maxqp" /\ step' = "minqp" /\ csweo = opt.exec
          /\ maxqp = 0 /\ fwMax = FwMaxQp /\ minqp = 0 /\ fwMin = FwMinQp /\ fixedqp = 0
          /\ opt' = opt /\ csweo' = csweo /\ minqp' = minqp /\ fwMin' = fwMin
          /\ fixedqp' = fixedqp
      BY <1>2 DEF IInv, HoldsBack, MaxAt, MinAt, FixedAt, SetH264MaxQP, At, controls, held
    <2>2. MaxAt'
      BY <1>2, <2>1 DEF MaxAt, SetH264MaxQP, FwAcceptsMax, Kept, Limit, controls, held
    <2>3. rcEnable' \in BOOLEAN
      BY <1>2 DEF Typed, SetH264MaxQP, controls
    <2>4. QED
      BY <2>1, <2>2, <2>3 DEF IInv, Typed, HoldsBack, MinAt, FixedAt
  <1>3. CASE SetH264MinQP
    <2>1. /\ step = "minqp" /\ step' = "fixedqp" /\ csweo = opt.exec /\ MaxAt
          /\ minqp = 0 /\ fwMin = FwMinQp /\ fixedqp = 0
          /\ opt' = opt /\ csweo' = csweo /\ maxqp' = maxqp /\ fwMax' = fwMax
          /\ fixedqp' = fixedqp /\ rcEnable' = rcEnable
      BY <1>3 DEF IInv, HoldsBack, MinAt, FixedAt, SetH264MinQP, At, controls, held
    <2>2. ~csweo => fwMax = Limit(opt.maxqp, FwMaxQp)
                    /\ FwMinQp <= Limit(opt.maxqp, FwMaxQp)
      BY <2>1 DEF MaxAt
    <2>3. MinAt'
      BY <1>3, <2>1, <2>2 DEF MinAt, SetH264MinQP, FwAcceptsMin, Kept, Limit, controls, held
    <2>4. MaxAt'
      BY <2>1 DEF MaxAt, Limit
    <2>5. QED
      BY <2>1, <2>3, <2>4 DEF IInv, Typed, HoldsBack, FixedAt
  <1>4. CASE SetH264FixedQP
    <2>1. /\ step = "fixedqp" /\ step' = "fps" /\ csweo = opt.exec
          /\ fixedqp = 0 /\ MaxAt /\ MinAt
          /\ opt' = opt /\ csweo' = csweo /\ maxqp' = maxqp /\ minqp' = minqp
          /\ fwMax' = fwMax /\ fwMin' = fwMin
      BY <1>4 DEF IInv, HoldsBack, FixedAt, SetH264FixedQP, At
    <2>2. /\ opt.fixedqp # NotGiven => qp' = opt.fixedqp /\ rcEnable' = FALSE
          /\ fixedqp' = IF opt.fixedqp # NotGiven /\ csweo THEN opt.fixedqp + 2 ELSE fixedqp
      BY <1>4 DEF SetH264FixedQP, At
    <2>3. rcEnable' \in BOOLEAN
      BY <1>4 DEF Typed, SetH264FixedQP
    <2>4. Typed' /\ HoldsBack'
      BY <2>1, <2>3 DEF Typed, HoldsBack
    <2>5. MaxAt' /\ MinAt'
      BY <2>1 DEF MaxAt, MinAt, Limit
    <2>6. FixedAt'
      BY <2>1, <2>2 DEF FixedAt
    <2>7. QED
      BY <2>1, <2>4, <2>5, <2>6 DEF IInv
  <1>5. CASE SetFramerate
    BY <1>5 DEF IInv, Typed, HoldsBack, MaxAt, MinAt, FixedAt, Limit, SetFramerate, At
  <1>6. CASE SetBitrate
    BY <1>6 DEF IInv, Typed, HoldsBack, MaxAt, MinAt, FixedAt, Limit, SetBitrate, At
  <1>7. CASE Run
    BY <1>7 DEF IInv, Typed, HoldsBack, MaxAt, MinAt, FixedAt, Limit, Run, At, controls,
       held
  <1>8. CASE ChangeSettings
    <2>1. /\ step = "encoding" /\ ~opt.block /\ csweo /\ LimitsAccepted
          /\ maxqp = Kept(opt.maxqp) /\ fwMax = FwMaxQp
          /\ minqp = Kept(opt.minqp) /\ fwMin = FwMinQp
          /\ fixedqp = IF opt.fixedqp # NotGiven THEN opt.fixedqp + 2 ELSE 0
          /\ opt.exec
      BY <1>8 DEF IInv, HoldsBack, MaxAt, MinAt, FixedAt, ChangeSettings
    <2>2. /\ step' = "encoding" /\ csweo' = FALSE /\ opt' = opt
          /\ maxqp' = 0 /\ minqp' = 0 /\ fixedqp' = 0
          /\ fwMax' = Sent(maxqp, fwMax) /\ fwMin' = Sent(minqp, fwMin)
          /\ qp' = Sent(fixedqp, qp) /\ rcEnable' = RcEnableAfter
      BY <1>8, <2>1 DEF ChangeSettings
    <2>3. Typed' /\ HoldsBack'
      BY <2>1, <2>2 DEF IInv, Typed, HoldsBack, RcEnableAfter
    <2>4. MaxAt' /\ MinAt'
      BY <2>1, <2>2 DEF MaxAt, MinAt, LimitsAccepted, FwAcceptsMax, Sent, Kept, Limit
    <2>5. FixedAt'
      BY <2>1, <2>2 DEF FixedAt, RcEnableAfter, Sent
    <2>6. QED
      BY <2>2, <2>3, <2>4, <2>5 DEF IInv
  <1>9. CASE RejectMax \/ RejectMin \/ RejectHeld
    <2>1. /\ step' = "failed" /\ opt' = opt /\ csweo' = csweo
          /\ rcEnable' \in BOOLEAN
      BY <1>9 DEF RejectMax, RejectMin, RejectHeld, At, Typed, held, controls
    <2>2. ~ConsistentLimits
      <3>1. CASE RejectMax
        BY <3>1 DEF IInv, HoldsBack, MinAt, RejectMax, At, FwAcceptsMax, Limit, ConsistentLimits
      <3>2. CASE RejectMin
        <4>1. /\ step = "minqp" /\ ~csweo /\ csweo = opt.exec /\ opt.minqp # NotGiven
              /\ ~FwAcceptsMin(opt.minqp) /\ MaxAt
          BY <3>2 DEF IInv, HoldsBack, RejectMin, At
        <4>2. QED
          BY <4>1 DEF MaxAt, FwAcceptsMin, Limit, ConsistentLimits
      <3>3. CASE RejectHeld
        BY <3>3 DEF IInv, HoldsBack, MaxAt, MinAt, RejectHeld, At, LimitsAccepted, FwAcceptsMax,
           Kept, Limit, ConsistentLimits
      <3>4. QED
        BY <1>9, <3>1, <3>2, <3>3
    <2>3. QED
      BY <2>1, <2>2 DEF IInv, Typed, HoldsBack, ConsistentLimits, Limit
  <1>10. CASE Finish
    BY <1>10 DEF IInv, Typed, HoldsBack, MaxAt, MinAt, FixedAt, Limit, Finish, At, controls,
       held
  <1>11. CASE Terminated \/ UNCHANGED vars
    BY <1>11 DEF IInv, Typed, HoldsBack, MaxAt, MinAt, FixedAt, Limit, ConsistentLimits,
       Terminated, vars, controls, held
  <1>12. QED
    BY <1>1, <1>2, <1>3, <1>4, <1>5, <1>6, <1>7, <1>8, <1>9, <1>10, <1>11 DEF Next

-----------------------------------------------------------------------------

\* Limits that suit each other and the firmware are accepted in the order they are
\* sent, at once or by Codec::runPoll, and others end the session; a limit of 0 that
\* -x loses counts as not given.
THEOREM RejectionCorrect == Spec => []LimitsRejectedIffBad
  <1>1. ASSUME IInv PROVE LimitsRejectedIffBad
    <2>1. Typed /\ (step = "failed" => ~ConsistentLimits)
      BY <1>1 DEF IInv
    <2>2. CASE step = "done" /\ ~opt.block
      <3>1. ~csweo /\ MaxAt /\ MinAt
        BY <1>1, <2>2 DEF IInv, HoldsBack
      <3>2. ConsistentLimits
        BY <2>2, <3>1 DEF MaxAt, MinAt, ConsistentLimits
      <3>3. QED
        BY <2>1, <2>2, <3>2 DEF LimitsRejectedIffBad
    <2>3. QED
      BY <2>1, <2>2 DEF LimitsRejectedIffBad
  <1>2. QED
    BY <1>1, InitIInv, NextIInv, PTL DEF Spec

\* After a session that polls the limits asked for are the encoder's, except a limit
\* of 0 given with -x, which is as if it had not been given.
THEOREM LimitsCorrect == Spec => []LimitsInForce
  <1>1. IInv => LimitsInForce
    BY DEF IInv, HoldsBack, MaxAt, MinAt, LimitsInForce
  <1>2. QED
    BY <1>1, InitIInv, NextIInv, PTL DEF Spec

\* A fixed QP is in force at the end and rate control is off, although the setter of
\* the maximum turns it on.
THEOREM FixedQpCorrect == Spec => []FixedQpInForce
  <1>1. IInv => FixedQpInForce
    BY OptionsAreNat DEF IInv, HoldsBack, FixedAt, FixedQpInForce
  <1>2. QED
    BY <1>1, InitIInv, NextIInv, PTL DEF Spec
=============================================================================
