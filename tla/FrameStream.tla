---------------------------- MODULE FrameStream ----------------------------
(***************************************************************************)
(* What a session promises to its user, without ports, buffers or driver:  *)
(* the frames 1..total of the stream are delivered one after the other,    *)
(* and the session reports success only when all of them were.  It may     *)
(* fail at any time before that.                                           *)
(***************************************************************************)
EXTENDS Naturals, Sequences

VARIABLES
    total,          \* frames in a complete delivery
    out,            \* frames delivered so far
    status          \* "running", "done" or "failed"

Init == total \in Nat /\ out = <<>> /\ status = "running"

Deliver ==
    /\ status = "running" /\ Len(out) < total
    /\ out' = Append(out, Len(out) + 1)
    /\ UNCHANGED status

Finish ==
    /\ status = "running" /\ Len(out) = total
    /\ status' = "done"
    /\ UNCHANGED out

Fail ==
    /\ status = "running"
    /\ status' = "failed"
    /\ UNCHANGED out

Next == (Deliver \/ Finish \/ Fail) /\ UNCHANGED total

Spec == Init /\ [][Next]_<<total, out, status>>

\* Every session ends.
FairSpec == Spec /\ WF_<<total, out, status>>(Next)
=============================================================================
