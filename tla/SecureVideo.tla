---------------------------- MODULE SecureVideo -----------------------------
(***************************************************************************)
(* A secure session as a whole: mvx_secureplayer, the kernel driver, and   *)
(* the helpers udev starts for the driver (tools/securevideo/*.rules).     *)
(*                                                                         *)
(* The driver is external.  Once the player streams it asks for the        *)
(* firmware, works only when the firmware has been answered with a buffer, *)
(* may then ask for memory, and waits for that too.  A helper that ends    *)
(* without such an answer leaves it out of order.                          *)
(***************************************************************************)
EXTENDS SecurePlayer, SecureHelper

vars == <<pvars, hvars>>

Init == PlayerInit /\ HelperInit

Asked(j)   == step[j] # "none"
Usable(j)  == sent[j].n = "whole" /\ sent[j].fd # -1
Refused(j) == step[j] \in {"ok", "error"} /\ ~Usable(j)

\* The firmware has been loaded, and no request is open.
Served == /\ \A j \in Firmware : Usable(j)
          /\ \A j \in Job : Asked(j) => Usable(j)

DriverAsks(j) ==
    /\ Streaming /\ (j \in Firmware \/ Served)
    /\ Request(j)

DriverGivesUp ==
    /\ Streaming /\ \E j \in Job : Refused(j)
    /\ broken' = TRUE
    /\ UNCHANGED <<client, queues, pipe, lastSeen, lastSent, change, resolved, errors>>

Next ==
    \/ Client /\ UNCHANGED hvars
    \/ Served /\ DriverWork /\ UNCHANGED hvars
    \/ Served /\ DriverCorrupt /\ UNCHANGED hvars
    \/ DriverBreak /\ UNCHANGED hvars
    \/ DriverGivesUp /\ UNCHANGED hvars
    \/ \E j \in Job : DriverAsks(j) /\ UNCHANGED pvars
    \/ \E j \in Job : Helper(j) /\ UNCHANGED pvars
    \/ pc \in {"done", "failed"} /\ UNCHANGED vars

Spec == Init /\ [][Next]_vars

\* The player and the helpers keep running, the driver asks for the firmware, works when
\* it can and gives up when it is refused.
FairSpec ==
    /\ Spec
    /\ WF_vars(Client /\ UNCHANGED hvars)
    /\ WF_vars(Served /\ DriverWork /\ UNCHANGED hvars)
    /\ WF_vars(DriverGivesUp /\ UNCHANGED hvars)
    /\ \A j \in Firmware : WF_vars(DriverAsks(j) /\ UNCHANGED pvars)
    /\ \A j \in Job : WF_vars(Helper(j) /\ UNCHANGED pvars)
=============================================================================
