--------------------------- MODULE SimulationSession ---------------------------
(***************************************************************************)
(* What a simulation session promises to those who control it: the status  *)
(* machine of the README with STOPPED final, and a tick counter that is    *)
(* advanced one by one, only by ticks that were admitted while the session *)
(* existed and was not stopped.  A tick that was admitted before the stop  *)
(* may still be performed after it; none is admitted any more.             *)
(***************************************************************************)
EXTENDS Naturals

CONSTANT Caller  \* whoever can ask for a tick

VARIABLES status, tick, admitted

vars == <<status, tick, admitted>>

Open == status \in {"CREATED", "RUNNING", "PAUSED"}

Init ==
    /\ status = "NONE"
    /\ tick = 0
    /\ admitted = {}

ChangeStatus(from, to) ==
    /\ status \in from
    /\ status' = to
    /\ UNCHANGED <<tick, admitted>>

CreateSession == ChangeStatus({"NONE"}, "CREATED")
StartSession  == ChangeStatus({"CREATED", "PAUSED"}, "RUNNING")
PauseSession  == ChangeStatus({"RUNNING"}, "PAUSED")
StopSession   == ChangeStatus({"CREATED", "RUNNING", "PAUSED"}, "STOPPED")

\* A tick has to wait for its turn.
Admit(c) ==
    /\ Open
    /\ admitted' = admitted \cup {c}
    /\ UNCHANGED <<status, tick>>

\* A tick that waited is performed, whatever the status has become.
Perform(c) ==
    /\ c \in admitted
    /\ tick' = tick + 1
    /\ admitted' = admitted \ {c}
    /\ UNCHANGED status

\* A tick that does not have to wait.
AdmitAndPerform ==
    /\ Open
    /\ tick' = tick + 1
    /\ UNCHANGED <<status, admitted>>

\* A waiting tick is cancelled, which only a stop or the shutdown does.
Abandon(c) ==
    /\ c \in admitted
    /\ admitted' = admitted \ {c}
    /\ UNCHANGED <<status, tick>>

Next ==
    \/ CreateSession \/ StartSession \/ PauseSession \/ StopSession
    \/ AdmitAndPerform
    \/ \E c \in Caller : Admit(c) \/ Perform(c) \/ Abandon(c)

Spec == Init /\ [][Next]_vars
=============================================================================
