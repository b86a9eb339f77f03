----------------------------- MODULE MCIpHelper -----------------------------
(***************************************************************************)
(* Model-checking instance of the IP helper with its RARP deferred queue, *)
(* and of the packet hand-off between application threads and the send   *)
(* and receive services.  The two share no variable (the RARP buffers and *)
(* the hand-off buffers are separate constants) and every property is     *)
(* about one of them, so an initial state picks one (phase) and the other *)
(* keeps its initial state: the state count is the sum of the two.        *)
(***************************************************************************)
EXTENDS IpHelper, PacketHandoff, TLC

VARIABLE phase

allvars == <<vars, pvars, phase>>

NetInit ==
  /\ phase \in {"helper", "handoff"}
  /\ Init
  /\ HandoffInit

NetNext ==
  \/ phase = "helper" /\ Next /\ UNCHANGED <<pvars, phase>>
  \/ phase = "handoff" /\ HandoffNext /\ UNCHANGED <<vars, phase>>

\* The helper thread is scheduled whenever it has work (IpHelper's Spec).
NetSpec ==
  /\ NetInit /\ [][NetNext]_allvars
  /\ WF_allvars(phase = "helper" /\ HelperStep /\ UNCHANGED <<pvars, phase>>)

\* Every variable of the helper and of the packet hand-off stays within
\* its type (a popped packet that is not the queue head, or a NULL packet
\* handed to the driver, shows up here).
NetTypeOK == TypeOK /\ HandoffTypeOK

====
