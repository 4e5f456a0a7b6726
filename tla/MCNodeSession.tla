---------------------------- MODULE MCNodeSession ----------------------------
(***************************************************************************)
(* NodeSession on two interchangeable connections, in both builds.  The     *)
(* .cfg gives LogEnable the value of the default build; Log is the build    *)
(* with -DLOG_ENABLE.                                                       *)
(***************************************************************************)
EXTENDS NodeSession, TLC

VARIABLE build  \* "default" or "log", chosen when the program is compiled

Log == INSTANCE NodeSession WITH LogEnable <- TRUE

bothVars == <<sessionVars, build>>

BothInit == Init /\ build \in {"default", "log"}

BothNext ==
    /\ \/ build = "default" /\ Next
       \/ build = "log" /\ Log!Next
    /\ UNCHANGED build

BothSpec == BothInit /\ [][BothNext]_bothVars

(* In the LOG_ENABLE build a request leaves the list of a connected node     *)
(* only after it was sent, whatever the node answers: the assertions of      *)
(* gw_iotnode_interface.c:220-229, 282-295 and 417-424 precede every        *)
(* deletion that an answer causes.                                           *)
LogBuildKeepsUnsent == [][build = "log" => UnsentKept]_bothVars

ConnSymmetry == Permutations(Conn)
=============================================================================
