---------------------------- MODULE RequestService ----------------------------
(***************************************************************************)
(* What the gateway promises to those who send it GET and SET requests.     *)
(*                                                                          *)
(* A request is handed to its node at most once, and what the requester is  *)
(* told is either that there is no such node, before the request was ever   *)
(* handed over, or the node's answer to this very request.  The gateway may *)
(* also drop a request and say nothing: the node went away or was too slow. *)
(***************************************************************************)
CONSTANTS
    Requests,
    NULL       \* nothing was told

VARIABLES
    stage,     \* "idle", "accepted" or "handed" to the node
    told       \* NULL, "refused", or the request whose answer was published

serviceVars == <<stage, told>>

Init ==
    /\ stage = [r \in Requests |-> "idle"]
    /\ told = [r \in Requests |-> NULL]

Move(r, from, to) ==
    /\ stage[r] \in from
    /\ stage' = [stage EXCEPT ![r] = to]

Submit(r) ==
    /\ Move(r, {"idle"}, "accepted")
    /\ told' = [told EXCEPT ![r] = NULL]

Refuse(r) ==
    /\ Move(r, {"accepted"}, "idle")
    /\ told' = [told EXCEPT ![r] = "refused"]

Hand(r) ==
    /\ Move(r, {"accepted"}, "handed")
    /\ UNCHANGED told

Answer(r) ==
    /\ Move(r, {"handed"}, "idle")
    /\ told' = [told EXCEPT ![r] = r]

(* A connection takes all its requests with it. *)
Drop(S) ==
    /\ \A r \in S : stage[r] # "idle"
    /\ stage' = [r \in Requests |-> IF r \in S THEN "idle" ELSE stage[r]]
    /\ UNCHANGED told

Next ==
    \/ \E r \in Requests : Submit(r) \/ Refuse(r) \/ Hand(r) \/ Answer(r)
    \/ \E S \in SUBSET Requests : Drop(S)

Spec == Init /\ [][Next]_serviceVars
=============================================================================
