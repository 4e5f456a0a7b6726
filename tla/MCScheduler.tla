----------------------------- MODULE MCScheduler -----------------------------
(* Finite values for Scheduler: a timer that is deleted when it fires and   *)
(* one that stays, for the same switch, each set through its own broker.    *)
EXTENDS Scheduler, TLC

CONSTANTS once, always, lamp, local, remote

MCPersist == once :> "ONCE" @@ always :> "ALWAYS"
MCSwitch == once :> lamp @@ always :> lamp
MCHeard ==
    local :> Message \ {[type |-> "SET", arg |-> always], [type |-> "DEL", arg |-> always]}
    @@ remote :> {[type |-> "SET", arg |-> always]}

\* For a thread on its own: all messages.
MCHeardAll == [th \in Thread |-> Message]
=============================================================================
