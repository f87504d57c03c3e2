-------------------------- MODULE ProblemLifecycle --------------------------
(***************************************************************************)
(* What edge-triggered alerting promises of every single problem: it is    *)
(* announced once when it starts, it is not announced again before it has  *)
(* been over, and after an announcement there is silence for at least the  *)
(* cooldown, even for a problem that comes back at once.                   *)
(*                                                                         *)
(*     clear --Announce--> announced --Settle--> cooling --Cool--> clear   *)
(***************************************************************************)
CONSTANT Keys

VARIABLE status

Statuses == {"clear", "announced", "cooling"}

Init == status = [k \in Keys |-> "clear"]

\* One message at a time, and only about a problem that is clear.
Announce(k) ==
    /\ status[k] = "clear"
    /\ status' = [status EXCEPT ![k] = "announced"]

\* A round of checks finds that some announced problems are over.
Settle ==
    /\ \A k \in Keys : status'[k] # status[k] =>
          status[k] = "announced" /\ status'[k] \in {"cooling", "clear"}
    /\ status' \in [Keys -> Statuses]

\* Time passes.
Cool ==
    /\ \A k \in Keys : status'[k] # status[k] =>
          status[k] = "cooling" /\ status'[k] = "clear"
    /\ status' \in [Keys -> Statuses]

\* The process restarts and remembers nothing.
Forget == status' = [k \in Keys |-> "clear"]

Next == Settle \/ Cool \/ Forget \/ \E k \in Keys : Announce(k)

Spec == Init /\ [][Next]_status
=============================================================================
