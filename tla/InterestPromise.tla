-------------------------- MODULE InterestPromise --------------------------
(***************************************************************************)
(* What the client Face promises an application about the Interests it     *)
(* expresses, without tables, tasks or transport: an Interest is expressed,*)
(* becomes pending and ends once, with one callback or, when the           *)
(* application cancels it or the Face shuts down, with none.  What has     *)
(* ended stays as it is.  Records the Face keeps for Interests of the      *)
(* forwarder take numbers too, and are foreign from the start.             *)
(***************************************************************************)
EXTENDS Naturals, Sequences

VARIABLE status   \* number of the Interest -> where it is

Ended == {"data", "nack", "timeout", "removed"}

Moves == [posted |-> {"pending", "removed"}, pending |-> Ended]

Init == status = << >>

Express == \E s \in {"posted", "foreign"} : status' = Append(status, s)

\* One packet or one call may end any number of pending Interests.
Advance ==
  /\ status' \in Seq({"posted", "pending", "foreign"} \cup Ended)
  /\ Len(status') = Len(status)
  /\ \A id \in DOMAIN status :
       \/ status'[id] = status[id]
       \/ status[id] \in DOMAIN Moves /\ status'[id] \in Moves[status[id]]

Next == Express \/ Advance

Spec == Init /\ [][Next]_status
=============================================================================
