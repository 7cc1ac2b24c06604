----------------------------- MODULE AtMostOnce -----------------------------
(***************************************************************************)
(* What the tool ledger promises of every tool request a model or backend  *)
(* makes: its effect happens at most once, only after the request was      *)
(* retained and before an outcome is known; a known outcome is final; and  *)
(* an outcome that never became known is given up only by the developer's  *)
(* acknowledgement.                                                        *)
(***************************************************************************)
EXTENDS Naturals

CONSTANT Requests

VARIABLES
    outcome,    \* what is known of each request
    effects     \* how often its effect happened

vars == <<outcome, effects>>

Open == {"pending", "acknowledged"}    \* the outcome is not known

Init ==
    /\ outcome = [q \in Requests |-> "none"]
    /\ effects = [q \in Requests |-> 0]

\* The request is retained; a request over the allowance fails at once.
Retain(q) ==
    /\ outcome[q] = "none"
    /\ outcome' \in {[outcome EXCEPT ![q] = o] : o \in {"pending", "failed"}}
    /\ UNCHANGED effects

Perform(q) ==
    /\ outcome[q] \in Open /\ effects[q] = 0
    /\ effects' = [effects EXCEPT ![q] = 1]
    /\ UNCHANGED outcome

\* Success needs the effect; a failure may or may not have had one.
Settle(q) ==
    /\ outcome[q] \in Open
    /\ \/ outcome' = [outcome EXCEPT ![q] = "failed"]
       \/ effects[q] = 1 /\ outcome' = [outcome EXCEPT ![q] = "ok"]
    /\ UNCHANGED effects

\* One acknowledgement covers the open requests of an owner or of the session.
Acknowledge(Q) ==
    /\ outcome' = [q \in Requests |->
                     IF q \in Q THEN "acknowledged" ELSE outcome[q]]
    /\ UNCHANGED effects

Next ==
    \/ \E q \in Requests : Retain(q) \/ Perform(q) \/ Settle(q)
    \/ \E Q \in SUBSET {q \in Requests : outcome[q] = "pending"} : Acknowledge(Q)

Spec == Init /\ [][Next]_vars
=============================================================================
