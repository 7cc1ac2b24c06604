--------------------------- MODULE MCTransitions ---------------------------
(* Two questions share no state; focus says which one is asked.            *)
EXTENDS Transitions, PostDelivery

CONSTANTS native, opus, sonnet, first, second
VARIABLE focus

MCModels == {native, opus, sonnet}
MCNative == {native}
MCClaude == {opus, sonnet}

all == <<focus, vars, deliveryVars>>
MCInit ==
    /\ focus \in {"transition", "delivery"}
    /\ Init /\ DeliveryInit
    /\ focus = "delivery" => record.model = native /\ session.agents
    /\ focus = "transition" => turn.adapter = "native"
MCNext ==
    \/ focus = "transition" /\ Next /\ UNCHANGED <<focus, deliveryVars>>
    \/ focus = "delivery" /\ DeliveryNext /\ UNCHANGED <<focus, vars>>
MCSpec ==
    /\ MCInit /\ [][MCNext]_all
    /\ WF_all(focus = "transition" /\ Bounded /\ UNCHANGED <<focus, deliveryVars>>)
=============================================================================
