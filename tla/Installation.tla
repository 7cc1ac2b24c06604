---------------------------- MODULE Installation ----------------------------
(***************************************************************************)
(* What the owned transitions of a session promise: its workspace and its  *)
(* model change only between turns, one of them at a time, after what used *)
(* the old one was torn down and at most once for each teardown; and a     *)
(* teardown whose outcome is not known keeps every worker turn away until  *)
(* the developer has inspected it.                                         *)
(***************************************************************************)
CONSTANTS Roots, Models
VARIABLES root, model, torn, working
vars == <<root, model, torn, working>>

Init == /\ root \in Roots
        /\ model \in Models
        /\ torn = FALSE
        /\ working = FALSE

Work == ~torn /\ ~working /\ working' = TRUE /\ UNCHANGED <<root, model, torn>>
Rest == working /\ working' = FALSE /\ UNCHANGED <<root, model, torn>>
TearDown == ~torn /\ ~working /\ torn' = TRUE /\ UNCHANGED <<root, model, working>>

\* One thing at a time: the root or the model, and never to what it is already.
Install == /\ torn /\ ~working
           /\ \/ root' \in Roots \ {root} /\ model' = model
              \/ model' \in Models \ {model} /\ root' = root
           /\ torn' = FALSE
           /\ UNCHANGED working

Inspect == torn /\ ~working /\ torn' = FALSE /\ UNCHANGED <<root, model, working>>

Next == Work \/ Rest \/ TearDown \/ Install \/ Inspect
Spec == Init /\ [][Next]_vars
=============================================================================
