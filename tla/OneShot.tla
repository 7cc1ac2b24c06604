------------------------------ MODULE OneShot ------------------------------
(***************************************************************************)
(* What the host promises of a one-shot plugin hook, for one component and *)
(* one role: two runs never overlap; after a run whose effects are not     *)
(* known nothing of the component runs, declared one-shot or not, until    *)
(* the developer attests that the run failed or its retained outcome is    *)
(* concluded; and after a run that succeeded there is none until the       *)
(* component is explicitly activated again.                                *)
(***************************************************************************)
CONSTANTS Events
VARIABLES
    running,   \* one-shot runs that are under way
    plain,     \* runs of a declaration that is not one-shot
    unknown,   \* one-shot runs that ended with unknown effects
    consumed   \* has a run of this activation succeeded?
vars == <<running, plain, unknown, consumed>>

Init == running = {} /\ plain = {} /\ unknown = {} /\ consumed = FALSE

Quiet == running = {} /\ unknown = {}

Start(e) == /\ Quiet /\ ~consumed
            /\ running' = {e}
            /\ UNCHANGED <<plain, unknown, consumed>>
StartPlain(e) == /\ Quiet
                 /\ plain' = plain \union {e}
                 /\ UNCHANGED <<running, unknown, consumed>>
EndPlain == plain' \subseteq plain /\ UNCHANGED <<running, unknown, consumed>>
Succeed(e) == /\ e \in running
              /\ running' = running \ {e} /\ consumed' = TRUE
              /\ UNCHANGED <<plain, unknown>>
Fail(e) == /\ e \in running
           /\ running' = running \ {e}
           /\ UNCHANGED <<plain, unknown, consumed>>
\* The effects of a run stay unknown; a crash also ends what is not one-shot.
Lose(e) == /\ e \in running
           /\ running' = running \ {e} /\ unknown' = unknown \union {e}
           /\ plain' \subseteq plain
           /\ UNCHANGED consumed
Conclude(e) == /\ e \in unknown
               /\ unknown' = unknown \ {e}
               /\ UNCHANGED <<running, plain, consumed>>
Activate == Quiet /\ consumed' = FALSE /\ UNCHANGED <<running, plain, unknown>>

Next == \/ \E e \in Events : \/ Start(e) \/ StartPlain(e) \/ Succeed(e) \/ Fail(e)
                             \/ Lose(e) \/ Conclude(e)
        \/ EndPlain \/ Activate
Spec == Init /\ [][Next]_vars
=============================================================================
