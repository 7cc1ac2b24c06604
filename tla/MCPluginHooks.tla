--------------------------- MODULE MCPluginHooks ---------------------------
(* Two questions about hooks share no state; focus says which one is asked. *)
EXTENDS PluginHooks, ToolAdmission, TLC
CONSTANTS e1, e2, e3, c1, c2, c3, r1, r2
VARIABLE focus

EventsSym == Permutations(Events)
H(class, group, reads, on, recheck, once, writes, required) ==
    [class |-> class, group |-> group, reads |-> reads, on |-> on, recheck |-> recheck,
     once |-> once, writes |-> writes, required |-> required]
PlansDef == {
    <<H("Combined", 1, r1, Candidates, FALSE, FALSE, FALSE, TRUE),
      H("Combined", 1, r2, Candidates, TRUE, FALSE, FALSE, FALSE)>>,
    <<H("Combined", 0, r1, Candidates, TRUE, FALSE, FALSE, TRUE),
      H("Transformer", 0, r1, {c1, c2}, FALSE, FALSE, TRUE, FALSE),
      H("DecisionGate", 0, r2, {c2, c3}, FALSE, FALSE, FALSE, TRUE)>>,
    <<H("Combined", 0, r1, Candidates, TRUE, TRUE, FALSE, TRUE),
      H("Transformer", 0, r1, Candidates, FALSE, TRUE, FALSE, FALSE),
      H("Observer", 0, r2, Candidates, FALSE, FALSE, FALSE, FALSE)>>}

\* Plans that treat all candidates alike may start from any one of them.
MCInit ==
    /\ focus \in {"one-shot", "admission"}
    /\ Init /\ AdmissionInit
    /\ (\A i \in Indices : Of(i).on = Candidates) => call = c1
    /\ focus = "one-shot" =>
        call = c1 /\ plan = [handlers |-> CHOOSE p \in HandlerPlans : TRUE, spent |-> {}]
MCNext ==
    \/ focus = "one-shot" /\ Next /\ UNCHANGED <<focus, admissionVars>>
    \/ focus = "admission" /\ AdmissionNext /\ UNCHANGED <<focus, vars>>
MCSpec == MCInit /\ [][MCNext]_<<focus, vars, admissionVars>>
=============================================================================
