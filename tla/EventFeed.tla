------------------------------ MODULE EventFeed ------------------------------
(* What event synchronisation promises: the transfers the chain made final    *)
(* are delivered to the records, each of them, and nothing else.              *)
VARIABLES final, delivered

Init == final = {} /\ delivered = {}

Finalise == /\ final' # final /\ final \subseteq final'
            /\ UNCHANGED delivered
Deliver  == /\ \E t \in final \ delivered : delivered' = delivered \cup {t}
            /\ UNCHANGED final

Next == Finalise \/ Deliver

Spec == Init /\ [][Next]_<<final, delivered>>
             /\ WF_<<final, delivered>>(Deliver)

=============================================================================
