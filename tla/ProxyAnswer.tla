---------------------------- MODULE ProxyAnswer ----------------------------
(***************************************************************************)
(* What a client of the application's two proxies may see of a request: an  *)
(* answer of the upstream that is complete, an answer refused before        *)
(* anything of the upstream's was passed on, or a connection that breaks    *)
(* off, never a mixture.  GitProxy and HttpProxy implement it.              *)
(***************************************************************************)
CONSTANT Request

VARIABLES
    answer,  \* what the client was sent
    over     \* did the upstream end its answer properly?

vars == <<answer, over>>

Init ==
    /\ answer = [r \in Request |-> "none"]
    /\ over = [r \in Request |-> FALSE]

Answer(r, from, to) ==
    answer[r] \in from /\ answer' = [answer EXCEPT ![r] = to]

Ends(r) == over' = [over EXCEPT ![r] = TRUE]

UpstreamEnds(r) == Answer(r, {"none", "begun"}, answer[r]) /\ Ends(r)
Refuse(r) == Answer(r, {"none"}, "refused") /\ UNCHANGED over
Begin(r) == Answer(r, {"none"}, "begun") /\ (Ends(r) \/ UNCHANGED over)
Complete(r) == over[r] /\ Answer(r, {"begun"}, "whole") /\ UNCHANGED over

\* A process that stops breaks off all that it has at hand.
Break(R) ==
    /\ \A r \in R : answer[r] \in {"none", "begun"}
    /\ answer' = [r \in Request |-> IF r \in R THEN "broken" ELSE answer[r]]
    /\ UNCHANGED over

Next ==
    \/ \E r \in Request : UpstreamEnds(r) \/ Refuse(r) \/ Begin(r) \/ Complete(r)
    \/ \E R \in SUBSET Request : Break(R)

Spec == Init /\ [][Next]_vars

=============================================================================
