--------------------------- MODULE FiringContract ---------------------------
(***************************************************************************)
(* What posting an event promises, without saying how triggers are found,  *)
(* read or authorised: for each event and trigger at most one job is sent, *)
(* only for an accepted event and before its answer; an alert is recorded  *)
(* only after its job; and the answer is "created" only when no trigger is *)
(* left between its job and its alert.                                     *)
(***************************************************************************)
CONSTANTS Events, Triggers

VARIABLES
    accepted,   \* the events stored
    firing,     \* per event and trigger: "no", "sent" (a job), "alerted"
    answer      \* per event: the answer its client got; "lost" in a crash

contract == <<accepted, firing, answer>>

Init ==
    /\ accepted = {}
    /\ firing = [e \in Events |-> [t \in Triggers |-> "no"]]
    /\ answer = [e \in Events |-> "none"]

Accept(e) ==
    /\ answer[e] = "none"
    /\ accepted' = accepted \cup {e}
    /\ UNCHANGED <<firing, answer>>

Send(e, t) ==
    /\ e \in accepted
    /\ answer[e] = "none"
    /\ firing[e][t] = "no"
    /\ firing' = [firing EXCEPT ![e][t] = "sent"]
    /\ UNCHANGED <<accepted, answer>>

Record(e, t) ==
    /\ answer[e] = "none"
    /\ firing[e][t] = "sent"
    /\ firing' = [firing EXCEPT ![e][t] = "alerted"]
    /\ UNCHANGED <<accepted, answer>>

AnswerCreated(e) ==
    /\ answer[e] = "none"
    /\ e \in accepted
    /\ \A t \in Triggers : firing[e][t] # "sent"
    /\ answer' = [answer EXCEPT ![e] = "created"]
    /\ UNCHANGED <<accepted, firing>>

\* An error promises nothing: the event may be stored and jobs may be out.
AnswerError(e) ==
    /\ answer[e] = "none"
    /\ accepted' \in {accepted, accepted \cup {e}}
    /\ answer' = [answer EXCEPT ![e] = "error"]
    /\ UNCHANGED firing

\* A crash leaves any set of clients without an answer.
Lose ==
    /\ \E lost \in SUBSET {e \in Events : answer[e] = "none"} :
          answer' = [e \in Events |-> IF e \in lost THEN "lost" ELSE answer[e]]
    /\ UNCHANGED <<accepted, firing>>

Next ==
    \/ \E e \in Events : Accept(e) \/ AnswerCreated(e) \/ AnswerError(e)
    \/ \E e \in Events, t \in Triggers : Send(e, t) \/ Record(e, t)
    \/ Lose

Spec == Init /\ [][Next]_contract
=============================================================================
