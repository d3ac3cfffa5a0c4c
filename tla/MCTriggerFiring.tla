-------------------------- MODULE MCTriggerFiring --------------------------
(* Small instances of TriggerFiring.  Every event satisfies every condition, *)
(* so that the fan-out is as wide as it can be.                               *)
EXTENDS TriggerFiring, TLC

CONSTANT Foreign    \* events and triggers of another event type than the rest

MCMatches == Events \X Triggers
MCEventTypeOf == [e \in Events |-> IF e \in Foreign THEN "B" ELSE "A"]
MCTriggerTypeOf == [t \in Triggers |-> IF t \in Foreign THEN "B" ELSE "A"]

TriggersAlike == Permutations(Triggers)
EditorsAlike == Permutations(Editors)
=============================================================================
