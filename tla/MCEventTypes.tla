---------------------------- MODULE MCEventTypes ----------------------------
(* Small instances of EventTypes: the event types of System ask for a system  *)
(* name each, all others for one and the same name.                           *)
EXTENDS EventTypes

CONSTANT System
MCNameOf == [x \in TypeIds |-> IF x \in System THEN x ELSE "shared"]
MCSystemNames == System
=============================================================================
