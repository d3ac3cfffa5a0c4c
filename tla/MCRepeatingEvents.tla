------------------------- MODULE MCRepeatingEvents -------------------------
(* Small instances of RepeatingEvents: the repeating events in Alike are of  *)
(* one event type, the others have a type of their own; those in System are  *)
(* of system types.                                                          *)
EXTENDS RepeatingEvents

CONSTANTS System, Alike

MCTypeOf == [c \in Crons |-> IF c \in Alike THEN "shared" ELSE c]
MCTypes == {MCTypeOf[c] : c \in Crons}
MCSystemTypes == {MCTypeOf[c] : c \in System}
=============================================================================
