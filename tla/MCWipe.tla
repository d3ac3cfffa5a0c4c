------------------------------- MODULE MCWipe -------------------------------
(***************************************************************************)
(* Populations for pages of two objects and batches of three: events and   *)
(* triggers of one type; objects of the system; alerts for one batch; and  *)
(* alerts for two batches, the last page beyond the window of a search,    *)
(* where no call fails.                                                    *)
(***************************************************************************)
EXTENDS Wipe

CONSTANTS a1, a2, a3, a4, a5, a6, a7, a8, a9, g1, e1, e2, s1, t1, ts

OneType == [alerts |-> << >>, triggers |-> <<g1>>, events |-> <<e1, e2>>,
            types |-> <<t1>>]
WithSystem == [alerts |-> << >>, triggers |-> << >>, events |-> <<s1, e1, e2>>,
               types |-> <<ts, t1>>]
OneBatch == [alerts |-> <<a1, a2, a3, a4>>, triggers |-> << >>,
             events |-> << >>, types |-> << >>]
TwoBatches == [alerts |-> <<a1, a2, a3, a4, a5, a6, a7, a8, a9>>,
               triggers |-> << >>, events |-> << >>, types |-> << >>]

MCPopulations == {OneType, WithSystem, OneBatch, TwoBatches}
MCFaulty == {OneType, WithSystem, OneBatch}
MCTypeOf == [r \in {g1, e1, e2, s1} |-> IF r = s1 THEN ts ELSE t1]
=============================================================================
