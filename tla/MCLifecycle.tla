---------------------------- MODULE MCLifecycle ----------------------------
(* Four releases: r2 has new indices for event types and events, r3 goes     *)
(* back to the event types of r1 with new events, and r4 takes the crons     *)
(* index of the others for another schema.                                   *)
EXTENDS Lifecycle

MCAliases == {"eventtypes", "events", "crons"}
MCIndexName ==
    [r1 |-> [eventtypes |-> "t1", events |-> "e1", crons |-> "c1"],
     r2 |-> [eventtypes |-> "t2", events |-> "e2", crons |-> "c1"],
     r3 |-> [eventtypes |-> "t1", events |-> "e3", crons |-> "c1"],
     r4 |-> [eventtypes |-> "t3", events |-> "e2", crons |-> "c1"]]
MCSchema ==
    [r \in Releases |->
        [a \in Aliases |-> IF r = "r4" /\ a = "crons" THEN "other" ELSE "s"]]
MCSystemTypes == <<"ingest", "execute">>
=============================================================================
