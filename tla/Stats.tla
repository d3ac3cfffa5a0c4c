------------------------------- MODULE Stats -------------------------------
(***************************************************************************)
(* The counters of Stats (common.go), which handlers increment without     *)
(* synchronisation, and GetStats, which copies them under a lock that the  *)
(* increments do not take.  They live in the memory of the process.        *)
(***************************************************************************)
EXTENDS Naturals

CONSTANTS
    Counters,        \* the fields of Stats: "NumEventTypes", "NumAlerts", ...
    Workers,         \* handlers and goroutines that increment them
    MaxIncrements,   \* bound on the increments of one counter in one life
    None             \* "nothing there"

ASSUME StatsAssumption ==
    /\ "NumEventTypes" \in Counters
    /\ None \notin Counters
    /\ MaxIncrements \in Nat

VARIABLES
    counter,     \* per counter: its value
    incr,        \* per worker: the counter it increments and the value it read
    reply,       \* the copy GetStats is making: its fields read so far
    \* History variables, never read by a guard but for the bound.
    begun,       \* per counter: increments begun
    done,        \* per counter: increments completed
    overlapped,  \* counters two increments of which were under way at a time
    doneBefore   \* done, when the GetStats at work began

statsVars == <<counter, incr, reply, begun, done, overlapped, doneBefore>>

Idle == [on |-> None, read |-> 0]

\* The zero value of Service.stats, at the start of the process.
StatsInit ==
    /\ counter = [c \in Counters |-> 0]
    /\ incr = [w \in Workers |-> Idle]
    /\ reply = None
    /\ begun = [c \in Counters |-> 0]
    /\ done = [c \in Counters |-> 0]
    /\ overlapped = {}
    /\ doneBefore = [c \in Counters |-> 0]

ResetStats ==
    /\ counter' = [c \in Counters |-> 0]
    /\ incr' = [w \in Workers |-> Idle]
    /\ reply' = None
    /\ begun' = [c \in Counters |-> 0]
    /\ done' = [c \in Counters |-> 0]
    /\ overlapped' = {}
    /\ doneBefore' = [c \in Counters |-> 0]

\* IncrEventTypes and the others: *counter++ reads the field and writes it
\* back, and another worker may do the same in between.
ReadCounter(w, c) ==
    /\ incr[w] = Idle
    /\ begun[c] < MaxIncrements
    /\ incr' = [incr EXCEPT ![w] = [on |-> c, read |-> counter[c]]]
    /\ begun' = [begun EXCEPT ![c] = @ + 1]
    /\ overlapped' = IF \E v \in Workers : incr[v].on = c
                     THEN overlapped \cup {c} ELSE overlapped
    /\ UNCHANGED <<counter, reply, done, doneBefore>>

\* Mutant of WriteCounter: the value read is written back.
WriteCounterSame(w) ==
    /\ incr[w] # Idle
    /\ counter' = [counter EXCEPT ![incr[w].on] = incr[w].read]
    /\ done' = [done EXCEPT ![incr[w].on] = @ + 1]
    /\ incr' = [incr EXCEPT ![w] = Idle]
    /\ UNCHANGED <<reply, begun, overlapped, doneBefore>>

WriteCounter(w) ==
    /\ incr[w] # Idle
    /\ counter' = [counter EXCEPT ![incr[w].on] = incr[w].read + 1]
    /\ done' = [done EXCEPT ![incr[w].on] = @ + 1]
    /\ incr' = [incr EXCEPT ![w] = Idle]
    /\ UNCHANGED <<reply, begun, overlapped, doneBefore>>

\* An increment that nothing runs beside.
IncrAlone(c) ==
    /\ counter' = [counter EXCEPT ![c] = @ + 1]
    /\ begun' = [begun EXCEPT ![c] = @ + 1]
    /\ done' = [done EXCEPT ![c] = @ + 1]
    /\ UNCHANGED <<incr, reply, overlapped, doneBefore>>

\* GetStats takes the lock of the service, which admits one reader at a time,
\* and copies the fields one by one, in whatever order they are moved.
LockStats ==
    /\ reply = None
    /\ reply' = [c \in {} |-> 0]
    /\ doneBefore' = done
    /\ UNCHANGED <<counter, incr, begun, done, overlapped>>

CopyField(c) ==
    /\ reply # None
    /\ c \notin DOMAIN reply
    /\ reply' = [d \in DOMAIN reply \cup {c} |->
                    IF d = c THEN counter[c] ELSE reply[d]]
    /\ UNCHANGED <<counter, incr, begun, done, overlapped, doneBefore>>

UnlockStats ==
    /\ reply # None
    /\ DOMAIN reply = Counters
    /\ reply' = None
    /\ UNCHANGED <<counter, incr, begun, done, overlapped, doneBefore>>

StatsNext ==
    \/ \E w \in Workers : \/ \E c \in Counters : ReadCounter(w, c)
                         \/ WriteCounter(w)
    \/ LockStats \/ UnlockStats
    \/ \E c \in Counters : CopyField(c)

-----------------------------------------------------------------------------
StatsTypeOK ==
    /\ counter \in [Counters -> Nat]
    /\ incr \in [Workers -> [on : Counters \cup {None}, read : Nat]]
    /\ reply = None \/ DOMAIN reply \subseteq Counters
    /\ begun \in [Counters -> 0..MaxIncrements]
    /\ done \in [Counters -> Nat]
    /\ overlapped \subseteq Counters

\* Lost updates make a counter too low, never too high, and never bring it
\* back to zero; it is exact while no two increments of it overlapped.  What
\* GetStats reports is bounded in the same way: a counter of something that
\* was done before the request is not reported as zero, as the system tests
\* ask, even if its increments raced.
CountsBounded ==
    /\ \A c \in Counters :
          /\ counter[c] <= begun[c]
          /\ done[c] > 0 => counter[c] > 0
          /\ c \notin overlapped => counter[c] = done[c]
    /\ reply # None =>
          \A c \in DOMAIN reply :
              /\ reply[c] <= begun[c]
              /\ doneBefore[c] > 0 => reply[c] > 0

\* What makes CountsBounded inductive.  A worker that is about to write has
\* read less than the increments begun, its own included; while increments of
\* a counter do not overlap there is one at most, and it has read the value
\* of the counter.
CountTypes ==
    /\ counter \in [Counters -> Nat]
    /\ begun \in [Counters -> Nat]
    /\ done \in [Counters -> Nat]
    /\ doneBefore \in [Counters -> Nat]
    /\ incr \in [Workers -> [on : Counters \cup {None}, read : Nat]]

IncrInv ==
    \A w \in Workers :
        /\ incr[w].on = None => incr[w] = Idle
        /\ \A c \in Counters :
              incr[w].on = c =>
                  /\ incr[w].read + 1 <= begun[c]
                  /\ c \notin overlapped =>
                        /\ incr[w].read = counter[c]
                        /\ \A v \in Workers : incr[v].on = c => v = w

ReplyInv ==
    /\ reply # None => \A c \in DOMAIN reply : c \in Counters /\ reply[c] \in Nat
    /\ \A c \in Counters : doneBefore[c] <= done[c]

CountInv == CountTypes /\ IncrInv /\ ReplyInv /\ CountsBounded
=============================================================================
