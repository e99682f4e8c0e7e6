--------------------------- MODULE SequenceClock ---------------------------
(***************************************************************************)
(* What apitwin promises about the clock of a transition sequence, with no *)
(* word of memory, files, locks or processes: a sequence has one starting  *)
(* time from the moment it begins until it is cleared, and every client is *)
(* told that time.  A restart of the server is not an action here: it must *)
(* be invisible.                                                           *)
(***************************************************************************)
CONSTANTS
    Scope,  \* the servers that keep sequences: "rest" and "grpc"
    Key,    \* the keys of the sequences
    Time,   \* the instants a sequence can begin at
    None    \* no time: the sequence has not begun

VARIABLES
    start,  \* start[s][k]: when the sequence k of scope s began, or None
    told    \* told[s][k]: the start a client was last answered from, or None

vars == <<start, told>>

Init ==
    /\ start = [s \in Scope |-> [k \in Key |-> None]]
    /\ told = [s \in Scope |-> [k \in Key |-> None]]

\* The first request of a sequence starts it.
Begin(s, k, t) ==
    /\ start[s][k] = None
    /\ start' = [start EXCEPT ![s][k] = t]
    /\ UNCHANGED told

\* A client is answered, from the start of the sequence and no other time.
Tell(s, k) ==
    /\ start[s][k] # None
    /\ told' = [told EXCEPT ![s][k] = start[s][k]]
    /\ UNCHANGED start

\* A DELETE or a hot reload ends the sequences in gone.
Clear(s, gone) ==
    /\ start' = [start EXCEPT ![s] = [k \in Key |-> IF k \in gone THEN None ELSE start[s][k]]]
    /\ told' = [told EXCEPT ![s] = [k \in Key |-> IF k \in gone THEN None ELSE told[s][k]]]

Next ==
    \E s \in Scope :
        \/ \E k \in Key, t \in Time : Begin(s, k, t)
        \/ \E k \in Key : Tell(s, k)
        \/ \E gone \in SUBSET Key : Clear(s, gone)

Spec == Init /\ [][Next]_vars

=============================================================================
