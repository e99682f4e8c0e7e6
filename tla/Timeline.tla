------------------------------ MODULE Timeline ------------------------------
(***************************************************************************)
(* One transition sequence read twice.  State.Resolve                      *)
(* (internal/transitions/state.go) picks the case a request is served,     *)
(* from the time since the sequence began.  transitionScheduler.Schedule   *)
(* (internal/proxy/scheduler.go, and its gRPC twin in                      *)
(* internal/grpc/scheduler.go) arms one timer per deferrable case, which   *)
(* writes that case's defaults into the created file.  The two walk the    *)
(* same entries with loops of their own; they should tell the same story.  *)
(*                                                                         *)
(* Time is in whole seconds, the unit of both loops (Resolve truncates the *)
(* elapsed time to seconds).  The resource is created by the request that  *)
(* begins the sequence.                                                    *)
(***************************************************************************)
EXTENDS Integers, Sequences, FiniteSetsExt

CONSTANTS
    Entry,      \* entries of a sequence: [dur : Int, deferred : BOOLEAN]
    MaxLen,     \* bound of the length of a sequence
    MaxElapsed  \* bound of the clock

ASSUME TimelineAssumption ==
    /\ Entry \subseteq [dur : Int, deferred : BOOLEAN]
    /\ MaxLen \in Nat /\ MaxLen >= 2
    /\ MaxElapsed \in Nat

VARIABLES
    ts,       \* route.Transitions: deferred says the case exists, persists
              \* with merge "update" and has defaults that resolve
    elapsed,  \* seconds since the first request
    pending,  \* the entries whose timer has not fired
    content   \* the entry the file on disk shows

timelineVars == <<ts, elapsed, pending, content>>

\* Only a positive duration counts, in both loops.
Lasting(d) == IF d > 0 THEN d ELSE 0

\* Cumulative(seq)[i]: the sum of the durations of the first i entries.
Cumulative(seq) ==
    LET sum[i \in 0..Len(seq)] ==
            IF i = 0 THEN 0 ELSE sum[i - 1] + Lasting(seq[i].dur)
    IN  sum

\* A plausible bug: the comparison admits the last instant of the previous
\* entry.
ServedLate(seq, e) ==
    Min({Len(seq)} \cup
        {i \in 1..Len(seq) - 1 : seq[i].dur > 0 /\ e <= Cumulative(seq)[i]})

\* The index of the entry Resolve serves after e seconds.
Served(seq, e) ==
    Min({Len(seq)} \cup
        {i \in 1..Len(seq) - 1 : seq[i].dur > 0 /\ e < Cumulative(seq)[i]})

\* A plausible bug: the delay includes the entry's own duration.
DelayOfEnd(seq, i) == Cumulative(seq)[i]

\* How long after creation Schedule lets the timer of the entry i fire.
Delay(seq, i) == Cumulative(seq)[i - 1]

\* The entries Schedule arms a timer for: not the first, which the append has
\* applied, and none that would fire at once.
Scheduled(seq) ==
    {i \in 2..Len(seq) : seq[i].deferred /\ Cumulative(seq)[i - 1] > 0}

TimelineInit ==
    /\ ts \in UNION {[1..n -> Entry] : n \in 2..MaxLen}
    /\ elapsed = 0
    /\ pending = Scheduled(ts)
    /\ content = 1

Due == {i \in pending : Delay(ts, i) <= elapsed}

\* A timer fires and its goroutine writes the file.  Timers due in the same
\* second run in any order.
Fire(i) ==
    /\ i \in Due
    /\ content' = i
    /\ pending' = pending \ {i}
    /\ UNCHANGED <<ts, elapsed>>

\* A timer runs within the second it is due in.
PassSecond ==
    /\ Due = {}
    /\ elapsed < MaxElapsed
    /\ elapsed' = elapsed + 1
    /\ UNCHANGED <<ts, pending, content>>

TimelineNext == PassSecond \/ \E i \in 2..MaxLen : Fire(i)

TimelineSpec == TimelineInit /\ [][TimelineNext]_timelineVars

-----------------------------------------------------------------------------
\* Every entry but the last has a duration, as the documentation writes them.
\* Without that, two timers can be due in the same second, in any order.
EveryEntryLasts == \A i \in 1..Len(ts) - 1 : ts[i].dur > 0

\* When the due timers have fired, the file shows the last deferrable entry
\* at or before the one requests are served (the loops of Resolve and
\* Schedule accumulate the same thresholds).
FileFollowsRequests ==
    EveryEntryLasts /\ Due = {} =>
        content = Max({1} \cup {i \in 2..Served(ts, elapsed) : ts[i].deferred})

\* Start of an entry's window, counted without Cumulative: the seconds of all
\* entries before it.
StartOf(i) == Cardinality(UNION {{j} \X (1..Lasting(ts[j].dur)) : j \in 1..i - 1})

\* Requests are served the entry whose window the elapsed time is in; the
\* last entry's window has no end.
ServedInItsWindow ==
    LET i == Served(ts, elapsed)
    IN  /\ StartOf(i) <= elapsed
        /\ i < Len(ts) => elapsed < StartOf(i) + ts[i].dur

=============================================================================
