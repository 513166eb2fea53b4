------------------------------ MODULE EventLog ------------------------------
(***************************************************************************)
(* What the out-of-cage ledger promises its emitters: events are appended  *)
(* to one log, each at most once, none is ever removed, and an emitter is  *)
(* told "recorded" only of an event that is in the log.                    *)
(***************************************************************************)
EXTENDS Sequences, Naturals

CONSTANT Event

VARIABLES
    log,        \* the events on record, oldest first
    answer      \* what the emitter of each event has been told

logVars == <<log, answer>>

OnRecord(e) == \E i \in 1..Len(log) : log[i] = e

LogInit ==
    /\ log = <<>>
    /\ answer = [e \in Event |-> "none"]

\* The emitters of any set of events lose sight of the ledger, whether or not
\* their events are on record.
SightLost ==
    /\ answer' \in [Event -> {"none", "recorded", "rejected", "lost"}]
    /\ \A e \in Event : \/ answer'[e] = answer[e]
                        \/ answer[e] = "none" /\ answer'[e] = "lost"

Write(e) ==
    /\ ~OnRecord(e)
    /\ answer[e] \notin {"recorded", "rejected"}
    /\ log' = Append(log, e)
    /\ SightLost

Acknowledge(e) ==
    /\ OnRecord(e)
    /\ answer[e] = "none"
    /\ answer' = [answer EXCEPT ![e] = "recorded"]
    /\ UNCHANGED log

Reject(e) ==
    /\ ~OnRecord(e)
    /\ answer[e] = "none"
    /\ answer' = [answer EXCEPT ![e] = "rejected"]
    /\ UNCHANGED log

LoseSight == SightLost /\ UNCHANGED log

LogNext ==
    \/ \E e \in Event : Write(e) \/ Acknowledge(e) \/ Reject(e)
    \/ LoseSight

LogSpec == LogInit /\ [][LogNext]_logVars
=============================================================================
