------------------------------ MODULE Mediation ------------------------------
(***************************************************************************)
(* What the prison promises an agent (PUB_OS_BROKER_CONTRACT.md, clauses   *)
(* I1, I4): a stream is a sequence of requests, answered one by one in the *)
(* order they were made, each as the court judged it, until the stream     *)
(* ends; what is unanswered then is denied.  Replies carry no number: the  *)
(* agent pairs them with its requests by their order.                      *)
(***************************************************************************)
EXTENDS Naturals, Sequences

CONSTANTS
    Stream,
    Frame

VARIABLES
    due,        \* due[f]: the replies a frame may get from the court in session
    asked,      \* asked[s]: the frames the agent has written to s
    answers,    \* answers[s]: the replies it has got
    open        \* open[s]: neither side has ended s

Init ==
    /\ due \in [Frame -> SUBSET {"ok", "deny"}]
    /\ asked = [s \in Stream |-> <<>>]
    /\ answers = [s \in Stream |-> <<>>]
    /\ open = [s \in Stream |-> TRUE]

Ask(s, f) ==
    /\ open[s]
    /\ asked' = [asked EXCEPT ![s] = Append(@, f)]
    /\ UNCHANGED <<due, answers, open>>

Answer(s, reply) ==
    /\ open[s]
    /\ Len(answers[s]) < Len(asked[s])
    /\ reply \in due[asked[s][Len(answers[s]) + 1]]
    /\ answers' = [answers EXCEPT ![s] = Append(@, reply)]
    /\ UNCHANGED <<due, asked, open>>

\* Either side closes the stream, or the window seals it.
End(s) ==
    /\ open' = [open EXCEPT ![s] = FALSE]
    /\ UNCHANGED <<due, asked, answers>>

Next ==
    \E s \in Stream :
        \/ \E f \in Frame : Ask(s, f)
        \/ \E reply \in {"ok", "deny"} : Answer(s, reply)
        \/ End(s)

MediationSpec == Init /\ [][Next]_<<due, asked, answers, open>>
=============================================================================
