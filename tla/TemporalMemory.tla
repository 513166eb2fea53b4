--------------------------- MODULE TemporalMemory ---------------------------
(***************************************************************************)
(* What the temporal judge promises, as one atomic operation: a proposal   *)
(* of a branch is judged against everything the branch has accumulated,    *)
(* and its own exposure is accumulated in the same instant.                *)
(***************************************************************************)
EXTENDS TemporalContinuity

CONSTANTS Hook, Branch, Proposal

VARIABLES
    memory,     \* the accumulated exposure of each branch
    asked,      \* what each caller asks: a branch and a proposal of it
    answer      \* "NONE", "PENDING", or the vote the caller has got

memoryVars == <<memory, asked, answer>>

MemoryInit ==
    /\ memory = [b \in Branch |-> EmptyFlow]
    /\ asked \in [Hook -> Branch \X Proposal]
    /\ answer = [h \in Hook |-> "NONE"]

Ask(h, b, p) ==
    /\ answer[h] # "PENDING"
    /\ answer' = [answer EXCEPT ![h] = "PENDING"]
    /\ asked' = [asked EXCEPT ![h] = <<b, p>>]
    /\ UNCHANGED memory

Judge(h) ==
    LET b == asked[h][1]
        p == asked[h][2]
    IN  /\ answer[h] = "PENDING"
        /\ answer' = [answer EXCEPT ![h] = TemporalVote(memory[b], p)]
        /\ memory' = [memory EXCEPT ![b] = PostState(@, p)]
        /\ UNCHANGED asked

\* The authorized drain of a branch.
Drain(b) ==
    /\ memory' = [memory EXCEPT ![b] = EmptyFlow]
    /\ UNCHANGED <<asked, answer>>

MemoryNext ==
    \/ \E h \in Hook, b \in Branch, p \in Proposal : Ask(h, b, p)
    \/ \E h \in Hook : Judge(h)
    \/ \E b \in Branch : Drain(b)

MemorySpec == MemoryInit /\ [][MemoryNext]_memoryVars
=============================================================================
