--------------------------- MODULE TemporalLedger ---------------------------
(***************************************************************************)
(* The stateful shell of src/project/temporal_continuity.py as the hook    *)
(* processes run it: TemporalContinuityLedger.evaluate loads the flow file *)
(* of a branch, steps, rewrites the file in place (open truncates it, the  *)
(* text arrives with the close), appends a log row and returns.  There is  *)
(* no lock, so evaluations of parallel tool calls interleave; a process    *)
(* may be killed between any two steps and an OSError makes the caller     *)
(* (_run_temporal of claude_code_hooks.py) go on without a vote.           *)
(***************************************************************************)
EXTENDS TemporalContinuity

CONSTANTS
    Hook,           \* hook processes
    Branch,         \* host-injected docket keys
    Proposal,       \* the proposals the agent can make
    Unreadable,     \* a flow file that is missing, empty or not JSON
    MaxEvents       \* bound on the evaluations of a run

ASSUME LedgerAssumption ==
    /\ Proposal \subseteq CommandProposal
    /\ Proposal # {} /\ Branch # {}
    /\ Unreadable \notin ActorFlowState
    /\ MaxEvents \in Nat

VARIABLES
    disk,       \* disk[b]: the flow file of branch b
    hook,       \* hook[h]: the evaluation process h is in
    events,     \* evaluations begun
    exposed,    \* history: sensitive sources branch b entered since its drain
    reads,      \* history: reads of branch b since its drain
    entered,    \* history: branch b ever asked for a sensitive source
    disturbed   \* history: evaluations of b overlapped, or one failed half-way

vars == <<disk, hook, events, exposed, reads, entered, disturbed>>
history == <<exposed, reads, entered, disturbed>>

InFlight == {"loaded", "opened", "unlinked"}   \* read the file, not yet rewritten it
PC == {"idle", "written", "answered", "unjudged"} \cup InFlight

FlowFile(b) == disk[b]

\* The load of corrupt state starts from nothing.
Load(b) == IF FlowFile(b) = Unreadable THEN EmptyFlow ELSE FlowFile(b)

\* What step answers and saves for the evaluation h is in.
Loaded(h) == hook[h].base
Saved(h) == PostState(Loaded(h), hook[h].proposal)
Answer(h) == TemporalVote(Loaded(h), hook[h].proposal)

Working(b) == {h \in Hook : hook[h].pc \in InFlight /\ hook[h].branch = b}

\* The vote the history of the branch calls for.
Owed(b, p) ==
    IF ~IsExit(p) THEN "PASS"
    ELSE IF exposed[b] \cup PrimarySources(p) # {} THEN "KILL"
    ELSE IF reads[b] >= SoftThreshold THEN "HOLD"
    ELSE "PASS"

-----------------------------------------------------------------------------

Init ==
    /\ disk = [b \in Branch |-> Unreadable]
    /\ hook = [h \in Hook |-> [pc |-> "idle", branch |-> CHOOSE b \in Branch : TRUE,
                               proposal |-> CHOOSE p \in Proposal : TRUE,
                               base |-> EmptyFlow, owed |-> "PASS", calm |-> FALSE]]
    /\ events = 0
    /\ exposed = [b \in Branch |-> {}]
    /\ reads = [b \in Branch |-> 0]
    /\ entered = [b \in Branch |-> FALSE]
    /\ disturbed = [b \in Branch |-> FALSE]

\* evaluate: load the state of the branch and step; step is pure, so base and
\* proposal determine both its results.
Evaluate(h, b, p) ==
    /\ hook[h].pc \in {"idle", "answered", "unjudged"}
    /\ events < MaxEvents
    /\ events' = events + 1
    /\ disturbed' = [disturbed EXCEPT ![b] = @ \/ Working(b) # {}]
    /\ hook' = [hook EXCEPT ![h] = [pc |-> "loaded", branch |-> b, proposal |-> p,
                                    base |-> Load(b), owed |-> Owed(b, p),
                                    calm |-> ~disturbed'[b]]]
    /\ entered' = [entered EXCEPT ![b] = @ \/ PrimarySources(p) # {}]
    /\ UNCHANGED <<disk, exposed, reads>>

Goto(h, pc) == hook' = [hook EXCEPT ![h].pc = pc]

\* save: write_text opens the file, which empties it ...
SaveOpen(h) ==
    /\ hook[h].pc = "loaded"
    /\ Goto(h, "opened")
    /\ disk' = [disk EXCEPT ![hook[h].branch] = Unreadable]
    /\ UNCHANGED <<events, history>>

\* ... and writes the new state at the head of it.  A file another process
\* filled meanwhile is left with its tail when it was the longer one.
SaveWrite(h) ==
    LET b == hook[h].branch
        p == hook[h].proposal
    IN  /\ hook[h].pc \in {"opened", "unlinked"}
        /\ Goto(h, "written")
        /\ IF hook[h].pc = "unlinked" THEN UNCHANGED disk
           ELSE \E text \in {Saved(h)} \cup {t \in {Unreadable} : disk[b] # Unreadable} :
                    disk' = [disk EXCEPT ![b] = text]
        /\ IF hook[h].pc = "unlinked" THEN UNCHANGED <<exposed, reads>>
           ELSE /\ exposed' = [exposed EXCEPT ![b] = @ \cup PrimarySources(p)]
                /\ reads' = [reads EXCEPT ![b] = @ + (IF DidRead(p) THEN 1 ELSE 0)]
        /\ UNCHANGED <<events, entered, disturbed>>

\* _append_ledger writes a row nobody reads back, and evaluate returns.
AppendLedger(h) ==
    /\ hook[h].pc = "written"
    /\ Goto(h, "answered")
    /\ UNCHANGED <<disk, events, history>>

\* An evaluation that stops before its state is on disk disturbs the branch.
Abort(h, pc) ==
    /\ hook[h].pc \in InFlight \cup {"written"}
    /\ Goto(h, pc)
    /\ disturbed' = [disturbed EXCEPT ![hook[h].branch] = @ \/ hook[h].pc \in InFlight]
    /\ UNCHANGED <<disk, events, exposed, reads, entered>>

\* The process is killed (the host's hook timeout, a shutdown).
Crash(h) == Abort(h, "idle")

\* An OSError of open, write or append: _run_temporal answers None.
IOFailure(h) == Abort(h, "unjudged")

\* clear drains a branch: the files are unlinked; a writer that has the state
\* file open keeps writing to a file that has no name any more.
Clear(b) ==
    /\ disk' = [disk EXCEPT ![b] = Unreadable]
    /\ hook' = [h \in Hook |->
                  IF hook[h].branch = b /\ hook[h].pc = "opened"
                  THEN [hook[h] EXCEPT !.pc = "unlinked"] ELSE hook[h]]
    /\ exposed' = [exposed EXCEPT ![b] = {}]
    /\ reads' = [reads EXCEPT ![b] = 0]
    /\ disturbed' = [disturbed EXCEPT ![b] = Working(b) # {}]
    /\ UNCHANGED <<events, entered>>

Step(h) ==
    \/ \E b \in Branch, p \in Proposal : Evaluate(h, b, p)
    \/ SaveOpen(h)
    \/ SaveWrite(h)
    \/ AppendLedger(h)

Next ==
    \/ \E h \in Hook : Step(h) \/ Crash(h) \/ IOFailure(h)
    \/ \E b \in Branch : Clear(b)

Spec == Init /\ [][Next]_vars

\* One tool call at a time and nothing fails: what the unit tests exercise.
Busy == {h \in Hook : hook[h].pc \in InFlight \cup {"written"}}

SerialNext ==
    \/ \E h \in Hook : Busy \subseteq {h} /\ Step(h)
    \/ \E b \in Branch : Busy = {} /\ Clear(b)

-----------------------------------------------------------------------------

TypeOK ==
    /\ disk \in [Branch -> ActorFlowState \cup {Unreadable}]
    /\ hook \in [Hook -> [pc : PC, branch : Branch, proposal : Proposal,
                          base : ActorFlowState, owed : Vote, calm : BOOLEAN]]
    /\ events \in 0..MaxEvents
    /\ exposed \in [Branch -> SUBSET TaintMarker]
    /\ reads \in [Branch -> Nat]
    /\ entered \in [Branch -> BOOLEAN]
    /\ disturbed \in [Branch -> BOOLEAN]

\* The vote of an evaluation that met an undisturbed branch is the one the
\* branch's history calls for: taint once acquired blocks every later exit
\* until it is drained, and tainted artifacts add nothing of their own.
CalmVoteIsOwed ==
    \A h \in Hook : hook[h].pc = "answered" /\ hook[h].calm => Answer(h) = hook[h].owed

\* Whatever overlaps, crashes or is drained: no branch that never asked for a
\* sensitive source has an exit killed, by its own or another branch's state.
NoFalseKill ==
    \A h \in Hook : hook[h].pc = "answered" /\ Answer(h) = "KILL" => entered[hook[h].branch]

\* "The spatial gate forgets; this remembers" (temporal_continuity.py:17):
\* an exit is killed when an earlier evaluation of its branch, complete before
\* this one began, had entered a sensitive source.
RememberedExit ==
    \A h \in Hook : hook[h].pc = "answered" /\ hook[h].owed = "KILL" => Answer(h) = "KILL"

-----------------------------------------------------------------------------
(* One call at a time the files implement the atomic memory: a file that is *)
(* open for writing still counts as what was loaded from it.                *)

Committed(b) ==
    LET opened == {h \in Hook : hook[h].pc = "opened" /\ hook[h].branch = b}
    IN  IF opened = {} THEN Load(b) ELSE hook[CHOOSE h \in opened : TRUE].base

Verdict(h) ==
    CASE hook[h].pc \in {"written", "answered"} -> Answer(h)
      [] hook[h].pc \in InFlight -> "PENDING"
      [] OTHER -> "NONE"

Memory == INSTANCE TemporalMemory WITH
              memory <- [b \in Branch |-> Committed(b)],
              asked <- [h \in Hook |-> <<hook[h].branch, hook[h].proposal>>],
              answer <- [h \in Hook |-> Verdict(h)]
=============================================================================
