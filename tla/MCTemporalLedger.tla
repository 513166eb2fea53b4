-------------------------- MODULE MCTemporalLedger --------------------------
(***************************************************************************)
(* TLC instance of TemporalLedger.  Five proposals reach every branch of   *)
(* the step: a secret access, a plain read, a network call, a write of an  *)
(* artifact that is later executed, a read outside the project.            *)
(***************************************************************************)
EXTENDS SerialLedger, TLC

CONSTANTS pin, pout, a1, none

MCPath == {pin, pout}
MCOutside == {pout}
MCEmpty == {}
MCActor == {a1}
MCNoActor == none

Ask(text, expected, targets) ==
    [actor_id |-> a1, declared_scope |-> "ADMIN", expected |-> expected,
     text |-> text, target_paths |-> targets, operands |-> {},
     parent_event_id |-> TRUE, user_request_id |-> TRUE]

ReadSecret  == Ask({"secret"}, {"READ"}, {})
ReadPlain   == Ask({}, {"READ"}, {})
Upload      == Ask({"network"}, {}, {})
WriteFile   == Ask({"write"}, {}, {pin})
RunFile     == Ask({"opaque_exec"}, {}, {pin})
ReadOutside == Ask({}, {}, {pout})

MCProposal == {ReadSecret, ReadPlain, Upload, WriteFile, RunFile, ReadOutside}

\* A smaller agent for the interleaved behaviours.
MCFewProposals == {ReadSecret, Upload, WriteFile, RunFile}

HookSymmetry == Permutations(Hook)

Interleaved ==
    \A h \in Hook : hook'[h].proposal \in MCFewProposals \cup {hook[h].proposal}

\* HostNext, with the smaller agent where hooks overlap.
MCNext == HostNext /\ (serial \/ Interleaved)

MCSpec == HostInit /\ [][MCNext]_hostVars

\* Parallel calls alone: no failures, nothing drained.
MCParallelSpec ==
    Init /\ serial = FALSE /\ [][UNCHANGED serial /\ \E h \in Hook : Step(h)]_hostVars
=============================================================================
