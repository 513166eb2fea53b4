------------------------- MODULE TemporalContinuity -------------------------
(***************************************************************************)
(* The pure core of src/project/temporal_continuity.py: what one proposal  *)
(* does to the accumulated exposure of its branch, and the vote the fourth *)
(* judge casts.  event_count, last_event_id and the evidence strings are   *)
(* receipt metadata the verdict never reads and are left out.              *)
(***************************************************************************)
EXTENDS OTGate

CONSTANT SoftThreshold

ASSUME ThresholdAssumption == SoftThreshold \in Nat

TaintKind == {"SECRET", "PROTECTED", "EXTERNAL", "ARTIFACT"}

\* Hard markers are de-duplicated by (kind, origin_ref).  The digest of a secret
\* access is determined by the command text.
TaintMarker == (TaintKind \X Path) \cup (TaintKind \X CommandText)

\* tainted_artifacts: a path absent from the dictionary maps to {}.
ActorFlowState == [hard_markers : SUBSET TaintMarker,
                   soft_read_count : Nat,
                   tainted_artifacts : [Path -> SUBSET TaintKind]]

EmptyFlow == [hard_markers |-> {},
              soft_read_count |-> 0,
              tainted_artifacts |-> [t \in Path |-> {}]]

-----------------------------------------------------------------------------
(* Facts *)

IsOpaqueExec(p) == Hits(p, {"opaque_exec", "dynamic_exec"})

\* Data leaves by the network or by a mutation outside the project.
IsEgress(p) ==
    \/ "NETWORK" \in InferredEffects(p)
    \/ Mutates(p) /\ PathsOutside(p) # {}

IsExit(p) == IsEgress(p) \/ IsOpaqueExec(p)

\* Sources recognised from the proposal alone.
PrimarySources(p) ==
    {<<"SECRET", t>> : t \in {p.text : e \in InferredEffects(p) \cap {"SECRET_ACCESS"}}}
    \cup {<<"PROTECTED", t>> : t \in ProtectedTargets(p)}
    \cup {<<"EXTERNAL", t>> : t \in PathsOutside(p)}

\* A faulty variant: every path is taken for a tainted artifact.
EveryPathIsArtifact(s, p) ==
    PrimarySources(p) \cup {<<"ARTIFACT", t>> : t \in p.target_paths}

\* ... and sources recognised because the branch wrote the path while tainted.
HardSources(s, p) ==
    PrimarySources(p)
    \cup {<<"ARTIFACT", t>> : t \in {u \in p.target_paths : s.tainted_artifacts[u] # {}}}

DidRead(p) == "READ" \in InferredEffects(p) \/ p.target_paths # {}

-----------------------------------------------------------------------------
(* The continuity step *)

\* Held before the event, or acquired by it.
HeldHard(s, p) == s.hard_markers \cup HardSources(s, p)

\* The vote uses the taint held before the event and what the event acquires.
TemporalVote(s, p) ==
    IF ~IsExit(p) THEN "PASS"
    ELSE IF HeldHard(s, p) # {} THEN "KILL"
    ELSE IF s.soft_read_count >= SoftThreshold THEN "HOLD"
    ELSE "PASS"

Kinds(markers) == {m[1] : m \in markers}

PostState(s, p) ==
    LET hard    == HeldHard(s, p)
        written == IF Mutates(p) /\ hard # {} THEN p.target_paths ELSE {}
    IN  [hard_markers |-> hard,
         soft_read_count |-> s.soft_read_count + (IF DidRead(p) THEN 1 ELSE 0),
         tainted_artifacts |->
             [t \in Path |-> s.tainted_artifacts[t]
                             \cup (IF t \in written THEN Kinds(hard) ELSE {})]]
=============================================================================
