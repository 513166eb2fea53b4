--------------------------- MODULE CapabilityWall ---------------------------
(***************************************************************************)
(* The capability wall of src/project/capability_wall.py: whether an       *)
(* actor's manifest, which is authority given by the kernel and not by the *)
(* proposal, covers what a proposal would do.  It reads the proposal of    *)
(* the OT gate with token tables of its own, and shares with the gate the  *)
(* two predicates for deletes that may be relaxed.                         *)
(*                                                                         *)
(* A manifest with roots is rooted where the gate's policy is: the         *)
(* program builds both from one project root.  The order in which a        *)
(* proposal lists its targets is abstracted, so where the first bad one    *)
(* decides, the wall has a set of possible verdicts.                       *)
(***************************************************************************)
EXTENDS OTGate

CONSTANTS
    Url,          \* targets that are http or https URLs
    Unresolved,   \* targets no path can be resolved from: a null byte
    Control,      \* within .claude or .codex, of a root or of the home
    Probe,        \* the guard's own leases, receipts, sessions, heartbeats
    Domain,
    NoDomain,     \* the host of a URL without one
    DomainOf,     \* the host of a URL
    Skill,
    PassRoad,     \* skills whose contract binds only when they are used
    NoManifest    \* the policy has none for the actor

ASSUME WallAssumption ==
    /\ Url \cup Unresolved \cup Control \cup Probe \subseteq Path
    /\ Url \cap Unresolved = {}
    /\ NoDomain \notin Domain
    /\ DomainOf \in [Url -> Domain \cup {NoDomain}]
    /\ PassRoad \subseteq Skill

\* The wall's token tables; its external_path table is the gate's.
WallToken == {"write", "delete", "network", "privilege", "secret", "audit",
              "implicit_cwd", "probe"}

\* What a proposal's payload says of the process: nothing, a record that lacks
\* its channel or its time, a complete record.
ProcessRecord == {"absent", "partial", "complete"}

\* The trace of the skills a proposal followed.  skipped, stale and claims are
\* the skills of which a required step is not completed, whose manifest has
\* another hash, of whose denied authority claims one is made.
SkillTrace == [used : SUBSET Skill, required : SUBSET Skill, skipped : SUBSET Skill,
               stale : SUBSET Skill, claims : SUBSET Skill,
               scan : {"PASS", "HOLD", "KILL"}, foreign : BOOLEAN]

Manifest == [allowed_side_effects : SUBSET SideEffect, rooted : BOOLEAN,
             domains : SUBSET Domain, allow_protected_targets : BOOLEAN,
             allow_reversible_delete : BOOLEAN, contracts : SUBSET Skill]

\* The tables of wall and gate overlap: what the gate takes for destructive,
\* privileged, network or .phi text, the wall takes for the same.
TablesAgree(text, hits) ==
    /\ "destructive" \in text => "delete" \in hits
    /\ "privilege" \in text => "privilege" \in hits
    /\ "network" \in text => "network" \in hits
    /\ "protected_path" \in text => "audit" \in hits
    /\ "implicit_cwd" \in hits => "delete" \in hits
    /\ "blank" \in text => hits = {}

Ask == [proposal : CommandProposal, hits : SUBSET WallToken,
        process : ProcessRecord, trace : SkillTrace]

CapabilityDisposition == {"ALLOW", "HOLD", "KILL"}

-----------------------------------------------------------------------------
(* What a proposal asks for *)

\* A faulty variant: the wall has no table of delete commands.
DeclaredDeletesOnly(a) ==
    a.proposal.expected \cup {e \in {"WRITE"} : "write" \in a.hits}

CapabilityEffects(a) ==
    LET base == a.proposal.expected
                \cup {e \in {"WRITE"} : "write" \in a.hits}
                \cup {e \in {"DELETE"} : "delete" \in a.hits}
                \cup {e \in {"NETWORK"} : "network" \in a.hits}
                \cup {e \in {"PRIVILEGE"} : "privilege" \in a.hits}
                \cup {e \in {"SECRET_ACCESS"} : "secret" \in a.hits}
    IN  base \cup {e \in {"AUDIT_CHANGE"} :
                       /\ "audit" \in a.hits
                       /\ base \cap {"WRITE", "DELETE", "PRIVILEGE"} # {}}

\* A target is known, or the effects need none, or the command text says what
\* it acts on without the parser.
ProcessTargetComplete(a) ==
    LET effects == CapabilityEffects(a)
    IN  \/ a.proposal.target_paths # {}
        \/ effects \subseteq {"READ"}
        \/ IF effects \cap {"WRITE", "DELETE", "SECRET_ACCESS", "AUDIT_CHANGE"} # {}
           THEN "implicit_cwd" \in a.hits \/ a.proposal.operands # {}
           ELSE "NETWORK" \notin effects

\* Only a proposal that carries a process record is held to a complete one.
ProcessEquationGap(a) ==
    /\ a.process # "absent"
    /\ \/ a.process = "partial"
       \/ a.proposal.actor_id = NoActor
       \/ "blank" \in a.proposal.text
       \/ CapabilityEffects(a) = {}
       \/ ~ProcessTargetComplete(a)

\* A faulty variant: a delete without a parsed target is not held.
DeleteNeedsNoPath(effects) ==
    effects \cap {"READ", "WRITE", "SECRET_ACCESS", "AUDIT_CHANGE"} # {}

NeedsPath(effects) ==
    effects \cap {"READ", "WRITE", "DELETE", "SECRET_ACCESS", "AUDIT_CHANGE"} # {}

\* The effects whose proposals may not touch the guard's own artifacts.
Minting(effects) == effects \cap {"WRITE", "DELETE", "PRIVILEGE", "AUDIT_CHANGE"} # {}

FileTargets(p) == p.target_paths \ Url

\* The escape hatch: the delete is all that is denied, and the gate's
\* predicates confirm that it is scoped.
ReversibleDelete(a, m) ==
    /\ m.allow_reversible_delete
    /\ CapabilityEffects(a) \ m.allowed_side_effects = {"DELETE"}
    /\ m.rooted
    /\ ScopedSingleFileDelete(a.proposal) \/ ScopedRecursiveDelete(a.proposal)

DeniedEffects(a, m) ==
    IF ReversibleDelete(a, m) THEN {} ELSE CapabilityEffects(a) \ m.allowed_side_effects

-----------------------------------------------------------------------------
(* The verdicts.  "RAISED" is an exception: is_internal_probe_artifact_path *)
(* and is_agent_control_surface_path resolve a target outside any try.      *)

\* A required contract is every one that is not optional or that is used.
AuditSkillContracts(t, m) ==
    LET required == (m.contracts \ PassRoad) \cup t.required \cup (t.used \cap m.contracts)
    IN  IF m.contracts = {} THEN "ALLOW"
        ELSE IF \/ ~(required \subseteq t.used)
                \/ ~(t.used \subseteq m.contracts)
                \/ required \cap (t.skipped \cup t.stale) # {}
             THEN "HOLD"
        ELSE IF t.scan # "PASS" THEN t.scan
        ELSE IF t.foreign /\ required # {} THEN "HOLD"
        ELSE IF required \cap t.claims # {} THEN "KILL"
        ELSE "ALLOW"

\* The commands that may go without a target are plain reads in the project.
AuditWithoutTargets(p, effects) ==
    IF "external_path" \in p.text THEN IF effects = {"READ"} THEN "HOLD" ELSE "KILL"
    ELSE IF effects = {"READ"} THEN "ALLOW"
    ELSE "HOLD"

AuditDomains(p, m, effects) ==
    LET asked == {DomainOf[u] : u \in p.target_paths \cap Url}
    IN  IF "NETWORK" \notin effects THEN "ALLOW"
        ELSE IF asked = {} THEN "HOLD"
        ELSE IF asked \subseteq m.domains THEN "ALLOW"
        ELSE "KILL"

\* A faulty variant: a URL without a host is clear.
UnresolvedTargets(p) == p.target_paths \cap Unresolved

UnclearTargets(p) ==
    (p.target_paths \cap Unresolved)
    \cup {u \in p.target_paths \cap Url : DomainOf[u] = NoDomain}

AuditTargets(p, m, effects) ==
    LET unclear == UnclearTargets(p)
        denied  == {t \in FileTargets(p) \cap (Protected \cup Control) :
                        ~m.allow_protected_targets}
    IN  IF ~m.rooted THEN {"HOLD"}
        ELSE IF NeedsPath(effects) /\ p.target_paths = {}
             THEN {AuditWithoutTargets(p, effects)}
        ELSE IF unclear \cup denied # {}
             THEN {v \in {"HOLD"} : unclear # {}} \cup {v \in {"KILL"} : denied # {}}
        ELSE IF FileTargets(p) \cap Outside # {}
             THEN {IF effects = {"READ"} THEN "HOLD" ELSE "KILL"}
        ELSE {AuditDomains(p, m, effects)}

\* audit_capability: the possible verdicts on ask a under manifest m.
AuditCapability(a, m) ==
    LET p       == a.proposal
        effects == CapabilityEffects(a)
        lost    == p.target_paths \cap Unresolved # {}
        skill   == AuditSkillContracts(a.trace, m)
    IN  IF ProcessEquationGap(a) \/ m = NoManifest THEN {"HOLD"}
        ELSE IF m.allowed_side_effects = {} \/ effects = {} THEN {"HOLD"}
        ELSE IF (effects \ m.allowed_side_effects) \cap {"PRIVILEGE", "AUDIT_CHANGE"} # {}
             THEN {"KILL"}
        ELSE IF Minting(effects) /\ lost THEN {"RAISED"}
        ELSE IF Minting(effects) /\ (FileTargets(p) \cap Probe # {} \/ "probe" \in a.hits)
             THEN {"KILL"}
        ELSE IF ~m.allow_protected_targets /\ lost THEN {"RAISED"}
        ELSE IF ~m.allow_protected_targets /\ FileTargets(p) \cap Control # {} THEN {"KILL"}
        ELSE IF DeniedEffects(a, m) # {} THEN {"KILL"}
        ELSE IF skill # "ALLOW" THEN {skill}
        ELSE AuditTargets(p, m, effects)

-----------------------------------------------------------------------------
(* Properties *)

Passes(a, m) == "ALLOW" \in AuditCapability(a, m)

\* What passes stays within the manifest, whichever table or declaration
\* brought an effect in: each effect is allowed, or is a delete that names its
\* targets, all of them scoped; a change names a target; no file target lies
\* outside the roots or on a protected surface, no change touches the guard's
\* own artifacts; network goes to named, allowed domains; and every contract
\* that is not optional was followed.
WithinManifest(a, m) ==
    LET p       == a.proposal
        effects == CapabilityEffects(a)
    IN  Passes(a, m) =>
            /\ effects \ m.allowed_side_effects # {}
                   => /\ effects \ m.allowed_side_effects = {"DELETE"}
                      /\ \A t \in p.target_paths : ScopedTarget(t)
            /\ effects \cap {"WRITE", "DELETE", "SECRET_ACCESS", "AUDIT_CHANGE"} # {}
                   => p.target_paths # {}
            /\ FileTargets(p) \cap Outside = {}
            /\ m.allow_protected_targets \/ FileTargets(p) \cap (Protected \cup Control) = {}
            /\ Minting(effects) => FileTargets(p) \cap Probe = {}
            /\ "NETWORK" \in effects
                   => /\ p.target_paths \cap Url # {}
                      /\ \A u \in p.target_paths \cap Url : DomainOf[u] \in m.domains
            /\ m.contracts \ PassRoad \subseteq a.trace.used \ a.trace.skipped

\* Wall and gate do not drift apart on deletes: a delete the gate sees in a
\* proposal, for an actor whose manifest does not allow deletes, passes the
\* wall only if the gate's boundary judge does not kill it as destructive.
NoDrift(a, m) ==
    /\ Passes(a, m)
    /\ "DELETE" \in InferredEffects(a.proposal) \ m.allowed_side_effects
    => AuditBoundary(a.proposal).reason_code # "CRITICAL_DESTRUCTIVE_COMMAND"
=============================================================================
