------------------------------- MODULE OTGate -------------------------------
(***************************************************************************)
(* The OT gate of src/project/ot_gate.py: a pure function from one command *)
(* proposal and a policy to an execution decision.  Three judges (intent,  *)
(* boundary, evidence) testify, audit_command_proposal counts the votes.   *)
(*                                                                         *)
(* A proposal keeps what the judges tell apart: the declared scope, the    *)
(* side effects the adapter expects, which token tables of the source its  *)
(* command text hits, and the resolved target paths.  A path is a member   *)
(* of Path; where it lies is given by the sets below.                      *)
(***************************************************************************)
EXTENDS Naturals

CONSTANTS
    Path,           \* resolved target paths
    Outside,        \* not within a project root
    Protected,      \* within a protected store root (.phi)
    RegistryPath,   \* .phi/registry, identity store
    LedgerPath,     \* .phi/ledger, event store
    Unscoped,       \* a project root itself, or a name the shell expands
    Surface,        \* .git .claude .ssh secrets .env and the gate's own modules
    Actor,
    NoActor         \* the blank actor id

ASSUME PathAssumption ==
    /\ Outside \cup Protected \cup Unscoped \cup Surface \subseteq Path
    /\ RegistryPath \cup LedgerPath \subseteq Protected
ASSUME ActorAssumption == NoActor \notin Actor

DeclaredScope == {"READ_ONLY", "PROJECT_WRITE", "ENV_CHANGE", "EXTERNAL_IO", "ADMIN"}

SideEffect == {"READ", "WRITE", "DELETE", "ENV_CHANGE", "NETWORK", "PRIVILEGE",
               "SECRET_ACCESS", "AUDIT_CHANGE"}

\* The token tables a command text can hit; "blank" is the empty command.
Token == {"blank", "destructive", "privilege", "network", "dynamic_exec",
          "env_change", "secret", "audit_bypass", "write", "protected_path",
          "registry_path", "ledger_path", "external_path",
          "delete_verb", "recursive", "expansion", "opaque_exec"}

\* A .phi/registry or .phi/ledger token contains the .phi token.
CommandText == {t \in SUBSET Token :
                  /\ "blank" \in t => t = {"blank"}
                  /\ t \cap {"registry_path", "ledger_path"} # {} => "protected_path" \in t}

\* operands: what delete_command_operands re-reads from the command text ({}
\* stands for None as well: both leave the target list empty).
CommandProposal == [actor_id : Actor \cup {NoActor},
                    declared_scope : DeclaredScope,
                    expected : SUBSET SideEffect,
                    text : CommandText,
                    target_paths : SUBSET Path,
                    operands : SUBSET Path,
                    parent_event_id : BOOLEAN,
                    user_request_id : BOOLEAN]

ActorState == {"ACTIVE", "WARNING", "FROZEN", "BUGCHECK"}

\* What policy.registry says of the proposing actor.
RegistryView == ActorState \cup {"UNKNOWN", "NO_REGISTRY"}

Vote == {"PASS", "HOLD", "KILL"}

-----------------------------------------------------------------------------
(* Facts about a proposal *)

Hits(p, tokens) == p.text \cap tokens # {}

PathsOutside(p) == p.target_paths \cap Outside
ProtectedTargets(p) == p.target_paths \cap Protected

\* The text tables add effects to the declared ones; touching the audit
\* surface or .phi with a write or delete is an audit change.
InferredEffects(p) ==
    LET base == p.expected
                \cup {e \in {"DELETE"} : "destructive" \in p.text}
                \cup {e \in {"WRITE"} : "write" \in p.text}
                \cup {e \in {"ENV_CHANGE"} : "env_change" \in p.text}
                \cup {e \in {"NETWORK"} : "network" \in p.text}
                \cup {e \in {"PRIVILEGE"} : "privilege" \in p.text}
                \cup {e \in {"SECRET_ACCESS"} : "secret" \in p.text}
    IN  base \cup {e \in {"AUDIT_CHANGE"} :
                       /\ Hits(p, {"audit_bypass", "protected_path"})
                       /\ base \cap {"WRITE", "DELETE"} # {}}

Mutates(p) == InferredEffects(p) \cap {"WRITE", "DELETE"} # {}

InProject(t) == t \notin Outside

ScopedTarget(t) == InProject(t) /\ t \notin Unscoped

\* is_scoped_single_file_delete: a delete verb, no recursive or glob marker,
\* and every target a concrete in-project path that is not a root.
ScopedSingleFileDelete(p) ==
    /\ p.target_paths # {}
    /\ "recursive" \notin p.text
    /\ "delete_verb" \in p.text
    /\ \A t \in p.target_paths : ScopedTarget(t)

\* is_scoped_recursive_delete: no expansion the gate cannot see, and every
\* target (or, when the parser dropped them, every re-read operand) in the
\* project and off the protected surfaces.
ScopedRecursiveDelete(p) ==
    LET targets == IF p.target_paths # {} THEN p.target_paths ELSE p.operands
    IN  /\ "expansion" \notin p.text
        /\ "delete_verb" \in p.text
        /\ targets # {}
        /\ \A t \in targets : ScopedTarget(t) /\ t \notin Surface

DownloadAndRun(p) == {"network", "dynamic_exec"} \subseteq p.text

-----------------------------------------------------------------------------
(* The three judges.  A testimony is a vote, a reason and a critical flag. *)

Testimony == [vote : Vote, reason_code : STRING, critical : BOOLEAN]

Says(vote, reason) == [vote |-> vote, reason_code |-> reason, critical |-> FALSE]
SaysCritical(reason) == [vote |-> "KILL", reason_code |-> reason, critical |-> TRUE]

AuditIntent(p) ==
    LET effects == InferredEffects(p)
    IN  IF "blank" \in p.text THEN Says("HOLD", "EMPTY_COMMAND")
        ELSE IF p.declared_scope = "READ_ONLY" /\ effects \ {"READ"} # {}
             THEN Says("KILL", "SCOPE_MISMATCH_SIDE_EFFECT")
        ELSE IF /\ p.declared_scope = "PROJECT_WRITE"
                /\ PathsOutside(p) # {} /\ Mutates(p)
             THEN Says("KILL", "PROJECT_SCOPE_ESCAPE")
        ELSE IF /\ p.declared_scope \in {"READ_ONLY", "PROJECT_WRITE"}
                /\ effects \cap {"PRIVILEGE", "SECRET_ACCESS"} # {}
             THEN SaysCritical("INTENT_PRIVILEGE_OR_SECRET_ESCAPE")
        ELSE Says("PASS", "INTENT_PASS")

\* The boundary judge is an ordered list of early returns.
AuditBoundary(p) ==
    LET effects   == InferredEffects(p)
        phi       == ProtectedTargets(p) # {} \/ "protected_path" \in p.text
        registry  == \/ p.target_paths \cap RegistryPath # {}
                     \/ "registry_path" \in p.text
        ledger    == \/ p.target_paths \cap LedgerPath # {}
                     \/ "ledger_path" \in p.text
        external  == PathsOutside(p) # {} \/ "external_path" \in p.text
        unscoped  == /\ "DELETE" \in effects
                     /\ ~ScopedSingleFileDelete(p)
                     /\ ~ScopedRecursiveDelete(p)
    IN  IF phi /\ Mutates(p) THEN SaysCritical("CRITICAL_PROTECTED_PHI_WRITE")
        ELSE IF registry THEN SaysCritical("CRITICAL_REGISTRY_READ")
        ELSE IF ledger THEN Says("HOLD", "PROTECTED_LEDGER_READ_REQUIRES_APPROVAL")
        ELSE IF phi THEN Says("HOLD", "PROTECTED_PHI_READ_REQUIRES_APPROVAL")
        ELSE IF unscoped THEN SaysCritical("CRITICAL_DESTRUCTIVE_COMMAND")
        ELSE IF "PRIVILEGE" \in effects THEN SaysCritical("CRITICAL_PRIVILEGE_ESCALATION")
        ELSE IF DownloadAndRun(p) THEN SaysCritical("CRITICAL_NETWORK_EXECUTE")
        ELSE IF "SECRET_ACCESS" \in effects THEN SaysCritical("CRITICAL_SECRET_ACCESS")
        ELSE IF "AUDIT_CHANGE" \in effects THEN SaysCritical("CRITICAL_AUDIT_BYPASS")
        ELSE IF external /\ Mutates(p) THEN SaysCritical("CRITICAL_EXTERNAL_WRITE")
        ELSE IF external THEN Says("HOLD", "EXTERNAL_READ_REQUIRES_APPROVAL")
        ELSE IF effects \cap {"ENV_CHANGE", "NETWORK"} # {}
             THEN Says("HOLD", "ENV_OR_NETWORK_REQUIRES_APPROVAL")
        ELSE Says("PASS", "BOUNDARY_PASS")

AuditEvidence(p, view) ==
    IF p.actor_id = NoActor THEN Says("KILL", "MISSING_ACTOR_ID")
    ELSE IF view = "UNKNOWN" THEN Says("KILL", "UNKNOWN_ACTOR")
    ELSE IF view = "FROZEN" THEN Says("KILL", "ACTOR_FROZEN")
    ELSE IF view = "BUGCHECK" THEN SaysCritical("PHI_BUGCHECK_ACTIVE")
    ELSE IF ~(p.parent_event_id /\ p.user_request_id)
         THEN Says("HOLD", "MISSING_PROVENANCE")
    ELSE Says("PASS", "EVIDENCE_PASS")

-----------------------------------------------------------------------------
(* The decision *)

KillVotesRequired == 2

Count(b) == IF b THEN 1 ELSE 0

\* A faulty variant: a frozen actor's single KILL is outvoted.
FrozenIsNotHard == {"MISSING_ACTOR_ID", "UNKNOWN_ACTOR"}

HardIdentityKill == {"MISSING_ACTOR_ID", "UNKNOWN_ACTOR", "ACTOR_FROZEN"}

\* The tally over the three testimonies i, b, e.
Decide(i, b, e) ==
    LET critical == i.critical \/ b.critical \/ e.critical
        kills == Count(i.vote = "KILL") + Count(b.vote = "KILL") + Count(e.vote = "KILL")
        holds == Count(i.vote = "HOLD") + Count(b.vote = "HOLD") + Count(e.vote = "HOLD")
        reasons == {i.reason_code, b.reason_code, e.reason_code}
        reason == IF critical THEN "CRITICAL_KILL"
                  ELSE IF kills >= KillVotesRequired THEN "TWO_JUDGE_KILL"
                  ELSE IF reasons \cap HardIdentityKill # {} THEN "IDENTITY_KILL"
                  ELSE IF "SCOPE_MISMATCH_SIDE_EFFECT" \in reasons THEN "SCOPE_MISMATCH_KILL"
                  ELSE IF holds > 0 THEN "HOLD_FOR_USER_CONFIRMATION"
                  ELSE "ALLOW"
    IN  [decision |-> IF reason = "ALLOW" THEN "ALLOW" ELSE "KILL",
         reason_code |-> reason,
         critical |-> critical,
         kill_votes |-> kills,
         hold_votes |-> holds]

AuditCommandProposal(p, view) ==
    Decide(AuditIntent(p), AuditBoundary(p), AuditEvidence(p, view))

\* Every judge passed an allowed proposal: no single vote is outvoted.  (The
\* tally alone does not give this: one uncritical KILL that is neither an
\* identity nor a scope-mismatch kill would fall through to ALLOW.)
AllowIsUnanimous(p, view) ==
    AuditCommandProposal(p, view).decision = "ALLOW"
        => /\ AuditIntent(p).vote = "PASS"
           /\ AuditBoundary(p).vote = "PASS"
           /\ AuditEvidence(p, view).vote = "PASS"

\* A delete that passes names what it deletes, all of it strictly inside the
\* project, outside the .phi store, and only when the parser lost no target
\* may one of its targets be a control surface.
AllowedDeleteIsScoped(p, view) ==
    /\ AuditCommandProposal(p, view).decision = "ALLOW"
    /\ "DELETE" \in InferredEffects(p)
    => LET targets == IF p.target_paths # {} THEN p.target_paths ELSE p.operands
       IN  /\ targets # {}
           /\ targets \cap (Outside \cup Unscoped) = {}
           /\ p.target_paths \cap Protected = {}
           /\ "recursive" \in p.text => targets \cap Surface = {}

OTGateResult == [decision : {"ALLOW", "KILL"}, reason_code : STRING,
                 critical : BOOLEAN, kill_votes : 0..3, hold_votes : 0..3]
=============================================================================
