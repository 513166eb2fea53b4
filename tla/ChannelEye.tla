----------------------------- MODULE ChannelEye -----------------------------
(***************************************************************************)
(* The channel audit of src/project/llm_channel.py, on one envelope: what  *)
(* is found in its content, in its metadata and in the pass road it may    *)
(* declare, and what becomes of it.  Findings keep their severity: nothing *)
(* else of a finding is looked at later.                                   *)
(***************************************************************************)
EXTENDS CapabilityWall

CONSTANTS
    Recipe,          \* the pass roads the channel eye knows
    RecipeEffects,   \* the effects a recipe covers
    Lane,            \* where the targets of a recipe may lie
    RoadGuarded      \* targets spelled with one of the road's protected tokens

ASSUME EyeAssumption ==
    /\ Recipe \subseteq PassRoad
    /\ RecipeEffects \in [Recipe -> SUBSET {"READ", "WRITE"}]
    /\ Lane \in [Recipe -> SUBSET Path]
    /\ RoadGuarded \subseteq Path

Channel == {"USER_REQUEST", "TOOL_METADATA", "AGENT_PROPOSAL", "REJECTED_FEEDBACK"}

ChannelSeverity == {"CLEAN", "SUSPECT", "CONTAMINATED"}

\* The token tables a content can hit.
ContentToken == {"permission", "poisoning", "execution", "sensitive", "pollution"}

\* What the walks over the metadata can find, the payload within it included.
MetadataMark == {"authority", "divergence", "ambient", "encoded", "composition", "null_path"}

\* form: no declaration, not an object, not declared, declared.  bound: to the
\* envelope's actor; traced: its recipe is among the skills its trace says were
\* used; complete: no step is missing; transparent: every command word is a
\* known daily one; names: the road's network and secret tokens.
PassRoadDeclaration ==
    [form : {"none", "invalid", "undeclared", "declared"}, recipe : Skill, bound : BOOLEAN,
     traced : BOOLEAN, complete : BOOLEAN, transparent : BOOLEAN,
     names : SUBSET {"network", "secret"}]

\* What the eye reads of an envelope; grant: its metadata claims can_execute or
\* can_grant_permission.  effects and target_paths are the metadata's.
Letter == [channel_type : Channel, content : SUBSET ContentToken, blank : BOOLEAN,
           large : BOOLEAN, grant : BOOLEAN, marks : SUBSET MetadataMark,
           from_rejected : BOOLEAN, road : PassRoadDeclaration,
           effects : SUBSET SideEffect, target_paths : SUBSET Path]

Found(severity, when) == {s \in {severity} : when}

-----------------------------------------------------------------------------
(* The declared pass road *)

ProjectLocal(targets) == targets \cap (Url \cup Outside) = {}

\* A faulty variant: the declaration need not be mirrored in the skill trace.
UntracedRoadClear(l) ==
    /\ l.road.form = "declared"
    /\ l.road.recipe \in Recipe
    /\ l.road.bound /\ l.road.complete /\ l.road.transparent

\* Every check but the last one that fails makes the one finding of the road.
PassRoadClear(l) ==
    /\ l.road.form = "declared"
    /\ l.road.recipe \in Recipe
    /\ l.road.bound /\ l.road.traced /\ l.road.complete /\ l.road.transparent
    /\ l.effects \subseteq RecipeEffects[l.road.recipe]
    /\ "WRITE" \in l.effects => l.target_paths # {}
    /\ l.road.names = {}
    /\ l.target_paths \cap RoadGuarded = {}
    /\ ProjectLocal(l.target_paths)
    /\ l.target_paths \subseteq Lane[l.road.recipe]

PassRoadFindings(l) ==
    IF l.road.form = "none" THEN {}
    ELSE Found("CLEAN", PassRoadClear(l)) \cup Found("SUSPECT", ~PassRoadClear(l))

-----------------------------------------------------------------------------
(* Findings and disposition *)

CommonFindings(l) ==
    Found("SUSPECT", l.large \/ l.grant \/ l.marks # {}) \cup PassRoadFindings(l)

AuditUserRequest(l) == Found("SUSPECT", l.content \cap {"permission", "sensitive"} # {})

AuditToolMetadata(l) ==
    Found("CONTAMINATED", l.content \cap {"poisoning", "execution", "permission"} # {})

AuditAgentProposal(l) ==
    Found("SUSPECT", "permission" \in l.content \/ l.blank \/ l.from_rejected)

AuditRejectedFeedback(l) ==
    {"SUSPECT"} \cup Found("CONTAMINATED", l.content \cap {"pollution", "permission"} # {})

ChannelFindings(l) ==
    CommonFindings(l) \cup (CASE l.channel_type = "USER_REQUEST" -> AuditUserRequest(l)
                              [] l.channel_type = "TOOL_METADATA" -> AuditToolMetadata(l)
                              [] l.channel_type = "AGENT_PROPOSAL" -> AuditAgentProposal(l)
                              [] l.channel_type = "REJECTED_FEEDBACK" -> AuditRejectedFeedback(l))

DispositionFor(l) ==
    LET severities == ChannelFindings(l)
    IN  IF "CONTAMINATED" \in severities \/ l.channel_type = "REJECTED_FEEDBACK"
        THEN "QUARANTINE"
        ELSE IF "SUSPECT" \in severities THEN "HOLD"
        ELSE IF l.channel_type = "AGENT_PROPOSAL" THEN "WRAP_PROPOSAL" ELSE "ACCEPT"
=============================================================================
