---------------------------- MODULE EvidenceArms ----------------------------
(***************************************************************************)
(* The eight arms of src/project/parallel_audit.py on one action: from the *)
(* adapter's action to the proposal, from the proposal to what each arm    *)
(* says, and from there to the bundle the dual court decides on.  Gate,    *)
(* wall and protect scan read the proposal; command surface, path, network *)
(* and patch scan read the action; each with tables of its own.            *)
(***************************************************************************)
EXTENDS ProtectScan, ChannelEye

CONSTANTS
    Variable,     \* targets spelled with a $ or a %
    Boundary      \* targets with the name of one of the guard's code files

ASSUME ArmsAssumption == Variable \cup Boundary \subseteq Path

Court == INSTANCE DualCourt

ActionType == {"FILE_READ", "FILE_WRITE", "FILE_DELETE", "SHELL", "NETWORK", "REGISTRY"}

\* The arms' own tables; "unclear" is a variable or the word target.
ArmToken == {"network", "secret", "unclear", "weakener"}

\* An ask to the scan, and what only the action says.  Of the proposal the
\* action may leave the effects empty and the scope open.
ActionEnvelope ==
    [proposal : CommandProposal, hits : SUBSET WallToken, process : ProcessRecord,
     trace : SkillTrace, tokens : SUBSET ScanToken, personal : SUBSET Personal,
     sandbox : SandboxRecord, gateway : GatewayRecords,
     action_type : ActionType, scoped : BOOLEAN,
     shell : BOOLEAN,                           \* a shell action or tool
     words : {"known", "opaque", "unknown"},    \* what stands where a command does
     marks : SUBSET ArmToken,
     channel_type : Channel, content : SUBSET ContentToken, large : BOOLEAN,
     claims : SUBSET (MetadataMark \ {"divergence", "null_path"}),
     road : PassRoadDeclaration]

-----------------------------------------------------------------------------
(* From the action to the proposal *)

ActionEffects(a) ==
    IF a.proposal.expected # {} THEN a.proposal.expected
    ELSE CASE a.action_type \in {"FILE_READ", "SHELL"} -> {"READ"}
           [] a.action_type = "FILE_WRITE" -> {"WRITE"}
           [] a.action_type = "FILE_DELETE" -> {"DELETE"}
           [] a.action_type = "NETWORK" -> {"NETWORK"}
           [] a.action_type = "REGISTRY" -> {"AUDIT_CHANGE"}

DefaultDeclaredScope(type) ==
    CASE type \in {"FILE_READ", "SHELL"} -> "READ_ONLY"
      [] type \in {"FILE_WRITE", "FILE_DELETE"} -> "PROJECT_WRITE"
      [] type = "NETWORK" -> "EXTERNAL_IO"
      [] type = "REGISTRY" -> "ADMIN"

\* The process record is filled in unless the payload has one.
ProposalFromAction(a) ==
    [a EXCEPT !.proposal.expected = ActionEffects(a),
              !.proposal.declared_scope = IF a.scoped THEN @
                                          ELSE DefaultDeclaredScope(a.action_type),
              !.process = IF @ = "absent" THEN "complete" ELSE @]

\* The envelope for the channel eye; its command text is not blank.
ToChannelEnvelope(a) ==
    [channel_type |-> a.channel_type, content |-> a.content, blank |-> FALSE, large |-> a.large,
     grant |-> FALSE, from_rejected |-> FALSE, road |-> a.road, effects |-> ActionEffects(a),
     marks |-> a.claims \cup {x \in {"null_path"} : a.proposal.target_paths \cap Unresolved # {}},
     target_paths |-> a.proposal.target_paths]

-----------------------------------------------------------------------------
(* The arms that read the action *)

ChannelTestimony(a) ==
    LET disposition == DispositionFor(ToChannelEnvelope(a))
    IN  IF disposition \in {"QUARANTINE", "HOLD"} THEN disposition ELSE "PASS"

\* Metadata beside the payload is not looked at here.
ArmGateway(a) == LastRecord(a.gateway, {"payload", "harness"})

AuditCommandSurface(a) ==
    IF ~a.shell \/ ArmGateway(a) # NoGateway \/ a.words = "known" THEN "PASS"
    ELSE IF a.words = "opaque" THEN "OPAQUE" ELSE "UNKNOWN"

AuditPathScan(a) ==
    LET targets == a.proposal.target_paths
    IN  IF targets \cap (Unresolved \cup Variable \cup Climbing) # {} THEN "HOLD"
        ELSE IF FileTargets(a.proposal) \cap Outside = {} THEN "PASS"
        ELSE IF ActionEffects(a) \cap {"WRITE", "DELETE"} # {} THEN "KILL" ELSE "HOLD"

\* Only an authenticated, unexposed gateway on this machine may use the network.
LoopbackGateway(a) ==
    LET g     == ArmGateway(a)
        hosts == ({g.bind, g.host} \cup UrlHosts(a.proposal)) \ {NoDomain}
    IN  /\ g # NoGateway /\ g.auth /\ ~g.insecure /\ g.exposure # "public"
        /\ hosts # {} /\ hosts \subseteq Loopback

AuditNetworkScan(a) ==
    IF /\ a.action_type # "NETWORK" /\ "NETWORK" \notin ActionEffects(a)
       /\ Urls(a.proposal) = {} /\ "network" \notin a.marks
    THEN "PASS"
    ELSE IF "secret" \in a.marks THEN "KILL"
    ELSE IF Urls(a.proposal) = {} /\ "unclear" \in a.marks THEN "HOLD"
    ELSE IF LoopbackGateway(a) THEN "PASS" ELSE "HOLD"

\* A faulty variant: a patch that hides nothing is fine.
SilentPatch(a) ==
    IF a.proposal.target_paths \cap Boundary # {} /\ "weakener" \in a.marks
    THEN "KILL" ELSE "PASS"

\* A patch of the guard itself is at best for a human, declared or not.
AuditPatchSurface(a) ==
    IF \/ a.proposal.target_paths \cap Boundary = {}
       \/ ActionEffects(a) \cap {"WRITE", "DELETE"} = {}
    THEN "PASS"
    ELSE IF "weakener" \in a.marks THEN "KILL" ELSE "HOLD"

-----------------------------------------------------------------------------
(* The bundle and the courts *)

GateEvidence(result) ==
    [decision |-> result.decision,
     hold_for_user |-> result.reason_code = "HOLD_FOR_USER_CONFIRMATION",
     hold_votes |-> result.hold_votes]

\* The bundles the courts may be given; none if the wall or the scan raises.
EvidenceBundles(a, m, view, profile) ==
    LET ask     == ProposalFromAction(a)
        protect == AuditProtectScan(ask, profile)
    IN  {[ticket |-> "ADMIT", channel |-> ChannelTestimony(a),
          surface |-> AuditCommandSurface(a),
          gate |-> GateEvidence(AuditCommandProposal(ask.proposal, view)),
          capability |-> IF v = "ALLOW" THEN "PASS" ELSE v,
          path |-> AuditPathScan(a), network |-> AuditNetworkScan(a),
          patch |-> AuditPatchSurface(a), protect |-> protect,
          frame |-> {}, seal |-> {}, access |-> "NONE", process |-> "NONE"] :
             v \in IF protect = "RAISED" THEN {} ELSE AuditCapability(ask, m) \ {"RAISED"}}

CourtsPass(a, m, view, profile) ==
    \E ev \in EvidenceBundles(a, m, view, profile) :
        Court!RunParallelAudit(ev).disposition = "PASS"

-----------------------------------------------------------------------------
(* Properties: what an action is that all eight arms let pass *)

\* The effects the gate or the scan reads into the action.  (What the wall
\* alone sees, the manifest allows.)
SeenEffects(a) ==
    LET ask == ProposalFromAction(a)
    IN  InferredEffects(ask.proposal) \cup ScanEffects(ask)

\* Whatever table an effect comes from, what is left is plain work.  A network
\* effect only the scan sees goes to named loopback hosts, and a secret only
\* the scan sees is on a surface the user has not asked to be protected.
PlainWork(a, m, view, profile) ==
    LET privileged == SeenEffects(a) \cap {"ENV_CHANGE", "PRIVILEGE", "AUDIT_CHANGE"} # {}
        remote     == /\ "NETWORK" \in SeenEffects(a)
                      /\ UrlHosts(a.proposal) = {} \/ ~(UrlHosts(a.proposal) \subseteq Loopback)
        guarded    == /\ a.tokens \cap {"secret", "credential"} # {}
                      /\ {"SECRET_FILES", "CREDENTIAL_FILES"} \subseteq profile.enabled
    IN  privileged \/ remote \/ guarded => ~CourtsPass(a, m, view, profile)

\* Nothing leaves the machine: an action with a URL among its targets passes
\* only if every one of them names a loopback host.
EgressIsLocal(a, m, view, profile) ==
    (\E u \in Urls(a.proposal) : DomainOf[u] \notin Loopback)
        => ~CourtsPass(a, m, view, profile)

\* A declared delete that passes, as the gate's and the wall's hatches let one,
\* is ordinary: none of its targets is outside the
\* project, a root of it, in a store or control surface of the guard, the
\* guard's code or artifacts, or executable git metadata.  The gate's own
\* check of a single file knows the project and its roots only; the rest is
\* for the scan and the path and patch arms to see.
DeleteIsOrdinary(a, m, view, profile) ==
    /\ "DELETE" \in ActionEffects(a)
    /\ FileTargets(a.proposal) \cap (Outside \cup Unscoped \cup Protected \cup Control
                                     \cup Internal \cup Probe \cup GitExec \cup Boundary) # {}
    => ~CourtsPass(a, m, view, profile)

\* An opaque or unknown command passes only where a gateway record stands for
\* it, and then the record the scan believes is authenticated, unexposed and
\* of this machine.
OpaqueHasGateway(a, m, view, profile) ==
    /\ a.shell /\ a.words # "known"
    /\ CourtsPass(a, m, view, profile)
    => LET g == ScanGateway(a)
       IN  /\ g # NoGateway /\ g.auth /\ ~g.insecure /\ g.exposure = "none"
           /\ g.bind \in Loopback \cup {NoDomain}
           /\ g.links \cup UrlHosts(a.proposal) \subseteq Loopback

\* A declared pass road is walked: where the actor's manifest holds contracts,
\* a proposal that declares one passes only if its recipe is among them, the
\* trace says it was used, and no step of it is skipped or out of date.  The
\* eye checks declaration and trace, the wall trace and contract.
RoadIsWalked(a, m, view, profile) ==
    /\ a.road.form # "none" /\ m.contracts # {}
    /\ CourtsPass(a, m, view, profile)
    => /\ a.road.recipe \in m.contracts \cap a.trace.used
       /\ a.road.recipe \notin a.trace.skipped \cup a.trace.stale
       /\ ActionEffects(a) \subseteq RecipeEffects[a.road.recipe]
=============================================================================
