----------------------------- MODULE AuditLayer -----------------------------
(***************************************************************************)
(* LayerKillCooldown of src/project/audit_layer.py: each authority layer   *)
(* may issue one normal kill per branch, within the scopes it owns; a      *)
(* protected critical kill bypasses the cooldown.                          *)
(***************************************************************************)
EXTENDS Naturals

CONSTANT Branch

VARIABLES
    cooldown,       \* cooldown[b]: the layers that have used their kill on b
    normal_kills    \* normal_kills[b][l]: kill events of l on b that were not both
                    \* protected and critical

layerVars == <<cooldown, normal_kills>>

AuditLayer == {"USER", "SOURCE", "MOTION", "REGISTRY", "COMMIT", "LEDGER", "AUTOPSY"}

KillScope == {"USER_CLAIM", "SOURCE_OBJECT", "MOTION_BRANCH", "REGISTRY_IDENTITY",
              "COMMIT_IO", "LEDGER_ESCALATION", "AUTOPSY_INTEGRITY", "PROTECTED_PHI_STORE"}

\* default_layer_authorities: scope and layers; AUTOPSY is report-only.
KillAuthority == {<<"USER", "USER_CLAIM">>, <<"SOURCE", "SOURCE_OBJECT">>,
                  <<"MOTION", "MOTION_BRANCH">>, <<"REGISTRY", "REGISTRY_IDENTITY">>,
                  <<"COMMIT", "COMMIT_IO">>, <<"LEDGER", "LEDGER_ESCALATION">>}
                 \cup {<<l, "PROTECTED_PHI_STORE">> : l \in {"REGISTRY", "COMMIT", "LEDGER"}}

\* object_layer is the layer of the object the kill is aimed at, if there is one.
LayerKillRequest == [layer : AuditLayer, scope : KillScope, branch : Branch,
                     object_layer : AuditLayer \cup {"NONE"},
                     critical : BOOLEAN, protected : BOOLEAN]

IsCritical(r) == r.critical
ProtectedBypass(r) == r.protected /\ IsCritical(r)

\* The object belongs to the layer, or is the protected store of an authority.
OwnObject(r) ==
    \/ r.object_layer = "NONE"
    \/ r.scope = "PROTECTED_PHI_STORE" /\ r.object_layer \in {"REGISTRY", "COMMIT", "LEDGER"}
    \/ r.scope # "PROTECTED_PHI_STORE" /\ r.object_layer = r.layer

CanIssueKill(r) ==
    /\ <<r.layer, r.scope>> \in KillAuthority
    /\ OwnObject(r)
    /\ r.layer \notin cooldown[r.branch] \/ ProtectedBypass(r)

LayerInit ==
    /\ cooldown = [b \in Branch |-> {}]
    /\ normal_kills = [b \in Branch |-> [l \in AuditLayer |-> 0]]

\* A refused request changes nothing.
RecordLayerKill(r) ==
    IF CanIssueKill(r)
    THEN /\ cooldown' = [cooldown EXCEPT ![r.branch] = @ \cup {r.layer}]
         /\ normal_kills' = IF r.protected /\ r.critical THEN normal_kills
                            ELSE [normal_kills EXCEPT ![r.branch][r.layer] = @ + 1]
    ELSE UNCHANGED layerVars

LayerTypeOK ==
    /\ cooldown \in [Branch -> SUBSET AuditLayer]
    /\ normal_kills \in [Branch -> [AuditLayer -> Nat]]

\* "Each authority layer may issue one normal kill per branch"
\* (audit_layer.py:214), and a layer without authority issues none.
OneNormalKill ==
    \A b \in Branch, l \in AuditLayer :
        /\ normal_kills[b][l] <= 1
        /\ normal_kills[b][l] > 0 => \E s \in KillScope : <<l, s>> \in KillAuthority
=============================================================================
