----------------------------- MODULE ProtectScan -----------------------------
(***************************************************************************)
(* The protect scan of src/project/protect_scan.py: one more judge of the  *)
(* proposal the gate and the wall see, with effects of its own, read from  *)
(* tables over the whole proposal (command, tool, targets, payload) where  *)
(* the gate reads the command alone.                                       *)
(*                                                                         *)
(* The payload may carry a sandbox and gateway records, which adapters     *)
(* fill in.  A record names all its fields; where several carry one, the   *)
(* later source is believed.                                               *)
(***************************************************************************)
EXTENDS CapabilityWall

CONSTANTS
    Internal,     \* Python modules in the guard's own directory
    GitExec,      \* .git/hooks, .git/config and .git/info of a root
    Climbing,     \* spelled with a step to the parent directory
    Custom,       \* within a path the user has selected
    Loopback,     \* hosts that are this machine
    PublicBind,   \* hosts that stand for every interface
    NoGateway

ASSUME ScanAssumption ==
    /\ Internal \cup GitExec \cup Climbing \cup Custom \subseteq Path
    /\ (Internal \cup GitExec \cup Custom) \cap (Url \cup Unresolved) = {}
    /\ GitExec \subseteq Surface \ Outside
    /\ Loopback \cup PublicBind \subseteq Domain
    /\ Loopback \cap PublicBind = {}

ScanToken == {"write", "delete", "network", "permission", "secret", "credential", "audit",
              "phi", "registry", "ledger", "git_surface"}

\* Surfaces a user may add; the tables of the first four are held against the
\* targets outside the project, and the command when there is no target.
Personal == {"BROWSER_PROFILE", "EMAIL_CACHE", "DEV_FOLDERS", "PERSONAL_DOCUMENTS"}

Optional == Personal \cup {"CUSTOM_PATHS", "SECRET_FILES", "CREDENTIAL_FILES"}

\* pending: its startup confirmation is required and not given.
ProtectScanProfile == [pending : BOOLEAN, enabled : SUBSET Optional]

\* "host": unavailable, with the host as its fallback.
SandboxRecord == {"absent", "available", "unavailable", "host"}

GatewaySource == {"payload", "metadata", "harness"}

\* exposure: "public" under the names public and public_url, "other" under the
\* scan's further names.  links: hosts of the URLs the record names.
Gateway == [auth : BOOLEAN, insecure : BOOLEAN, exposure : {"none", "public", "other"},
            bind : Domain \cup {NoDomain}, host : Domain \cup {NoDomain},
            links : SUBSET Domain]

GatewayRecords == [GatewaySource -> Gateway \cup {NoGateway}]

\* The scan's text contains the gate's, and these tables the gate's.
ScanTablesAgree(text, tokens) ==
    /\ "protected_path" \in text => "phi" \in tokens
    /\ "registry_path" \in text => "registry" \in tokens
    /\ "ledger_path" \in text => "ledger" \in tokens
    /\ "write" \in text => "write" \in tokens

-----------------------------------------------------------------------------
(* What the scan sees *)

ScanEffects(a) ==
    LET base == a.proposal.expected
                \cup {e \in {"WRITE"} : "write" \in a.tokens}
                \cup {e \in {"DELETE"} : "delete" \in a.tokens}
                \cup {e \in {"NETWORK"} : "network" \in a.tokens}
                \cup {e \in {"PRIVILEGE"} : "permission" \in a.tokens}
                \cup {e \in {"SECRET_ACCESS"} : a.tokens \cap {"secret", "credential"} # {}}
    IN  base \cup {e \in {"AUDIT_CHANGE"} :
                       /\ a.tokens \cap {"audit", "phi"} # {}
                       /\ base \cap {"WRITE", "DELETE"} # {}}

Urls(p) == p.target_paths \cap Url
UrlHosts(p) == {DomainOf[u] : u \in Urls(p)} \ {NoDomain}

\* The record of the last source that has one.
LastRecord(records, sources) ==
    IF "harness" \in sources /\ records["harness"] # NoGateway THEN records["harness"]
    ELSE IF "metadata" \in sources /\ records["metadata"] # NoGateway THEN records["metadata"]
    ELSE records["payload"]

ScanGateway(a) == LastRecord(a.gateway, GatewaySource)

\* A faulty variant: a gateway record that says loopback is believed.
EgressSaysLoopback(a) ==
    /\ ScanGateway(a) # NoGateway
    /\ ScanGateway(a).bind \in Loopback

\* Only the targets themselves can show that nothing leaves the machine.
EgressAllLoopback(a) ==
    UrlHosts(a.proposal) # {} /\ UrlHosts(a.proposal) \subseteq Loopback

NetworkPresent(a) ==
    /\ ~EgressAllLoopback(a)
    /\ "NETWORK" \in ScanEffects(a) \/ "network" \in a.tokens \/ Urls(a.proposal) # {}

-----------------------------------------------------------------------------
(* Findings *)

Finds(surface, severity, when) ==
    {f \in {[surface |-> surface, severity |-> severity]} : when}

SeverityForEffects(effects) ==
    IF effects \cap {"WRITE", "DELETE", "PRIVILEGE", "SECRET_ACCESS", "AUDIT_CHANGE"} # {}
    THEN "KILL" ELSE "HOLD"

\* The guard's own modules, git's executable surface, the guard's artifacts.
OwnFindings(a) ==
    LET effects == ScanEffects(a)
        files   == FileTargets(a.proposal)
    IN  Finds("AUDIT_STORE", "KILL",
              \/ Minting(effects) /\ files \cap (Internal \cup Probe) # {}
              \/ Minting(effects) /\ "probe" \in a.hits
              \/ /\ effects \cap {"WRITE", "DELETE"} # {}
                 /\ files \cap GitExec # {} \/ "git_surface" \in a.tokens)

SandboxFindings(a) ==
    LET effects == ScanEffects(a)
        lost    == a.sandbox \in {"unavailable", "host"}
        unsafe  == \/ a.sandbox = "host"
                   \/ effects \cap {"WRITE", "DELETE", "NETWORK", "PRIVILEGE",
                                    "SECRET_ACCESS", "AUDIT_CHANGE"} # {}
    IN  Finds("SANDBOX_BOUNDARY", "KILL", lost /\ unsafe)
        \cup Finds("SANDBOX_BOUNDARY", "HOLD", lost /\ ~unsafe /\ effects = {"READ"})

\* A faulty variant: a gateway is looked at for where it is only.
GatewayPlace(a) ==
    LET g == ScanGateway(a)
    IN  IF g = NoGateway THEN {}
        ELSE Finds("GATEWAY_EXPOSURE", "HOLD",
                   ~(g.links \cup ({g.bind, g.host} \ {NoDomain}) \subseteq Loopback))

\* Public, unauthenticated or insecure is denied, remote is held.
GatewayFindings(a) ==
    LET g     == ScanGateway(a)
        bound == IF g.bind # NoDomain THEN g.bind ELSE g.host
        hosts == ({bound} \ {NoDomain}) \cup g.links \cup UrlHosts(a.proposal)
        open  == \/ g.insecure \/ ~g.auth \/ g.exposure # "none"
                 \/ hosts \cap PublicBind # {}
    IN  IF g = NoGateway THEN {}
        ELSE Finds("GATEWAY_EXPOSURE", "KILL", open)
             \cup Finds("GATEWAY_EXPOSURE", "HOLD",
                        ~open /\ (hosts = {} \/ ~(hosts \subseteq Loopback)))

\* Surfaces that are named in the text or hold a target.
SurfaceFindings(a, profile) ==
    LET effects  == ScanEffects(a)
        severity == SeverityForEffects(effects)
        files    == FileTargets(a.proposal)
        secrets  == a.tokens \cap {"secret", "credential"}
    IN  Finds("PATH_TRAVERSAL", severity, a.proposal.target_paths \cap Climbing # {})
        \cup Finds("CORE_PHI", severity, "phi" \in a.tokens \/ files \cap Protected # {})
        \cup Finds("REGISTRY", "KILL", "registry" \in a.tokens \/ files \cap RegistryPath # {})
        \cup Finds("LEDGER", severity, "ledger" \in a.tokens \/ files \cap LedgerPath # {})
        \cup Finds("AUDIT_STORE", severity, "audit" \in a.tokens \/ files \cap Control # {})
        \cup Finds("PERMISSION_SURFACE", "KILL", "permission" \in a.tokens)
        \cup Finds("SECRET_FILES", "KILL",
                   "SECRET_FILES" \in profile.enabled /\ "secret" \in a.tokens)
        \cup Finds("CREDENTIAL_FILES", "KILL",
                   "CREDENTIAL_FILES" \in profile.enabled /\ "credential" \in a.tokens)
        \cup Finds("NETWORK_EXFIL", IF secrets # {} THEN "KILL" ELSE "HOLD", NetworkPresent(a))
        \cup UNION {Finds(s, severity, TRUE) : s \in profile.enabled \cap a.personal}
        \cup Finds("CUSTOM_PATHS", severity,
                   "CUSTOM_PATHS" \in profile.enabled /\ files \cap Custom # {})

\* A target that cannot be resolved ends the scan before the surfaces.
FindingsFor(a, profile) ==
    OwnFindings(a) \cup SandboxFindings(a) \cup GatewayFindings(a)
    \cup (IF a.proposal.target_paths \cap Unresolved # {}
          THEN Finds("PATH_TRAVERSAL", "HOLD", TRUE)
          ELSE SurfaceFindings(a, profile))

ScanDisposition == {"PASS", "HOLD", "KILL", "RAISED"}

\* "RAISED": the test for the guard's artifacts resolves each file target of a
\* mutation outside any try, the unresolvable ones too.
AuditProtectScan(a, profile) ==
    LET severities == {f.severity : f \in FindingsFor(a, profile)}
    IN  IF profile.pending THEN "HOLD"
        ELSE IF Minting(ScanEffects(a)) /\ a.proposal.target_paths \cap Unresolved # {}
             THEN "RAISED"
        ELSE IF severities = {} THEN "PASS"
        ELSE IF "KILL" \in severities THEN "KILL" ELSE "HOLD"
=============================================================================
