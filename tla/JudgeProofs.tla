----------------------------- MODULE JudgeProofs -----------------------------
(***************************************************************************)
(* What the OT gate, the capability wall and the dual court guarantee for  *)
(* every proposal, path layout, manifest and registry answer, whatever     *)
(* they are asked.                                                         *)
(***************************************************************************)
EXTENDS JudgeQuestions, TLAPS

(* The OT gate *)

\* The judges give testimonies, and exactly the critical ones are forced kills.
LEMMA JudgesTestify ==
    ASSUME NEW p, NEW view
    PROVE  /\ AuditIntent(p).vote \in Vote
           /\ AuditBoundary(p).vote \in Vote
           /\ AuditEvidence(p, view).vote \in Vote
           /\ AuditIntent(p).critical \in BOOLEAN
           /\ AuditBoundary(p).critical \in BOOLEAN
           /\ AuditEvidence(p, view).critical \in BOOLEAN
  BY DEF AuditIntent, AuditBoundary, AuditEvidence, Says, SaysCritical, Vote

\* The boundary judge of audit_boundary never kills without the critical flag.
LEMMA BoundaryKillsAreCritical ==
    ASSUME NEW p, AuditBoundary(p).vote = "KILL"
    PROVE  AuditBoundary(p).critical
  BY DEF AuditBoundary, Says, SaysCritical

\* The boundary judge objects whenever the intent judge sees the write leave
\* the project: a scope escape is never the only objection.
LEMMA ScopeEscapeIsAlsoABoundaryMatter ==
    ASSUME NEW p, AuditIntent(p).reason_code = "PROJECT_SCOPE_ESCAPE"
    PROVE  AuditBoundary(p).vote # "PASS"
  <1>1. PathsOutside(p) # {} /\ Mutates(p)
    BY DEF AuditIntent, Says, SaysCritical
  <1>2. QED
    BY <1>1 DEF AuditBoundary, Says, SaysCritical

\* Every KILL of the evidence judge is an identity kill or critical.
LEMMA EvidenceKillsStand ==
    ASSUME NEW p, NEW view, AuditEvidence(p, view).vote = "KILL"
    PROVE  \/ AuditEvidence(p, view).critical
           \/ AuditEvidence(p, view).reason_code \in HardIdentityKill
  BY DEF AuditEvidence, HardIdentityKill, Says, SaysCritical

\* Every KILL of the intent judge is a scope mismatch, a scope escape or critical.
LEMMA IntentKillsStand ==
    ASSUME NEW p, AuditIntent(p).vote = "KILL"
    PROVE  \/ AuditIntent(p).critical
           \/ AuditIntent(p).reason_code \in {"SCOPE_MISMATCH_SIDE_EFFECT", "PROJECT_SCOPE_ESCAPE"}
  BY DEF AuditIntent, Says, SaysCritical

\* No proposal is allowed over the objection of a judge: audit_command_proposal
\* answers ALLOW only when intent, boundary and evidence all pass.
THEOREM AllowUnanimity ==
    ASSUME NEW p, NEW view
    PROVE  AllowIsUnanimous(p, view)
  <1> DEFINE i == AuditIntent(p)
             b == AuditBoundary(p)
             e == AuditEvidence(p, view)
  <1> SUFFICES ASSUME Decide(i, b, e).decision = "ALLOW"
               PROVE  i.vote = "PASS" /\ b.vote = "PASS" /\ e.vote = "PASS"
    BY DEF AllowIsUnanimous, AuditCommandProposal
  <1>1. i.vote \in Vote /\ b.vote \in Vote /\ e.vote \in Vote
    BY JudgesTestify
  <1> HIDE DEF i, b, e
  <1>2. /\ ~(i.critical \/ b.critical \/ e.critical)
        /\ {i.reason_code, b.reason_code, e.reason_code} \cap HardIdentityKill = {}
        /\ "SCOPE_MISMATCH_SIDE_EFFECT" \notin {i.reason_code, b.reason_code, e.reason_code}
        /\ Count(i.vote = "HOLD") + Count(b.vote = "HOLD") + Count(e.vote = "HOLD") <= 0
    BY <1>1 DEF Decide, Count, Vote
  <1>3. i.vote # "HOLD" /\ b.vote # "HOLD" /\ e.vote # "HOLD"
    BY <1>1, <1>2 DEF Count, Vote
  <1>4. b.vote = "PASS"
    BY <1>1, <1>2, <1>3, BoundaryKillsAreCritical DEF b, Vote
  <1>5. e.vote = "PASS"
    BY <1>1, <1>2, <1>3, EvidenceKillsStand DEF e, Vote
  <1>6. i.vote # "KILL"
    BY <1>2, <1>4, IntentKillsStand, ScopeEscapeIsAlsoABoundaryMatter DEF i, b
  <1>7. QED
    BY <1>1, <1>3, <1>4, <1>5, <1>6 DEF Vote

\* What a boundary judge that passes has found: a delete is scoped, and
\* nothing that changes anything touches .phi.
LEMMA BoundaryPassMeans ==
    ASSUME NEW p, AuditBoundary(p).vote = "PASS"
    PROVE  /\ "DELETE" \in InferredEffects(p)
                  => ScopedSingleFileDelete(p) \/ ScopedRecursiveDelete(p)
           /\ ProtectedTargets(p) = {}
  BY DEF AuditBoundary, Says, SaysCritical

\* A delete the gate lets through names its targets, all strictly inside the
\* project, none of them in .phi, none a control surface when it is recursive.
THEOREM AllowedDeletes ==
    ASSUME NEW p, NEW view
    PROVE  AllowedDeleteIsScoped(p, view)
  <1> SUFFICES ASSUME AuditCommandProposal(p, view).decision = "ALLOW",
                      "DELETE" \in InferredEffects(p)
               PROVE  LET targets == IF p.target_paths # {} THEN p.target_paths ELSE p.operands
                      IN  /\ targets # {}
                          /\ targets \cap (Outside \cup Unscoped) = {}
                          /\ p.target_paths \cap Protected = {}
                          /\ "recursive" \in p.text => targets \cap Surface = {}
    BY DEF AllowedDeleteIsScoped
  <1>1. AuditBoundary(p).vote = "PASS"
    BY AllowUnanimity DEF AllowIsUnanimous
  <1>2. p.target_paths \cap Protected = {}
    BY <1>1, BoundaryPassMeans DEF ProtectedTargets
  <1>3. CASE ScopedSingleFileDelete(p)
    BY <1>2, <1>3 DEF ScopedSingleFileDelete, ScopedTarget, InProject
  <1>4. CASE ScopedRecursiveDelete(p)
    BY <1>2, <1>4 DEF ScopedRecursiveDelete, ScopedTarget, InProject
  <1>5. QED
    BY <1>1, <1>3, <1>4, BoundaryPassMeans

-----------------------------------------------------------------------------
(* The capability wall *)

\* What the wall has made sure of when it may answer ALLOW.
LEMMA PassMeans ==
    ASSUME NEW a, NEW m, Passes(a, m)
    PROVE  LET p == a.proposal
               effects == CapabilityEffects(a)
           IN  /\ DeniedEffects(a, m) = {}
               /\ Minting(effects) => FileTargets(p) \cap Probe = {}
               /\ AuditSkillContracts(a.trace, m) = "ALLOW"
               /\ "ALLOW" \in AuditTargets(p, m, effects)
  <1> DEFINE p == a.proposal
             effects == CapabilityEffects(a)
             skill == AuditSkillContracts(a.trace, m)
  <1>1. "ALLOW" \in AuditCapability(a, m)
    BY DEF Passes
  <1>2. /\ DeniedEffects(a, m) = {}
        /\ Minting(effects) => FileTargets(p) \cap Probe = {}
        /\ "ALLOW" \in (IF skill # "ALLOW" THEN {skill} ELSE AuditTargets(p, m, effects))
    BY <1>1 DEF AuditCapability
  <1>3. QED
    BY <1>2

\* What the target judge has made sure of when it may answer ALLOW.
LEMMA TargetsPassMeans ==
    ASSUME NEW p, NEW m, NEW effects, "ALLOW" \in AuditTargets(p, m, effects)
    PROVE  /\ effects \cap {"WRITE", "DELETE", "SECRET_ACCESS", "AUDIT_CHANGE"} # {}
                  => p.target_paths # {}
           /\ FileTargets(p) \cap Outside = {}
           /\ m.allow_protected_targets \/ FileTargets(p) \cap (Protected \cup Control) = {}
           /\ "NETWORK" \in effects
                  => /\ p.target_paths \cap Url # {}
                     /\ \A u \in p.target_paths \cap Url : DomainOf[u] \in m.domains
  <1>1. CASE p.target_paths = {}
    <2>1. FileTargets(p) = {}
      BY <1>1 DEF FileTargets
    <2>2. CASE NeedsPath(effects)
      <3>1. AuditWithoutTargets(p, effects) = "ALLOW"
        BY <1>1, <2>2 DEF AuditTargets
      <3>2. effects = {"READ"}
        BY <3>1 DEF AuditWithoutTargets
      <3>3. QED
        BY <2>1, <3>2
    <2>3. CASE ~NeedsPath(effects)
      <3>1. AuditDomains(p, m, effects) = "ALLOW"
        BY <1>1, <2>1, <2>3 DEF AuditTargets
      <3>2. "NETWORK" \notin effects
        BY <1>1, <3>1 DEF AuditDomains
      <3>3. QED
        BY <2>1, <2>3, <3>2 DEF NeedsPath
    <2>4. QED
      BY <2>2, <2>3
  <1>2. CASE p.target_paths # {}
    <2> DEFINE denied == {t \in FileTargets(p) \cap (Protected \cup Control) :
                              ~m.allow_protected_targets}
    <2>1. /\ denied = {}
          /\ FileTargets(p) \cap Outside = {}
          /\ AuditDomains(p, m, effects) = "ALLOW"
      BY <1>2 DEF AuditTargets
    <2>2. "NETWORK" \in effects
             => LET asked == {DomainOf[u] : u \in p.target_paths \cap Url}
                IN  asked # {} /\ asked \subseteq m.domains
      BY <2>1 DEF AuditDomains
    <2>3. QED
      BY <1>2, <2>1, <2>2
  <1>3. QED
    BY <1>1, <1>2

\* What audit_capability passes stays within the manifest.
THEOREM PassesWithin ==
    ASSUME NEW a, NEW m
    PROVE  WithinManifest(a, m)
  <1> DEFINE p == a.proposal
             effects == CapabilityEffects(a)
             rejected == effects \ m.allowed_side_effects
  <1> SUFFICES ASSUME Passes(a, m)
               PROVE  /\ rejected # {}
                             => /\ rejected = {"DELETE"}
                                /\ \A t \in p.target_paths : ScopedTarget(t)
                      /\ effects \cap {"WRITE", "DELETE", "SECRET_ACCESS", "AUDIT_CHANGE"} # {}
                             => p.target_paths # {}
                      /\ FileTargets(p) \cap Outside = {}
                      /\ m.allow_protected_targets
                             \/ FileTargets(p) \cap (Protected \cup Control) = {}
                      /\ Minting(effects) => FileTargets(p) \cap Probe = {}
                      /\ "NETWORK" \in effects
                             => /\ p.target_paths \cap Url # {}
                                /\ \A u \in p.target_paths \cap Url : DomainOf[u] \in m.domains
                      /\ m.contracts \ PassRoad \subseteq a.trace.used \ a.trace.skipped
    BY DEF WithinManifest
  <1>1. rejected # {}
           => /\ rejected = {"DELETE"}
              /\ \A t \in p.target_paths : ScopedTarget(t)
    <2> SUFFICES ASSUME rejected # {}
                 PROVE  rejected = {"DELETE"} /\ \A t \in p.target_paths : ScopedTarget(t)
      OBVIOUS
    <2>1. ReversibleDelete(a, m)
      BY PassMeans DEF DeniedEffects
    <2>2. QED
      BY <2>1 DEF ReversibleDelete, ScopedSingleFileDelete, ScopedRecursiveDelete
  <1>2. m.contracts \ PassRoad \subseteq a.trace.used \ a.trace.skipped
    <2>1. AuditSkillContracts(a.trace, m) = "ALLOW"
      BY PassMeans
    <2>2. QED
      BY <2>1 DEF AuditSkillContracts
  <1>3. "ALLOW" \in AuditTargets(p, m, effects) /\ (Minting(effects) => FileTargets(p) \cap Probe = {})
    BY PassMeans
  <1> HIDE DEF p, effects
  <1>4. QED
    BY <1>1, <1>2, <1>3, TargetsPassMeans

\* Wall and gate do not drift apart on deletes, as long as the wall's delete
\* table takes for a delete what the gate's takes for destructive.
THEOREM DeletesTogether ==
    ASSUME NEW a, NEW m, TablesAgree(a.proposal.text, a.hits)
    PROVE  NoDrift(a, m)
  <1> DEFINE p == a.proposal
  <1> SUFFICES ASSUME Passes(a, m),
                      "DELETE" \in InferredEffects(p) \ m.allowed_side_effects
               PROVE  AuditBoundary(p).reason_code # "CRITICAL_DESTRUCTIVE_COMMAND"
    BY DEF NoDrift
  <1>1. "DELETE" \in CapabilityEffects(a)
    BY DEF InferredEffects, CapabilityEffects, TablesAgree
  <1>2. ReversibleDelete(a, m)
    BY <1>1, PassMeans DEF DeniedEffects
  <1>3. ScopedSingleFileDelete(p) \/ ScopedRecursiveDelete(p)
    BY <1>2 DEF ReversibleDelete
  <1>4. QED
    BY <1>3 DEF AuditBoundary, Says, SaysCritical

-----------------------------------------------------------------------------
(* The dual court *)

\* What the court is asked of an action.
LEMMA ProposalOfAction ==
    ASSUME NEW a \in ActionEnvelope
    PROVE  LET ask == ProposalFromAction(a)
           IN  /\ ask.proposal.expected = ActionEffects(a)
               /\ ask.proposal.text = a.proposal.text
               /\ ask.proposal.target_paths = a.proposal.target_paths
               /\ ask.proposal.operands = a.proposal.operands
               /\ ask.hits = a.hits /\ ask.trace = a.trace /\ ask.tokens = a.tokens
               /\ ask.personal = a.personal /\ ask.sandbox = a.sandbox
               /\ ask.gateway = a.gateway
  <1>1. a.proposal \in CommandProposal
    BY DEF ActionEnvelope
  <1>2. QED
    BY <1>1 DEF ProposalFromAction, ActionEnvelope, CommandProposal

\* The strongest of some words is one of them, and none is stronger.
LEMMA StrongestIsTop ==
    ASSUME NEW ds \in SUBSET Court!Disposition, ds # {}
    PROVE  /\ Court!Strongest(ds) \in ds
           /\ \A e \in ds : Court!Rank[e] <= Court!Rank[Court!Strongest(ds)]
  <1> DEFINE Top(d) == d \in ds /\ \A e \in ds : Court!Rank[e] <= Court!Rank[d]
  <1>0. /\ Court!Rank["PASS"] = 1 /\ Court!Rank["HOLD"] = 2 /\ Court!Rank["QUARANTINE"] = 3
        /\ Court!Rank["KILL"] = 4 /\ Court!Rank["REJECT"] = 5
    BY DEF Court!Rank
  <1>1. \E d : Top(d)
    <2>1. CASE "REJECT" \in ds
      BY <2>1, <1>0 DEF Court!Disposition
    <2>2. CASE "REJECT" \notin ds /\ "KILL" \in ds
      BY <2>2, <1>0 DEF Court!Disposition
    <2>3. CASE "REJECT" \notin ds /\ "KILL" \notin ds /\ "QUARANTINE" \in ds
      BY <2>3, <1>0 DEF Court!Disposition
    <2>4. CASE ds \subseteq {"PASS", "HOLD"} /\ "HOLD" \in ds
      BY <2>4, <1>0
    <2>5. CASE ds = {"PASS"}
      BY <2>5, <1>0
    <2>6. QED
      BY <2>1, <2>2, <2>3, <2>4, <2>5 DEF Court!Disposition
  <1>2. QED
    BY <1>1, Zenon DEF Court!Strongest

\* The strongest of some words is PASS only if all are.
LEMMA OnlyPasses ==
    ASSUME NEW ds \in SUBSET Court!Disposition, ds # {}, Court!Strongest(ds) = "PASS"
    PROVE  ds = {"PASS"}
  <1>1. "PASS" \in ds /\ \A e \in ds : Court!Rank[e] <= Court!Rank["PASS"]
    BY StrongestIsTop, Zenon
  <1>2. ASSUME NEW e \in ds, e # "PASS" PROVE FALSE
    <2>1. Court!Rank[e] <= Court!Rank["PASS"]
      BY <1>1, Zenon
    <2>2. e \in {"HOLD", "QUARANTINE", "KILL", "REJECT"}
      BY <1>2 DEF Court!Disposition
    <2>3. QED
      BY <2>1, <2>2 DEF Court!Rank
  <1>3. QED
    BY <1>1, <1>2

\* What a court goes on: its own testimonies, or the missing one.
LEMMA CourtTestifies ==
    ASSUME NEW ts \in SUBSET Court!Testimony, NEW stages
    PROVE  /\ Court!Court(stages, ts) # {}
           /\ Court!Court(stages, ts) \in SUBSET Court!Testimony
           /\ \A t \in ts : t.stage \in stages => t \in Court!Court(stages, ts)
  <1> DEFINE own == {t \in ts : t.stage \in stages}
  <1>1. Court!Missing \in Court!Testimony
    BY DEF Court!Missing, Court!Says, Court!Testimony, Court!Stage, Court!Disposition
  <1>2. CASE own = {}
    BY <1>1, <1>2 DEF Court!Court
  <1>3. CASE own # {}
    BY <1>3 DEF Court!Court
  <1>4. QED
    BY <1>2, <1>3

\* The primary testimony of a court carries its strongest word.
LEMMA PrimarySpeaks ==
    ASSUME NEW ts
    PROVE  Court!Primary(ts).disposition = Court!Strongest({t.disposition : t \in ts})
  BY Zenon DEF Court!Primary, Court!Says

\* A verdict is what one of the court's testimonies says, and is PASS only if
\* all of them pass.
LEMMA CourtSpeaks ==
    ASSUME NEW court \in SUBSET Court!Testimony, court # {}
    PROVE  /\ Court!Verdict(court) \in Court!Disposition
           /\ \E t \in court : t.disposition = Court!Verdict(court)
           /\ Court!Verdict(court) = "PASS" => \A t \in court : t.disposition = "PASS"
  <1> DEFINE words == {t.disposition : t \in court}
  <1>1. words \in SUBSET Court!Disposition /\ words # {}
    BY DEF Court!Testimony
  <1>2. Court!Verdict(court) = Court!Strongest(words)
    BY PrimarySpeaks DEF Court!Verdict
  <1>3. Court!Strongest(words) \in words
    BY <1>1, StrongestIsTop
  <1>4. Court!Strongest(words) = "PASS" => words = {"PASS"}
    BY <1>1, OnlyPasses
  <1>5. QED
    BY <1>1, <1>2, <1>3, <1>4

\* The decision is PASS only if every testimony a court hears passes.
LEMMA DecisionPasses ==
    ASSUME NEW ts \in SUBSET Court!Testimony, Court!DecisionFrom(ts).disposition = "PASS",
           NEW t \in ts, t.stage \in Court!OTCourtStages \cup Court!DecodeCourtStages
    PROVE  t.disposition = "PASS"
  <1> DEFINE ot        == Court!Court(Court!OTCourtStages, ts)
             decode    == Court!Court(Court!DecodeCourtStages, ts)
             both      == {Court!Verdict(ot), Court!Verdict(decode)}
             strongest == Court!Strongest(both)
             speaking  == {u \in UNION {c \in {ot, decode} : Court!Verdict(c) = strongest} :
                               u.disposition = strongest}
  <1> HIDE DEF ot, decode
  <1>1. /\ ot # {} /\ ot \in SUBSET Court!Testimony
        /\ decode # {} /\ decode \in SUBSET Court!Testimony
        /\ t \in ot \cup decode
    BY CourtTestifies DEF ot, decode
  <1>2. both \in SUBSET Court!Disposition /\ both # {}
    BY <1>1, CourtSpeaks
  <1>3. strongest \in both
    BY <1>2, StrongestIsTop
  <1>4. \E c \in {ot, decode} : Court!Verdict(c) = strongest
    BY <1>3
  <1>5. speaking # {}
    <2>1. PICK c \in {ot, decode} : Court!Verdict(c) = strongest
      BY <1>4
    <2>2. PICK u \in c : u.disposition = strongest
      BY <1>1, <2>1, CourtSpeaks
    <2>3. QED
      BY <2>1, <2>2
  <1>6. {u.disposition : u \in speaking} = {strongest}
    BY <1>5
  <1>7. Court!DecisionFrom(ts).disposition = Court!Primary(speaking).disposition
    BY Zenon DEF Court!DecisionFrom, ot, decode
  <1>8. Court!Strongest({strongest}) = strongest
    BY <1>2, <1>3, StrongestIsTop
  <1>9. strongest = "PASS"
    BY <1>6, <1>7, <1>8, PrimarySpeaks
  <1>10. both = {"PASS"}
    BY <1>2, <1>9, OnlyPasses
  <1>11. QED
    BY <1>1, <1>10, CourtSpeaks

-----------------------------------------------------------------------------
(* The eight arms *)

\* The wall answers with a verdict or raises.
LEMMA WallVerdicts ==
    ASSUME NEW a, NEW m, a.trace \in SkillTrace
    PROVE  AuditCapability(a, m) \subseteq {"ALLOW", "HOLD", "KILL", "RAISED"}
  <1>1. AuditSkillContracts(a.trace, m) \in {"ALLOW", "HOLD", "KILL"}
    <2>1. a.trace.scan \in {"PASS", "HOLD", "KILL"}
      BY DEF SkillTrace
    <2>2. QED
      BY <2>1 DEF AuditSkillContracts
  <1>2. \A p, e : AuditTargets(p, m, e) \subseteq {"ALLOW", "HOLD", "KILL"}
    BY DEF AuditTargets, AuditWithoutTargets, AuditDomains
  <1>3. QED
    BY <1>1, <1>2 DEF AuditCapability

\* The protect scan answers with a verdict or raises.
LEMMA ScanVerdicts ==
    ASSUME NEW a, NEW profile
    PROVE  AuditProtectScan(a, profile) \in {"PASS", "HOLD", "KILL", "RAISED"}
  BY DEF AuditProtectScan

\* A bundle of words: the courts pass it only if it holds nothing but PASS.
LEMMA BundlePasses ==
    ASSUME NEW ev,
           ev.ticket = "ADMIT",
           ev.channel \in Court!Disposition, ev.capability \in Court!Disposition,
           ev.path \in Court!Disposition, ev.network \in Court!Disposition,
           ev.patch \in Court!Disposition, ev.protect \in Court!Disposition,
           Court!RunParallelAudit(ev).disposition = "PASS"
    PROVE  /\ ev.channel = "PASS" /\ ev.surface = "PASS" /\ ev.gate.decision = "ALLOW"
           /\ ev.capability = "PASS" /\ ev.path = "PASS" /\ ev.network = "PASS"
           /\ ev.patch = "PASS" /\ ev.protect = "PASS"
  <1> DEFINE ts == Court!Heard(ev)
  <1>1. /\ Court!GateDisposition(ev.gate) \in Court!Disposition
        /\ Court!SurfaceDisposition(ev) \in Court!Disposition
        /\ Court!AdmissionDisposition(ev.ticket) \in Court!Disposition
    BY DEF Court!GateDisposition, Court!SurfaceDisposition, Court!AdmissionDisposition,
           Court!Disposition
  <1>2. ts = {Court!Says("ADMISSION", Court!AdmissionDisposition(ev.ticket))}
             \cup Court!Bundle(ev)
    BY DEF Court!Heard
  <1>3. \A stage \in Court!Stage, d \in Court!Disposition :
           /\ Court!Says(stage, d) \in Court!Testimony
           /\ Court!Says(stage, d).stage = stage /\ Court!Says(stage, d).disposition = d
    BY DEF Court!Says, Court!Testimony
  <1>4. {"ADMISSION", "CHANNEL_AUDIT", "COMMAND_SURFACE", "OT_GATE", "CAPABILITY_PRECHECK",
         "PATH_SCAN", "NETWORK_SCAN", "PATCH_AUDIT", "PROTECT_SCAN"} \subseteq Court!Stage
    BY DEF Court!Stage, Court!OTCourtStages, Court!DecodeCourtStages
  <1>5. ts \in SUBSET Court!Testimony
    BY <1>1, <1>2, <1>3, <1>4 DEF Court!Bundle
  <1>6. Court!DecisionFrom(ts).disposition = "PASS"
    BY DEF Court!RunParallelAudit
  <1>7. ASSUME NEW t \in Court!Bundle(ev),
               t.stage \in Court!OTCourtStages \cup Court!DecodeCourtStages
        PROVE  t.disposition = "PASS"
    BY <1>2, <1>5, <1>6, <1>7, DecisionPasses
  <1>8. ASSUME NEW stage \in {"CHANNEL_AUDIT", "COMMAND_SURFACE", "OT_GATE",
                              "CAPABILITY_PRECHECK", "PATH_SCAN", "NETWORK_SCAN",
                              "PATCH_AUDIT", "PROTECT_SCAN"},
               NEW d \in Court!Disposition, Court!Says(stage, d) \in Court!Bundle(ev)
        PROVE  d = "PASS"
    <2>1. stage \in Court!OTCourtStages \cup Court!DecodeCourtStages
      BY DEF Court!OTCourtStages, Court!DecodeCourtStages
    <2>2. QED
      BY <2>1, <1>3, <1>4, <1>7, <1>8
  <1>9. /\ ev.channel = "PASS" /\ Court!SurfaceDisposition(ev) = "PASS"
        /\ Court!GateDisposition(ev.gate) = "PASS"
        /\ ev.capability = "PASS" /\ ev.path = "PASS" /\ ev.network = "PASS"
        /\ ev.patch = "PASS" /\ ev.protect = "PASS"
    BY <1>1, <1>8 DEF Court!Bundle
  <1>10. QED
    BY <1>9 DEF Court!SurfaceDisposition, Court!GateDisposition

\* The courts pass an action only if each of the eight arms does.
LEMMA ArmsPass ==
    ASSUME NEW a \in ActionEnvelope, NEW m, NEW view, NEW profile,
           CourtsPass(a, m, view, profile)
    PROVE  LET ask == ProposalFromAction(a)
           IN  /\ ChannelTestimony(a) = "PASS"
               /\ AuditCommandSurface(a) = "PASS"
               /\ AuditCommandProposal(ask.proposal, view).decision = "ALLOW"
               /\ Passes(ask, m)
               /\ AuditPathScan(a) = "PASS"
               /\ AuditNetworkScan(a) = "PASS"
               /\ AuditPatchSurface(a) = "PASS"
               /\ AuditProtectScan(ask, profile) = "PASS"
  <1> DEFINE ask     == ProposalFromAction(a)
             protect == AuditProtectScan(ask, profile)
             gate    == GateEvidence(AuditCommandProposal(ask.proposal, view))
  <1> HIDE DEF ask, protect, gate
  <1>1. PICK ev \in EvidenceBundles(a, m, view, profile) :
                 Court!RunParallelAudit(ev).disposition = "PASS"
    BY DEF CourtsPass
  <1>2. PICK v \in IF protect = "RAISED" THEN {} ELSE AuditCapability(ask, m) \ {"RAISED"} :
           ev = [ticket |-> "ADMIT", channel |-> ChannelTestimony(a),
                 surface |-> AuditCommandSurface(a), gate |-> gate,
                 capability |-> IF v = "ALLOW" THEN "PASS" ELSE v,
                 path |-> AuditPathScan(a), network |-> AuditNetworkScan(a),
                 patch |-> AuditPatchSurface(a), protect |-> protect,
                 frame |-> {}, seal |-> {}, access |-> "NONE", process |-> "NONE"]
    BY <1>1, Zenon DEF EvidenceBundles, ask, protect, gate
  <1>3. protect # "RAISED" /\ v \in AuditCapability(ask, m) \ {"RAISED"}
    BY <1>2
  <1>4. a.trace \in SkillTrace /\ ask.trace = a.trace
    BY ProposalOfAction DEF ask, ActionEnvelope
  <1>5. v \in {"ALLOW", "HOLD", "KILL"}
    BY <1>3, <1>4, WallVerdicts
  <1>6. protect \in {"PASS", "HOLD", "KILL"}
    BY <1>3, ScanVerdicts DEF protect
  <1>7. /\ ChannelTestimony(a) \in Court!Disposition
        /\ AuditPathScan(a) \in Court!Disposition
        /\ AuditNetworkScan(a) \in Court!Disposition
        /\ AuditPatchSurface(a) \in Court!Disposition
    BY DEF ChannelTestimony, AuditPathScan, AuditNetworkScan, AuditPatchSurface,
           Court!Disposition
  <1>8. /\ ev.ticket = "ADMIT" /\ ev.channel = ChannelTestimony(a)
        /\ ev.surface = AuditCommandSurface(a) /\ ev.gate = gate
        /\ ev.capability = (IF v = "ALLOW" THEN "PASS" ELSE v)
        /\ ev.path = AuditPathScan(a) /\ ev.network = AuditNetworkScan(a)
        /\ ev.patch = AuditPatchSurface(a) /\ ev.protect = protect
    BY <1>2
  <1>9. ev.capability \in Court!Disposition /\ ev.protect \in Court!Disposition
    BY <1>5, <1>6, <1>8 DEF Court!Disposition
  <1>10. /\ ev.channel = "PASS" /\ ev.surface = "PASS" /\ ev.gate.decision = "ALLOW"
         /\ ev.capability = "PASS" /\ ev.path = "PASS" /\ ev.network = "PASS"
         /\ ev.patch = "PASS" /\ ev.protect = "PASS"
    BY <1>1, <1>7, <1>8, <1>9, BundlePasses
  <1>11. gate.decision = AuditCommandProposal(ask.proposal, view).decision
    BY DEF gate, GateEvidence
  <1>12. v = "ALLOW"
    BY <1>5, <1>8, <1>10
  <1>13. QED
    BY <1>3, <1>8, <1>10, <1>11, <1>12 DEF Passes, ask, protect

\* A gate that allows has seen no effect it would hold or kill for.
LEMMA GatePasses ==
    ASSUME NEW p, NEW view, AuditCommandProposal(p, view).decision = "ALLOW"
    PROVE  InferredEffects(p) \cap {"ENV_CHANGE", "PRIVILEGE", "AUDIT_CHANGE", "NETWORK"} = {}
  <1>1. AuditBoundary(p).vote = "PASS"
    BY AllowUnanimity DEF AllowIsUnanimous
  <1>2. QED
    BY <1>1 DEF AuditBoundary, Says, SaysCritical

\* A finding that is not made has no reason to be.
LEMMA NothingFound ==
    ASSUME NEW surface, NEW severity, NEW when, Finds(surface, severity, when) = {}
    PROVE  ~when
  BY DEF Finds

\* A scan that passes has found nothing at all.
LEMMA ScanPasses ==
    ASSUME NEW ask, NEW profile, AuditProtectScan(ask, profile) = "PASS"
    PROVE  /\ OwnFindings(ask) = {}
           /\ GatewayFindings(ask) = {}
           /\ SurfaceFindings(ask, profile) = {}
  <1>1. {f.severity : f \in FindingsFor(ask, profile)} = {}
    BY DEF AuditProtectScan
  <1>2. FindingsFor(ask, profile) = {}
    BY <1>1
  <1>3. Finds("PATH_TRAVERSAL", "HOLD", TRUE) # {}
    BY DEF Finds
  <1>4. QED
    BY <1>2, <1>3 DEF FindingsFor

\* What a scan that finds nothing on the surfaces has not seen.
LEMMA SurfacesAreQuiet ==
    ASSUME NEW ask, NEW profile, SurfaceFindings(ask, profile) = {}
    PROVE  /\ "permission" \notin ask.tokens /\ "phi" \notin ask.tokens
           /\ "audit" \notin ask.tokens /\ FileTargets(ask.proposal) \cap Control = {}
           /\ "SECRET_FILES" \in profile.enabled => "secret" \notin ask.tokens
           /\ "CREDENTIAL_FILES" \in profile.enabled => "credential" \notin ask.tokens
           /\ ~NetworkPresent(ask)
  <1> DEFINE severity == SeverityForEffects(ScanEffects(ask))
             exfil    == IF ask.tokens \cap {"secret", "credential"} # {} THEN "KILL" ELSE "HOLD"
             files    == FileTargets(ask.proposal)
  <1> HIDE DEF severity, exfil, files
  <1>1. /\ Finds("CORE_PHI", severity, "phi" \in ask.tokens \/ files \cap Protected # {}) = {}
        /\ Finds("AUDIT_STORE", severity, "audit" \in ask.tokens \/ files \cap Control # {}) = {}
        /\ Finds("PERMISSION_SURFACE", "KILL", "permission" \in ask.tokens) = {}
        /\ Finds("SECRET_FILES", "KILL",
                 "SECRET_FILES" \in profile.enabled /\ "secret" \in ask.tokens) = {}
        /\ Finds("CREDENTIAL_FILES", "KILL",
                 "CREDENTIAL_FILES" \in profile.enabled /\ "credential" \in ask.tokens) = {}
        /\ Finds("NETWORK_EXFIL", exfil, NetworkPresent(ask)) = {}
    BY DEF SurfaceFindings, severity, exfil, files
  <1>2. QED
    BY <1>1, NothingFound DEF files

\* What a scan that finds nothing of its own has not seen changed.
LEMMA OwnIsQuiet ==
    ASSUME NEW ask, OwnFindings(ask) = {}, "DELETE" \in ScanEffects(ask)
    PROVE  FileTargets(ask.proposal) \cap (Internal \cup Probe \cup GitExec) = {}
  <1> DEFINE files == FileTargets(ask.proposal)
             when  == \/ Minting(ScanEffects(ask)) /\ files \cap (Internal \cup Probe) # {}
                      \/ Minting(ScanEffects(ask)) /\ "probe" \in ask.hits
                      \/ /\ ScanEffects(ask) \cap {"WRITE", "DELETE"} # {}
                         /\ files \cap GitExec # {} \/ "git_surface" \in ask.tokens
  <1>1. Finds("AUDIT_STORE", "KILL", when) = {}
    BY DEF OwnFindings
  <1>2. ~when
    BY <1>1, NothingFound
  <1>3. Minting(ScanEffects(ask))
    BY DEF Minting
  <1>4. QED
    BY <1>2, <1>3

\* A gateway record the scan finds nothing in.
LEMMA GatewayIsQuiet ==
    ASSUME NEW ask, GatewayFindings(ask) = {}, ScanGateway(ask) # NoGateway,
           ScanGateway(ask).exposure \in {"none", "public", "other"}
    PROVE  LET g == ScanGateway(ask)
           IN  /\ g.auth /\ ~g.insecure /\ g.exposure = "none"
               /\ g.bind \in Loopback \cup {NoDomain}
               /\ g.links \cup UrlHosts(ask.proposal) \subseteq Loopback
  <1> DEFINE g     == ScanGateway(ask)
             bound == IF g.bind # NoDomain THEN g.bind ELSE g.host
             hosts == ({bound} \ {NoDomain}) \cup g.links \cup UrlHosts(ask.proposal)
             open  == \/ g.insecure \/ ~g.auth \/ g.exposure # "none"
                      \/ hosts \cap PublicBind # {}
             far   == ~open /\ (hosts = {} \/ ~(hosts \subseteq Loopback))
  <1>1. Finds("GATEWAY_EXPOSURE", "KILL", open) = {} /\ Finds("GATEWAY_EXPOSURE", "HOLD", far) = {}
    BY DEF GatewayFindings
  <1>2. ~open /\ ~far
    BY <1>1, NothingFound
  <1>3. hosts \subseteq Loopback
    BY <1>2
  <1>4. QED
    BY <1>2, <1>3

\* What all eight arms let pass is plain work.
LEMMA PassIsPlain ==
    ASSUME NEW a \in ActionEnvelope, NEW m, NEW view, NEW profile
    PROVE  PlainWork(a, m, view, profile)
  <1> DEFINE ask == ProposalFromAction(a)
  <1> HIDE DEF ask
  <1> SUFFICES ASSUME CourtsPass(a, m, view, profile)
               PROVE  /\ SeenEffects(a) \cap {"ENV_CHANGE", "PRIVILEGE", "AUDIT_CHANGE"} = {}
                      /\ "NETWORK" \in SeenEffects(a)
                             => UrlHosts(a.proposal) # {} /\ UrlHosts(a.proposal) \subseteq Loopback
                      /\ {"SECRET_FILES", "CREDENTIAL_FILES"} \subseteq profile.enabled
                             => a.tokens \cap {"secret", "credential"} = {}
    BY DEF PlainWork
  <1>1. /\ AuditCommandProposal(ask.proposal, view).decision = "ALLOW"
        /\ AuditProtectScan(ask, profile) = "PASS"
    BY ArmsPass DEF ask
  <1>2. InferredEffects(ask.proposal) \cap {"ENV_CHANGE", "PRIVILEGE", "AUDIT_CHANGE", "NETWORK"} = {}
    BY <1>1, GatePasses
  <1>3. /\ "permission" \notin ask.tokens /\ "phi" \notin ask.tokens /\ "audit" \notin ask.tokens
        /\ "SECRET_FILES" \in profile.enabled => "secret" \notin ask.tokens
        /\ "CREDENTIAL_FILES" \in profile.enabled => "credential" \notin ask.tokens
        /\ ~NetworkPresent(ask)
    BY <1>1, ScanPasses, SurfacesAreQuiet
  <1>4. ask.tokens = a.tokens /\ UrlHosts(ask.proposal) = UrlHosts(a.proposal)
    BY ProposalOfAction DEF ask, UrlHosts, Urls
  <1>5. ask.proposal.expected \subseteq InferredEffects(ask.proposal)
    BY DEF InferredEffects
  <1>6. ScanEffects(ask) \cap {"ENV_CHANGE", "PRIVILEGE", "AUDIT_CHANGE"} = {}
    BY <1>2, <1>3, <1>5 DEF ScanEffects
  <1>7. "NETWORK" \in ScanEffects(ask) => EgressAllLoopback(ask)
    BY <1>3 DEF NetworkPresent
  <1>8. SeenEffects(a) = InferredEffects(ask.proposal) \cup ScanEffects(ask)
    BY DEF SeenEffects, ask
  <1>9. QED
    BY <1>2, <1>3, <1>4, <1>6, <1>7, <1>8 DEF EgressAllLoopback

\* The target judge holds a URL without a host.
LEMMA ClearTargets ==
    ASSUME NEW p, NEW m, NEW effects, "ALLOW" \in AuditTargets(p, m, effects),
           NEW u \in Urls(p)
    PROVE  DomainOf[u] # NoDomain
  <1> DEFINE unclear == UnclearTargets(p)
             denied  == {t \in FileTargets(p) \cap (Protected \cup Control) :
                             ~m.allow_protected_targets}
  <1> SUFFICES ASSUME DomainOf[u] = NoDomain PROVE FALSE
    OBVIOUS
  <1>1. p.target_paths # {} /\ unclear \cup denied # {}
    BY DEF Urls, UnclearTargets
  <1> HIDE DEF unclear, denied
  <1>2. AuditTargets(p, m, effects) \subseteq {"HOLD", "KILL"}
    BY <1>1 DEF AuditTargets, unclear, denied
  <1>3. QED
    BY <1>2

\* Nothing leaves the machine.
LEMMA PassIsLocal ==
    ASSUME NEW a \in ActionEnvelope, NEW m, NEW view, NEW profile
    PROVE  EgressIsLocal(a, m, view, profile)
  <1> DEFINE ask == ProposalFromAction(a)
  <1> HIDE DEF ask
  <1> SUFFICES ASSUME CourtsPass(a, m, view, profile), NEW u \in Urls(a.proposal)
               PROVE  DomainOf[u] \in Loopback
    BY DEF EgressIsLocal
  <1>1. Passes(ask, m) /\ AuditProtectScan(ask, profile) = "PASS"
    BY ArmsPass DEF ask
  <1>2. Urls(ask.proposal) = Urls(a.proposal)
    BY ProposalOfAction DEF ask, Urls
  <1>3. "ALLOW" \in AuditTargets(ask.proposal, m, CapabilityEffects(ask))
    BY <1>1, PassMeans
  <1>4. DomainOf[u] \in UrlHosts(ask.proposal)
    BY <1>2, <1>3, ClearTargets DEF UrlHosts
  <1>5. ~NetworkPresent(ask)
    BY <1>1, ScanPasses, SurfacesAreQuiet
  <1>6. EgressAllLoopback(ask)
    BY <1>2, <1>5 DEF NetworkPresent
  <1>7. QED
    BY <1>4, <1>6 DEF EgressAllLoopback

\* A relaxed delete is ordinary.
LEMMA PassedDeleteIsOrdinary ==
    ASSUME NEW a \in ActionEnvelope, NEW m, NEW view, NEW profile
    PROVE  DeleteIsOrdinary(a, m, view, profile)
  <1> DEFINE ask   == ProposalFromAction(a)
             files == FileTargets(a.proposal)
  <1> HIDE DEF ask
  <1> SUFFICES ASSUME CourtsPass(a, m, view, profile), "DELETE" \in ActionEffects(a)
               PROVE  files \cap (Outside \cup Unscoped \cup Protected \cup Control
                                  \cup Internal \cup Probe \cup GitExec \cup Boundary) = {}
    BY DEF DeleteIsOrdinary
  <1>1. /\ AuditCommandProposal(ask.proposal, view).decision = "ALLOW"
        /\ AuditPathScan(a) = "PASS" /\ AuditPatchSurface(a) = "PASS"
        /\ AuditProtectScan(ask, profile) = "PASS"
    BY ArmsPass DEF ask
  <1>2. /\ ask.proposal.expected = ActionEffects(a)
        /\ ask.proposal.target_paths = a.proposal.target_paths
        /\ FileTargets(ask.proposal) = files
    BY ProposalOfAction DEF ask, FileTargets
  <1>3. files \cap Outside = {}
    BY <1>1 DEF AuditPathScan
  <1>4. files \cap Boundary = {}
    BY <1>1 DEF AuditPatchSurface, FileTargets
  <1>5. files \cap Control = {}
    BY <1>1, <1>2, ScanPasses, SurfacesAreQuiet
  <1>6. "DELETE" \in ScanEffects(ask)
    BY <1>2 DEF ScanEffects
  <1>7. files \cap (Internal \cup Probe \cup GitExec) = {}
    BY <1>1, <1>2, <1>6, ScanPasses, OwnIsQuiet
  <1>8. "DELETE" \in InferredEffects(ask.proposal)
    BY <1>2 DEF InferredEffects
  <1>9. files \cap (Unscoped \cup Protected) = {}
    BY <1>1, <1>2, <1>8, AllowedDeletes DEF AllowedDeleteIsScoped, FileTargets
  <1>10. QED
    BY <1>3, <1>4, <1>5, <1>7, <1>9

\* What cannot be read needs a gateway of this machine.
LEMMA PassedOpaqueHasGateway ==
    ASSUME NEW a \in ActionEnvelope, NEW m, NEW view, NEW profile
    PROVE  OpaqueHasGateway(a, m, view, profile)
  <1> DEFINE ask == ProposalFromAction(a)
             g   == ScanGateway(a)
  <1> HIDE DEF ask, g
  <1> SUFFICES ASSUME a.shell, a.words # "known", CourtsPass(a, m, view, profile)
               PROVE  /\ g # NoGateway /\ g.auth /\ ~g.insecure /\ g.exposure = "none"
                      /\ g.bind \in Loopback \cup {NoDomain}
                      /\ g.links \cup UrlHosts(a.proposal) \subseteq Loopback
    BY DEF OpaqueHasGateway, g
  <1>1. AuditCommandSurface(a) = "PASS" /\ AuditProtectScan(ask, profile) = "PASS"
    BY ArmsPass DEF ask
  <1>2. ScanGateway(ask) = g /\ UrlHosts(ask.proposal) = UrlHosts(a.proposal)
    BY ProposalOfAction DEF ask, g, ScanGateway, UrlHosts, Urls
  <1>3. ArmGateway(a) # NoGateway
    BY <1>1 DEF AuditCommandSurface
  <1>4. g # NoGateway
    BY <1>3 DEF g, ScanGateway, ArmGateway, LastRecord, GatewaySource
  <1>5. g \in Gateway
    <2>1. a.gateway \in GatewayRecords
      BY DEF ActionEnvelope
    <2>2. QED
      BY <1>4, <2>1 DEF g, ScanGateway, LastRecord, GatewayRecords, GatewaySource
  <1>6. g.exposure \in {"none", "public", "other"}
    BY <1>5 DEF Gateway
  <1>7. QED
    BY <1>1, <1>2, <1>4, <1>6, ScanPasses, GatewayIsQuiet

\* An eye that finds nothing suspect has seen a declared road walked.
LEMMA EyePasses ==
    ASSUME NEW a, ChannelTestimony(a) = "PASS", a.road.form # "none"
    PROVE  PassRoadClear(ToChannelEnvelope(a))
  <1> DEFINE l == ToChannelEnvelope(a)
  <1>1. l.road = a.road
    BY DEF ToChannelEnvelope
  <1> HIDE DEF l
  <1>2. DispositionFor(l) \notin {"QUARANTINE", "HOLD"}
    BY DEF ChannelTestimony, l
  <1>3. "SUSPECT" \notin ChannelFindings(l)
    BY <1>2 DEF DispositionFor
  <1>4. "SUSPECT" \notin PassRoadFindings(l)
    BY <1>3 DEF ChannelFindings, CommonFindings
  <1>5. QED
    BY <1>1, <1>4 DEF PassRoadFindings, Found, l

\* A declared pass road is walked, if the trace lists for the wall what the eye
\* has read in it.
LEMMA PassedRoadIsWalked ==
    ASSUME NEW a \in ActionEnvelope, NEW m, NEW view, NEW profile,
           a.road.traced => a.road.recipe \in a.trace.used
    PROVE  RoadIsWalked(a, m, view, profile)
  <1> DEFINE ask == ProposalFromAction(a)
             l   == ToChannelEnvelope(a)
  <1> HIDE DEF ask
  <1> SUFFICES ASSUME a.road.form # "none", m.contracts # {}, CourtsPass(a, m, view, profile)
               PROVE  /\ a.road.recipe \in m.contracts \cap a.trace.used
                      /\ a.road.recipe \notin a.trace.skipped \cup a.trace.stale
                      /\ ActionEffects(a) \subseteq RecipeEffects[a.road.recipe]
    BY DEF RoadIsWalked
  <1>1. ChannelTestimony(a) = "PASS" /\ Passes(ask, m)
    BY ArmsPass DEF ask
  <1>2. PassRoadClear(l)
    BY <1>1, EyePasses
  <1>3. l.road = a.road /\ l.effects = ActionEffects(a)
    BY DEF ToChannelEnvelope
  <1>4. a.road.recipe \in a.trace.used /\ ActionEffects(a) \subseteq RecipeEffects[a.road.recipe]
    BY <1>2, <1>3 DEF PassRoadClear
  <1>5. AuditSkillContracts(ask.trace, m) = "ALLOW" /\ ask.trace = a.trace
    BY <1>1, PassMeans, ProposalOfAction DEF ask
  <1>6. QED
    BY <1>4, <1>5 DEF AuditSkillContracts

-----------------------------------------------------------------------------
(* The judges as they are asked: one question is one behavior *)

\* What a question of each kind is.
LEMMA Asked ==
    ASSUME AskInit
    PROVE  /\ AskedGate => question \in GateQuestion
           /\ AskedWall => question \in WallQuestion
           /\ AskedCourts => question \in CourtQuestion
  <1>1. NoQuestion.asked = "nothing" /\ DOMAIN NoQuestion = {"asked"}
    BY DEF NoQuestion
  <1>2. \A q \in GateQuestion : DOMAIN q = {"proposal", "view"}
    BY QuestionAssumption
  <1>3. \A q \in WallQuestion : DOMAIN q = {"ask", "manifest"}
    BY QuestionAssumption
  <1>4. \A q \in CourtQuestion : DOMAIN q = {"action", "manifest", "view", "profile"}
    BY QuestionAssumption
  <1>5. QED
    BY <1>1, <1>2, <1>3, <1>4 DEF AskInit, AskedGate, AskedWall, AskedCourts

\* An ALLOW of the gate is unanimous, whatever it is asked.
THEOREM Unanimity == AskSpec => []Unanimous
  <1>1. AskInit => Unanimous
    BY AllowUnanimity DEF Unanimous
  <1>2. Unanimous /\ [UNCHANGED question]_question => Unanimous'
    BY DEF Unanimous, AskedGate
  <1>3. QED
    BY <1>1, <1>2, PTL DEF AskSpec

\* A delete the gate lets through is scoped, whatever it is asked.
THEOREM ScopedDeletes == AskSpec => []DeleteScoped
  <1>1. AskInit => DeleteScoped
    BY AllowedDeletes DEF DeleteScoped
  <1>2. DeleteScoped /\ [UNCHANGED question]_question => DeleteScoped'
    BY DEF DeleteScoped, AskedGate
  <1>3. QED
    BY <1>1, <1>2, PTL DEF AskSpec

\* What the wall passes stays within the manifest, whatever it is asked.
THEOREM WithinTheManifest == AskSpec => []PassedIsWithin
  <1>1. AskInit => PassedIsWithin
    BY PassesWithin DEF PassedIsWithin
  <1>2. PassedIsWithin /\ [UNCHANGED question]_question => PassedIsWithin'
    BY DEF PassedIsWithin, AskedWall
  <1>3. QED
    BY <1>1, <1>2, PTL DEF AskSpec

\* Wall and gate do not drift apart on deletes, where their tables overlap.
THEOREM NoDriftOnDeletes == AskSpec => []DeletesDoNotDrift
  <1>1. AskInit => DeletesDoNotDrift
    BY Asked, DeletesTogether, QuestionAssumption DEF DeletesDoNotDrift
  <1>2. DeletesDoNotDrift /\ [UNCHANGED question]_question => DeletesDoNotDrift'
    BY DEF DeletesDoNotDrift, AskedWall
  <1>3. QED
    BY <1>1, <1>2, PTL DEF AskSpec

\* What the courts are asked of.
LEMMA AskedOfAction ==
    ASSUME AskInit, AskedCourts
    PROVE  /\ question.action \in ActionEnvelope
           /\ question.action.road.traced
                  => question.action.road.recipe \in question.action.trace.used
  BY Asked, QuestionAssumption

\* What all eight arms let pass is plain work, whatever the courts are asked.
THEOREM PlainWorkOnly == AskSpec => []PassedIsPlain
  <1>1. AskInit => PassedIsPlain
    BY AskedOfAction, PassIsPlain DEF PassedIsPlain
  <1>2. PassedIsPlain /\ [UNCHANGED question]_question => PassedIsPlain'
    BY DEF PassedIsPlain, AskedCourts
  <1>3. QED
    BY <1>1, <1>2, PTL DEF AskSpec

\* No action with a URL among its targets passes unless each names a loopback
\* host, whatever the courts are asked.
THEOREM NothingLeaves == AskSpec => []EgressStays
  <1>1. AskInit => EgressStays
    BY AskedOfAction, PassIsLocal DEF EgressStays
  <1>2. EgressStays /\ [UNCHANGED question]_question => EgressStays'
    BY DEF EgressStays, AskedCourts
  <1>3. QED
    BY <1>1, <1>2, PTL DEF AskSpec

\* A declared delete that passes is ordinary, whatever the courts are asked.
THEOREM OrdinaryDeletes == AskSpec => []DeletesAreOrdinary
  <1>1. AskInit => DeletesAreOrdinary
    BY AskedOfAction, PassedDeleteIsOrdinary DEF DeletesAreOrdinary
  <1>2. DeletesAreOrdinary /\ [UNCHANGED question]_question => DeletesAreOrdinary'
    BY DEF DeletesAreOrdinary, AskedCourts
  <1>3. QED
    BY <1>1, <1>2, PTL DEF AskSpec

\* An opaque command passes only with a sound gateway record, whatever the
\* courts are asked.
THEOREM OpaqueNeedsGateway == AskSpec => []OpaqueIsVouched
  <1>1. AskInit => OpaqueIsVouched
    BY AskedOfAction, PassedOpaqueHasGateway DEF OpaqueIsVouched
  <1>2. OpaqueIsVouched /\ [UNCHANGED question]_question => OpaqueIsVouched'
    BY DEF OpaqueIsVouched, AskedCourts
  <1>3. QED
    BY <1>1, <1>2, PTL DEF AskSpec

\* A declared pass road that passes is walked, whatever the courts are asked.
THEOREM WalkedRoads == AskSpec => []RoadsAreWalked
  <1>1. AskInit => RoadsAreWalked
    BY AskedOfAction, PassedRoadIsWalked DEF RoadsAreWalked
  <1>2. RoadsAreWalked /\ [UNCHANGED question]_question => RoadsAreWalked'
    BY DEF RoadsAreWalked, AskedCourts
  <1>3. QED
    BY <1>1, <1>2, PTL DEF AskSpec
=============================================================================
