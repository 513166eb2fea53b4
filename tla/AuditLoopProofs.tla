--------------------------- MODULE AuditLoopProofs ---------------------------
(***************************************************************************)
(* The guarantees of the audit loop for every case: any envelopes, actors, *)
(* branches and thresholds.                                                *)
(***************************************************************************)
EXTENDS AuditLoop, TLAPS

\* A layer outside its cooldown has not killed; only layers with authority have.
LayerInv ==
    \A b \in Branch, l \in AuditLayer :
        /\ normal_kills[b][l] <= 1
        /\ l \notin cooldown[b] => normal_kills[b][l] = 0
        /\ normal_kills[b][l] > 0 => \E s \in KillScope : <<l, s>> \in KillAuthority

\* The registry holds what the ledger derives, and nothing of unknown actors.
RegistryFollowsLedger ==
    \A a \in Actor : registry[a] = IF a \in Registered THEN DeriveState(stats[a]) ELSE "UNKNOWN"

IInv == TypeOK /\ LayerInv /\ RegistryFollowsLedger /\ NoOverrun

-----------------------------------------------------------------------------
(* Helpers *)

LEMMA CountType == ASSUME NEW b PROVE Count(b) \in {0, 1}
  BY DEF Count

LEMMA DecideType ==
    ASSUME NEW i, NEW b, NEW e
    PROVE  /\ Decide(i, b, e).decision \in {"ALLOW", "KILL"}
           /\ Decide(i, b, e).decision = "ALLOW" => ~Decide(i, b, e).critical
  BY DEF Decide

LEMMA DeriveType == ASSUME NEW s PROVE DeriveState(s) \in ActorState
  BY DEF DeriveState, ActorState

\* Larger counts never derive a milder state.
LEMMA DeriveMonotone ==
    ASSUME NEW s \in [kill_count : Nat, critical_count : Nat, hold_count : Nat],
           NEW t \in [kill_count : Nat, critical_count : Nat, hold_count : Nat],
           s.kill_count <= t.kill_count, s.critical_count <= t.critical_count,
           s.hold_count <= t.hold_count
    PROVE  Severity(DeriveState(s)) <= Severity(DeriveState(t))
  <1>1. /\ FreezeAfterKills \in Nat /\ BugcheckAfterCritical \in Nat
        /\ FreezeAfterKills > 0 /\ BugcheckAfterCritical > 0
    BY LoopAssumption
  <1>2. /\ s.kill_count \in Nat /\ s.critical_count \in Nat /\ s.hold_count \in Nat
        /\ t.kill_count \in Nat /\ t.critical_count \in Nat /\ t.hold_count \in Nat
    OBVIOUS
  <1>3. /\ Severity("BUGCHECK") = 3 /\ Severity("FROZEN") = 2
        /\ Severity("WARNING") = 1 /\ Severity("ACTIVE") = 0
    BY DEF Severity
  <1>4. QED
    BY <1>1, <1>2, <1>3 DEF DeriveState

LEMMA RecordedType ==
    ASSUME NEW s \in [kill_count : Nat, critical_count : Nat, hold_count : Nat], NEW r
    PROVE  /\ Recorded(s, r) \in [kill_count : Nat, critical_count : Nat, hold_count : Nat]
           /\ s.kill_count <= Recorded(s, r).kill_count
           /\ s.critical_count <= Recorded(s, r).critical_count
           /\ s.hold_count <= Recorded(s, r).hold_count
  <1>1. \A b : Count(b) \in Nat
    BY CountType
  <1>2. QED
    BY <1>1 DEF Recorded

\* What the event ledger leaves of a step: types, agreement, and no relaxation.
LEMMA RecordEventKeeps ==
    ASSUME TypeOK, RegistryFollowsLedger, NEW a \in Actor, NEW r, RecordEvent(a, r)
    PROVE  /\ registry' \in [Actor -> ActorState \cup {"UNKNOWN"}]
           /\ stats' \in [Actor -> [kill_count : Nat, critical_count : Nat, hold_count : Nat]]
           /\ RegistryFollowsLedger'
           /\ \A c \in Actor : Severity(registry[c]) <= Severity(registry'[c])
  <1> DEFINE counts == [kill_count : Nat, critical_count : Nat, hold_count : Nat]
  <1>0. \A x : Severity(x) \in 0..3
    BY DEF Severity
  <1>1. CASE registry[a] = "UNKNOWN"
    BY <1>0, <1>1 DEF RecordEvent, TypeOK, RegistryFollowsLedger
  <1>2. CASE registry[a] # "UNKNOWN"
    <2>1. /\ stats' = [stats EXCEPT ![a] = Recorded(stats[a], r)]
          /\ registry' = [registry EXCEPT ![a] = DeriveState(stats'[a])]
      BY <1>2 DEF RecordEvent
    <2>2. stats \in [Actor -> counts] /\ registry \in [Actor -> ActorState \cup {"UNKNOWN"}]
      BY DEF TypeOK
    <2>3. Recorded(stats[a], r) \in counts
      BY <2>2, RecordedType
    <2>4. stats' \in [Actor -> counts] /\ stats'[a] = Recorded(stats[a], r)
      BY <2>1, <2>2, <2>3
    <2>5. registry' \in [Actor -> ActorState \cup {"UNKNOWN"}]
      BY <2>1, <2>2, DeriveType
    <2>6. a \in Registered /\ registry[a] = DeriveState(stats[a])
      BY <1>2 DEF RegistryFollowsLedger
    <2>7. RegistryFollowsLedger'
      BY <2>1, <2>2, <2>4, <2>6 DEF RegistryFollowsLedger
    <2>8. Severity(registry[a]) <= Severity(registry'[a])
      <3>1. Severity(DeriveState(stats[a])) <= Severity(DeriveState(Recorded(stats[a], r)))
        BY <2>2, <2>3, DeriveMonotone, RecordedType
      <3>2. registry'[a] = DeriveState(Recorded(stats[a], r))
        BY <2>1, <2>2, <2>4
      <3>3. QED
        BY <2>6, <3>1, <3>2
    <2>9. \A c \in Actor \ {a} : registry'[c] = registry[c]
      BY <2>1, <2>2
    <2>10. QED
      BY <1>0, <2>4, <2>5, <2>7, <2>8, <2>9
  <1>3. QED
    BY <1>1, <1>2

\* A stop recorded for a task that is not yet terminated stays within the limits.
LEMMA RecordStopKeeps ==
    ASSUME TypeOK, NoOverrun, NEW env \in Envelope, ~IsTerminated(TaskOf(env)),
           NEW severity \in {"HOLD", "KILL", "CRITICAL"}, NEW stage \in Stage \ {"RAISED"},
           RecordStop(env, severity, stage)
    PROVE  /\ guard' \in [Task -> [kills : Nat, holds : Nat, criticals : Nat]]
           /\ NoOverrun'
           /\ outcome'.stage \in {stage, "RAISED"} /\ outcome'.envelope = env
  <1> DEFINE t == TaskOf(env)
             tally == [kills : Nat, holds : Nat, criticals : Nat]
  <1>1. CASE env.user = NoUser \/ "task_guard" \notin uses
    BY <1>1 DEF RecordStop, TypeOK, NoOverrun
  <1>2. CASE env.user # NoUser /\ "task_guard" \in uses
    <2>1. t \in Task /\ guard \in [Task -> tally]
      BY LoopAssumption DEF Task, TaskOf, ChannelEnvelope, TypeOK
    <2>2. /\ TerminateAfterKills \in Nat /\ TerminateAfterHolds \in Nat
          /\ guard[t].kills \in Nat /\ guard[t].holds \in Nat /\ guard[t].criticals \in Nat
          /\ guard[t].kills < TerminateAfterKills /\ guard[t].holds < TerminateAfterHolds
      BY <2>1, LoopAssumption DEF IsTerminated, TooManyKills
    <2>3. /\ guard' = [guard EXCEPT ![t] = Counted(guard[t], severity)]
          /\ Counted(guard[t], severity) \in tally
          /\ Counted(guard[t], severity).kills + Counted(guard[t], severity).holds
               <= guard[t].kills + guard[t].holds + 1
          /\ Counted(guard[t], severity).kills <= guard[t].kills + 1
          /\ Counted(guard[t], severity).holds <= guard[t].holds + 1
      BY <1>2, <2>2 DEF RecordStop, Counted, Count
    <2>4. /\ guard' \in [Task -> tally] /\ guard'[t] = Counted(guard[t], severity)
          /\ \A s \in Task \ {t} : guard'[s] = guard[s]
      BY <2>1, <2>3
    <2>5. NoOverrun'
      <3> SUFFICES ASSUME NEW s \in Task
                   PROVE  /\ guard'[s].kills <= TerminateAfterKills
                          /\ guard'[s].holds <= TerminateAfterHolds
                          /\ guard'[s].kills + guard'[s].holds
                               < TerminateAfterKills + TerminateAfterHolds
        BY DEF NoOverrun
      <3>1. CASE s = t
        <4>1. guard'[t].kills \in Nat /\ guard'[t].holds \in Nat
          BY <2>3, <2>4
        <4>2. QED
          BY <2>2, <2>3, <2>4, <3>1, <4>1
      <3>2. CASE s # t
        BY <2>4, <3>2 DEF NoOverrun
      <3>3. QED
        BY <3>1, <3>2
    <2>6. outcome'.stage = stage /\ outcome'.envelope = env
      BY <1>2 DEF RecordStop
    <2>7. QED
      BY <2>4, <2>5, <2>6
  <1>3. QED
    BY <1>1, <1>2
-----------------------------------------------------------------------------
(* The layer kills *)

LEMMA RecordLayerKillKeeps ==
    ASSUME LayerTypeOK, LayerInv, NEW r \in LayerKillRequest, RecordLayerKill(r)
    PROVE  LayerTypeOK' /\ LayerInv'
  <1> USE DEF LayerTypeOK, LayerKillRequest
  <1>1. CASE ~CanIssueKill(r)
    BY <1>1 DEF RecordLayerKill, layerVars, LayerInv
  <1>2. CASE CanIssueKill(r)
    <2>1. /\ cooldown' = [cooldown EXCEPT ![r.branch] = @ \cup {r.layer}]
          /\ normal_kills' = normal_kills
             \/ /\ r.layer \notin cooldown[r.branch]
                /\ normal_kills' = [normal_kills EXCEPT ![r.branch] =
                                     [normal_kills[r.branch] EXCEPT ![r.layer] = @ + 1]]
      BY <1>2 DEF RecordLayerKill, CanIssueKill, ProtectedBypass, IsCritical
    <2> DEFINE row == [normal_kills[r.branch] EXCEPT ![r.layer] = @ + 1]
    <2>0. row \in [AuditLayer -> Nat] /\ row[r.layer] = normal_kills[r.branch][r.layer] + 1
          /\ \A l \in AuditLayer \ {r.layer} : row[l] = normal_kills[r.branch][l]
      OBVIOUS
    <2> HIDE DEF row
    <2>2. LayerTypeOK'
      <3>1. cooldown' \in [Branch -> SUBSET AuditLayer]
        BY <2>1
      <3>2. normal_kills' \in [Branch -> [AuditLayer -> Nat]]
        BY <2>0, <2>1 DEF row
      <3>3. QED
        BY <3>1, <3>2
    <2>3. \E s \in KillScope : <<r.layer, s>> \in KillAuthority
      BY <1>2 DEF CanIssueKill
    <2>4. ASSUME NEW b \in Branch, NEW l \in AuditLayer
          PROVE  /\ normal_kills'[b][l] <= 1
                 /\ l \notin cooldown'[b] => normal_kills'[b][l] = 0
                 /\ normal_kills'[b][l] > 0 => \E s \in KillScope : <<l, s>> \in KillAuthority
      <3>1. CASE b = r.branch /\ l = r.layer
        <4>1. l \in cooldown'[b]
          BY <2>1, <3>1
        <4>2. CASE normal_kills' = normal_kills
          BY <2>3, <3>1, <4>1, <4>2 DEF LayerInv
        <4>3. CASE normal_kills' # normal_kills
          <5>1. normal_kills'[b][l] = row[r.layer]
            BY <2>1, <3>1, <4>3 DEF row
          <5>2. normal_kills[b][l] = 0
            BY <2>1, <3>1, <4>3 DEF LayerInv
          <5>3. QED
            BY <2>0, <2>3, <3>1, <4>1, <5>1, <5>2
        <4>4. QED
          BY <4>2, <4>3
      <3>2. CASE ~(b = r.branch /\ l = r.layer)
        <4>1. normal_kills'[b][l] = normal_kills[b][l]
          BY <2>0, <2>1, <3>2 DEF row
        <4>2. l \notin cooldown'[b] => l \notin cooldown[b]
          BY <2>1
        <4>3. QED
          BY <4>1, <4>2 DEF LayerInv
      <3>3. QED
        BY <3>1, <3>2
    <2>5. QED
      BY <2>2, <2>4 DEF LayerInv
  <1>3. QED
    BY <1>1, <1>2

-----------------------------------------------------------------------------
(* The inductive invariant of the loop *)

LEMMA ChannelRequestType ==
    ASSUME NEW env \in Envelope
    PROVE  ChannelKillRequest(env) \in LayerKillRequest
  <1>1. env.branch \in Branch /\ Contaminates(env) \in BOOLEAN
    BY LoopAssumption DEF ChannelEnvelope, Contaminates
  <1>2. ChannelLayer(env.channel) \in AuditLayer /\ ScopeForChannel(env.channel) \in KillScope
    BY DEF ChannelLayer, ScopeForChannel, AuditLayer, KillScope
  <1>3. QED
    BY <1>1, <1>2 DEF ChannelKillRequest, LayerKillRequest

LEMMA InvInit == Init => IInv
  <1> SUFFICES ASSUME Init PROVE IInv
    OBVIOUS
  <1>1. TypeOK /\ LayerInv
    BY LoopAssumption DEF Init, LayerInit, Switch, TypeOK, LayerTypeOK, LayerInv, ActorState,
       NoEvents, NoStops, Stage
  <1>2. RegistryFollowsLedger
    BY LoopAssumption DEF Init, RegistryFollowsLedger, DeriveState, NoEvents
  <1>3. NoOverrun
    BY LoopAssumption DEF Init, NoOverrun, NoStops
  <1>4. QED
    BY <1>1, <1>2, <1>3 DEF IInv

\* What every step past admission does to the counters of the case.
LEMMA EnterKeeps ==
    ASSUME TypeOK, NEW env \in Envelope, Enter(env)
    PROVE  /\ handled' \in 0..MaxEnvelopes /\ handled' # handled
           /\ contaminated' \subseteq Branch /\ uses' \subseteq Switch
  BY LoopAssumption DEF TypeOK, Enter, Take, ChannelAudit, ChannelEnvelope

LEMMA InvStep == IInv /\ [Next]_loopVars => IInv'
  <1> SUFFICES ASSUME IInv, [Next]_loopVars PROVE IInv'
    OBVIOUS
  <1> USE DEF IInv
  <1>1. ASSUME NEW env \in Envelope, Refuse(env) PROVE IInv'
    <2>1. /\ UNCHANGED <<uses, registry, stats, contaminated, guard, cooldown, normal_kills>>
          /\ outcome'.stage = "REFUSED"
      BY <1>1 DEF Refuse, Take, layerVars
    <2>2. handled' \in 0..MaxEnvelopes
      BY <1>1, LoopAssumption DEF Refuse, Take, TypeOK
    <2>3. TypeOK' /\ LayerInv'
      BY <2>1, <2>2 DEF TypeOK, LayerTypeOK, LayerInv, Stage
    <2>4. RegistryFollowsLedger' /\ NoOverrun'
      BY <2>1 DEF RegistryFollowsLedger, NoOverrun
    <2>5. QED
      BY <2>3, <2>4
  <1>2. ASSUME NEW env \in Envelope, SkipTerminated(env) \/ Accept(env) PROVE IInv'
    <2>1. Enter(env) /\ UNCHANGED <<registry, stats, guard, layerVars>>
          /\ outcome'.stage \in {"SKIPPED", "ACCEPTED"}
      BY <1>2 DEF SkipTerminated, Accept
    <2>2. QED
      BY <2>1, EnterKeeps DEF TypeOK, LayerTypeOK, LayerInv, layerVars, RegistryFollowsLedger,
         NoOverrun, Stage
  <1>3. ASSUME NEW env \in Envelope, StopAtChannel(env) PROVE IInv'
    <2>1. Enter(env) /\ UNCHANGED <<registry, stats>> /\ ~IsTerminated(TaskOf(env))
          /\ RecordLayerKill(ChannelKillRequest(env))
          /\ RecordStop(env, IF Disposition(env) = "HOLD" THEN "HOLD" ELSE "KILL", "CHANNEL")
      BY <1>3 DEF StopAtChannel
    <2>2. LayerTypeOK' /\ LayerInv'
      BY <2>1, ChannelRequestType, RecordLayerKillKeeps DEF TypeOK
    <2>3. /\ guard' \in [Task -> [kills : Nat, holds : Nat, criticals : Nat]]
          /\ NoOverrun' /\ outcome'.stage \in {"CHANNEL", "RAISED"}
      BY <2>1, RecordStopKeeps DEF Stage
    <2>4. QED
      BY <2>1, <2>2, <2>3, EnterKeeps DEF TypeOK, RegistryFollowsLedger, Stage
  <1>4. ASSUME NEW env \in Envelope, StopAtCapability(env) PROVE IInv'
    <2>1. Enter(env) /\ UNCHANGED <<registry, stats, layerVars>> /\ ~IsTerminated(TaskOf(env))
          /\ RecordStop(env, env.capability, "CAPABILITY") /\ env.capability # "PASS"
      BY <1>4 DEF StopAtCapability, EnterProposal
    <2>2. env.capability \in {"HOLD", "KILL"}
      BY <2>1, LoopAssumption DEF ChannelEnvelope, Vote
    <2>3. /\ guard' \in [Task -> [kills : Nat, holds : Nat, criticals : Nat]]
          /\ NoOverrun' /\ outcome'.stage \in {"CAPABILITY", "RAISED"}
      BY <2>1, <2>2, RecordStopKeeps DEF Stage
    <2>4. QED
      BY <2>1, <2>3, EnterKeeps DEF TypeOK, LayerTypeOK, LayerInv, layerVars,
         RegistryFollowsLedger, Stage
  <1>5. ASSUME NEW env \in Envelope, Audit(env) PROVE IInv'
    <2> DEFINE result == AuditCommandProposal(env.proposal, registry[env.source])
               severity == IF result.critical THEN "CRITICAL" ELSE "KILL"
    <2>1. Enter(env) /\ UNCHANGED layerVars /\ ~IsTerminated(TaskOf(env))
          /\ RecordEvent(env.source, result) /\ env.source \in Actor
      BY <1>5, LoopAssumption DEF Audit, EnterProposal, ChannelEnvelope
    <2>2. /\ registry' \in [Actor -> ActorState \cup {"UNKNOWN"}]
          /\ stats' \in [Actor -> [kill_count : Nat, critical_count : Nat, hold_count : Nat]]
          /\ RegistryFollowsLedger'
      BY <2>1, RecordEventKeeps
    <2>3. /\ guard' \in [Task -> [kills : Nat, holds : Nat, criticals : Nat]]
          /\ NoOverrun' /\ outcome'.stage \in {"ALLOW", "KILL", "RAISED"}
      <3>1. CASE result.decision = "KILL"
        <4>1. RecordStop(env, severity, "KILL")
          BY <1>5, <3>1 DEF Audit
        <4>2. severity \in {"HOLD", "KILL", "CRITICAL"}
          OBVIOUS
        <4>3. QED
          BY <2>1, <4>1, <4>2, RecordStopKeeps DEF Stage
      <3>2. CASE result.decision # "KILL"
        BY <1>5, <3>2 DEF Audit, TypeOK, NoOverrun
      <3>3. QED
        BY <3>1, <3>2
    <2>4. QED
      BY <2>1, <2>2, <2>3, EnterKeeps DEF TypeOK, LayerTypeOK, LayerInv, layerVars, Stage
  <1>6. CASE UNCHANGED loopVars
    BY <1>6 DEF loopVars, TypeOK, LayerTypeOK, LayerInv, RegistryFollowsLedger, NoOverrun
  <1>7. QED
    BY <1>1, <1>2, <1>3, <1>4, <1>5, <1>6 DEF Next, Step

LEMMA InvAlways == Spec => []IInv
  BY InvInit, InvStep, PTL DEF Spec

-----------------------------------------------------------------------------
(* Results *)

\* The case runner's counters, states and limits keep their types (_run_phi).
THEOREM TypeCorrect == Spec => []TypeOK
  <1>1. IInv => TypeOK
    BY DEF IInv
  <1>2. QED
    BY <1>1, InvAlways, PTL

\* No layer issues a second normal kill on a branch (record_layer_kill), whatever
\* the envelopes of the case are.
THEOREM LayerKills == Spec => []OneNormalKill
  <1>1. IInv => OneNormalKill
    BY DEF IInv, LayerInv, OneNormalKill
  <1>2. QED
    BY <1>1, InvAlways, PTL

\* A task never gets past its limits, whatever its envelopes are.
THEOREM TasksStop == Spec => []NoOverrun
  <1>1. IInv => NoOverrun
    BY DEF IInv
  <1>2. QED
    BY <1>1, InvAlways, PTL

\* No evidence judge's objection is outvoted: its KILL stands, its HOLD holds.
LEMMA AllowNeedsEvidence ==
    ASSUME NEW p, NEW view, AuditCommandProposal(p, view).decision = "ALLOW"
    PROVE  AuditEvidence(p, view).vote = "PASS"
  <1> DEFINE i == AuditIntent(p)
             b == AuditBoundary(p)
             e == AuditEvidence(p, view)
  <1>1. e.vote \in Vote
    BY DEF AuditEvidence, Says, SaysCritical, Vote
  <1>2. e.vote = "KILL" => e.critical \/ e.reason_code \in HardIdentityKill
    BY DEF AuditEvidence, Says, SaysCritical, HardIdentityKill
  <1>3. Decide(i, b, e).decision = "ALLOW"
    BY DEF AuditCommandProposal
  <1> HIDE DEF i, b, e
  <1>4. /\ ~(i.critical \/ b.critical \/ e.critical)
        /\ {i.reason_code, b.reason_code, e.reason_code} \cap HardIdentityKill = {}
        /\ Count(i.vote = "HOLD") + Count(b.vote = "HOLD") + Count(e.vote = "HOLD") <= 0
    BY <1>3 DEF Decide, Count
  <1>5. e.vote # "HOLD"
    BY <1>4 DEF Count
  <1>6. QED
    BY <1>1, <1>2, <1>4, <1>5 DEF Vote, e

\* Only Audit answers ALLOW, and then the evidence judge passed the proposal.
LEMMA AllowedByTheGate ==
    ASSUME IInv, Next, Allows
    PROVE  \E env \in Envelope :
             /\ outcome'.envelope = env /\ Audit(env)
             /\ AuditEvidence(env.proposal, registry[env.source]).vote = "PASS"
  <1>1. PICK env \in Envelope : Step(env)
    BY DEF Next
  <1>2. ~Refuse(env) /\ ~SkipTerminated(env) /\ ~Accept(env)
        /\ ~StopAtChannel(env) /\ ~StopAtCapability(env)
    BY DEF Allows, Refuse, SkipTerminated, Accept, StopAtChannel, StopAtCapability, RecordStop
  <1>3. Audit(env)
    BY <1>1, <1>2 DEF Step
  <1>4. /\ AuditCommandProposal(env.proposal, registry[env.source]).decision # "KILL"
        /\ outcome'.envelope = env
    BY <1>3 DEF Audit, Allows, RecordStop
  <1>5. AuditCommandProposal(env.proposal, registry[env.source]).decision = "ALLOW"
    BY <1>4, DecideType DEF AuditCommandProposal
  <1>6. QED
    BY <1>3, <1>4, <1>5, AllowNeedsEvidence

\* A registered actor whose kills or criticals reached the ledger's threshold is
\* never allowed again, nor is an actor the registry does not know.
THEOREM FitActors == Spec => AllowedActorIsFit
  <1> DEFINE Fit == Allows => LET a == outcome'.envelope.source
                              IN  /\ a \in Registered
                                  /\ stats[a].kill_count < FreezeAfterKills
                                  /\ stats[a].critical_count < BugcheckAfterCritical
  <1>1. IInv /\ [Next]_loopVars => [Fit]_loopVars
    <2> SUFFICES ASSUME IInv, Next, Allows PROVE Fit
      OBVIOUS
    <2>1. PICK env \in Envelope :
             /\ outcome'.envelope = env /\ Audit(env)
             /\ AuditEvidence(env.proposal, registry[env.source]).vote = "PASS"
      BY AllowedByTheGate
    <2> DEFINE a == env.source
    <2>2. a \in Actor /\ registry[a] \notin {"UNKNOWN", "FROZEN", "BUGCHECK"}
      BY <2>1, LoopAssumption DEF AuditEvidence, Says, SaysCritical, ChannelEnvelope
    <2>3. a \in Registered /\ DeriveState(stats[a]) \notin {"FROZEN", "BUGCHECK"}
      BY <2>2 DEF IInv, RegistryFollowsLedger
    <2>4. stats[a] \in [kill_count : Nat, critical_count : Nat, hold_count : Nat]
      BY <2>2 DEF IInv, TypeOK
    <2>5. stats[a].kill_count < FreezeAfterKills /\ stats[a].critical_count < BugcheckAfterCritical
      BY <2>3, <2>4, LoopAssumption DEF DeriveState
    <2>6. QED
      BY <2>1, <2>3, <2>5
  <1>2. QED
    BY <1>1, InvAlways, PTL DEF Spec, AllowedActorIsFit

\* The registry state of an actor only ever escalates.
THEOREM StatesEscalate == Spec => NeverRelaxed
  <1>1. IInv /\ [Next]_loopVars
        => [\A a \in Actor : Severity(registry'[a]) >= Severity(registry[a])]_loopVars
    <2> SUFFICES ASSUME IInv, Next
                 PROVE  \A a \in Actor : Severity(registry'[a]) >= Severity(registry[a])
      OBVIOUS
    <2>0. \A x : Severity(x) \in 0..3
      BY DEF Severity
    <2>1. PICK env \in Envelope : Step(env)
      BY DEF Next
    <2>2. CASE Audit(env)
      <3>1. RecordEvent(env.source, AuditCommandProposal(env.proposal, registry[env.source]))
            /\ env.source \in Actor
        BY <2>2, LoopAssumption DEF Audit, ChannelEnvelope
      <3>2. \A c \in Actor : Severity(registry[c]) <= Severity(registry'[c])
        BY <3>1, RecordEventKeeps DEF IInv
      <3>3. QED
        BY <2>0, <3>2
    <2>3. CASE ~Audit(env)
      <3>1. registry' = registry
        BY <2>1, <2>3 DEF Step, Refuse, SkipTerminated, StopAtChannel, Accept, StopAtCapability
      <3>2. QED
        BY <2>0, <3>1
    <2>4. QED
      BY <2>2, <2>3
  <1>2. QED
    BY <1>1, InvAlways, PTL DEF Spec, NeverRelaxed

\* Nothing is allowed on a branch once a contaminated finding was met on it.
THEOREM CleanBranches == Spec => AllowedBranchIsClean
  <1>1. IInv /\ [Next]_loopVars
        => [Allows => outcome'.envelope.branch \notin contaminated']_loopVars
    <2> SUFFICES ASSUME IInv, Next, Allows
                 PROVE  outcome'.envelope.branch \notin contaminated'
      OBVIOUS
    <2>1. PICK env \in Envelope : outcome'.envelope = env /\ Audit(env)
      BY AllowedByTheGate
    <2>2. ~Contaminates(env) /\ ChannelAudit(env)
      BY <2>1 DEF Audit, EnterProposal, Enter, Disposition
    <2>3. QED
      BY <2>1, <2>2 DEF ChannelAudit, Contaminates
  <1>2. QED
    BY <1>1, InvAlways, PTL DEF Spec, AllowedBranchIsClean
=============================================================================
