------------------------------ MODULE AuditLoop ------------------------------
(***************************************************************************)
(* One case of PhiBenchmarkRunner._run_phi (src/project/benchmark_runner.py) *)
(* composing the judges and their memories: admission, channel audit with  *)
(* branch contamination, layer kill cooldown, task guard, capability wall, *)
(* OT gate, event ledger and actor registry.  One step is one iteration of *)
(* the loop over the channel results.  The batch passes that run before    *)
(* the loop (admission, channel audit) look at earlier envelopes only, so  *)
(* an envelope's share of them is part of its own step.                    *)
(***************************************************************************)
EXTENDS OTGate, AuditLayer

CONSTANTS
    Registered,             \* actors of the case that are in the registry
    User, NoUser,           \* user request ids and the blank one
    Envelope,
    FreezeAfterKills, BugcheckAfterCritical,                        \* LedgerPolicy
    TerminateAfterKills, TerminateAfterHolds, TerminateOnCritical,  \* TaskGuardPolicy
    MaxEnvelopes            \* bound on the envelopes of a case

ChannelType == {"USER_REQUEST", "TOOL_METADATA", "AGENT_PROPOSAL", "REJECTED_FEEDBACK"}

\* findings: the severities the channel audit of this envelope alone finds;
\* capability: what the capability wall says of the proposal;
\* proposal: what _wrap_agent_proposal makes of the envelope.
ChannelEnvelope == [channel : ChannelType, named : BOOLEAN, source : Actor,
                    branch : Branch, user : User \cup {NoUser},
                    findings : SUBSET {"SUSPECT", "CONTAMINATED"},
                    capability : Vote, proposal : CommandProposal]

Wrapped(env) ==
    /\ env.proposal.actor_id = env.source
    /\ env.proposal.user_request_id <=> env.user # NoUser
    /\ env.channel = "REJECTED_FEEDBACK" => "SUSPECT" \in env.findings

ASSUME LoopAssumption ==
    /\ Registered \subseteq Actor
    /\ NoUser \notin User
    /\ Envelope \subseteq ChannelEnvelope
    /\ \A env \in Envelope : Wrapped(env)
    /\ TerminateOnCritical \in BOOLEAN
    /\ MaxEnvelopes \in Nat
    /\ {FreezeAfterKills, BugcheckAfterCritical, TerminateAfterKills, TerminateAfterHolds}
         \subseteq Nat \ {0}

VARIABLES
    uses,           \* the stages the runner was built with
    registry,       \* what the registry answers for each actor
    stats,          \* the event ledger's counts for each actor
    contaminated,   \* branches with a contaminated finding so far
    guard,          \* the task guard's counts for each task
    handled,        \* envelopes taken from the case
    outcome         \* history: the last envelope and what came of it

loopVars == <<uses, registry, stats, contaminated, guard, handled, outcome, cooldown,
              normal_kills>>

\* use_admission, use_capability_wall, use_task_guard.
Switch == {"admission", "capability_wall", "task_guard"}

Task == (User \cup {NoUser}) \X Branch
TaskOf(env) == <<env.user, env.branch>>

Stage == {"START", "REFUSED", "SKIPPED", "CHANNEL", "ACCEPTED", "CAPABILITY", "ALLOW",
          "KILL", "RAISED"}

-----------------------------------------------------------------------------
(* Admission and channel audit *)

\* issue_admission_ticket.  The tickets of a case are issued before its loop:
\* every registered actor is an ACTIVE agent then.
Admitted(env) ==
    /\ env.named
    /\ CASE env.channel = "AGENT_PROPOSAL" -> env.source \in Registered
         [] env.channel = "REJECTED_FEEDBACK" -> env.proposal.parent_event_id
         [] OTHER -> env.source \notin Registered

OwnContamination(env) == "CONTAMINATED" \in env.findings

\* A contaminated branch contaminates whatever comes after (apply_branch_contamination).
Contaminates(env) == OwnContamination(env) \/ env.branch \in contaminated

Disposition(env) ==
    IF Contaminates(env) \/ env.channel = "REJECTED_FEEDBACK" THEN "QUARANTINE"
    ELSE IF "SUSPECT" \in env.findings THEN "HOLD"
    ELSE IF env.channel = "AGENT_PROPOSAL" THEN "WRAP_PROPOSAL"
    ELSE "ACCEPT"

\* A faulty variant: the mark is left on the source.
MarkSource(env) ==
    contaminated' = IF Contaminates(env) THEN contaminated \cup {env.source} ELSE contaminated

\* Every step that gets past admission leaves its mark on the branch.
ChannelAudit(env) ==
    contaminated' = IF Contaminates(env) THEN contaminated \cup {env.branch} ELSE contaminated

ChannelLayer(channel) ==
    CASE channel = "USER_REQUEST" -> "USER"
      [] channel = "TOOL_METADATA" -> "SOURCE"
      [] OTHER -> "MOTION"

ScopeForChannel(channel) ==
    CASE channel = "USER_REQUEST" -> "USER_CLAIM"
      [] channel = "TOOL_METADATA" -> "SOURCE_OBJECT"
      [] OTHER -> "MOTION_BRANCH"

ChannelKillRequest(env) ==
    [layer |-> ChannelLayer(env.channel), scope |-> ScopeForChannel(env.channel),
     branch |-> env.branch, object_layer |-> ChannelLayer(env.channel),
     critical |-> Contaminates(env), protected |-> FALSE]

-----------------------------------------------------------------------------
(* The task guard *)

NoStops == [kills |-> 0, holds |-> 0, criticals |-> 0]

TooManyKills(t) == guard[t].kills >= TerminateAfterKills

IsTerminated(t) ==
    \/ TerminateOnCritical /\ guard[t].criticals > 0
    \/ TooManyKills(t)
    \/ guard[t].holds >= TerminateAfterHolds

\* _counts with one more event.
Counted(g, severity) ==
    [kills |-> g.kills + Count(severity \in {"KILL", "CRITICAL"}),
     holds |-> g.holds + Count(severity = "HOLD"),
     criticals |-> g.criticals + Count(severity = "CRITICAL")]

\* record of a stop of the given severity, where the task guard is used.  A stop
\* event without a user request id cannot be built (ValueError): the case ends there.
RecordStop(env, severity, stage) ==
    IF "task_guard" \in uses
    THEN IF env.user = NoUser
         THEN UNCHANGED guard /\ outcome' = [envelope |-> env, stage |-> "RAISED"]
         ELSE /\ outcome' = [envelope |-> env, stage |-> stage]
              /\ guard' = [guard EXCEPT ![TaskOf(env)] = Counted(@, severity)]
    ELSE UNCHANGED guard /\ outcome' = [envelope |-> env, stage |-> stage]

-----------------------------------------------------------------------------
(* The event ledger and the registry *)

NoEvents == [kill_count |-> 0, critical_count |-> 0, hold_count |-> 0]

\* A faulty variant: the threshold counts only when it is met exactly.
DeriveExactly(s) ==
    IF s.critical_count = BugcheckAfterCritical THEN "BUGCHECK"
    ELSE IF s.kill_count = FreezeAfterKills THEN "FROZEN"
    ELSE IF s.kill_count > 0 \/ s.hold_count > 0 THEN "WARNING"
    ELSE "ACTIVE"

DeriveState(s) ==
    IF s.critical_count >= BugcheckAfterCritical THEN "BUGCHECK"
    ELSE IF s.kill_count >= FreezeAfterKills THEN "FROZEN"
    ELSE IF s.kill_count > 0 \/ s.hold_count > 0 THEN "WARNING"
    ELSE "ACTIVE"

Recorded(s, result) ==
    [kill_count |-> s.kill_count + Count(result.decision = "KILL"),
     critical_count |-> s.critical_count + Count(result.critical),
     hold_count |-> s.hold_count + Count(result.hold_votes > 0)]

\* EventLedger.record; the KeyError of an unknown actor is swallowed by the loop.
RecordEvent(actor, result) ==
    IF registry[actor] = "UNKNOWN" THEN UNCHANGED <<stats, registry>>
    ELSE /\ stats' = [stats EXCEPT ![actor] = Recorded(@, result)]
         /\ registry' = [registry EXCEPT ![actor] = DeriveState(stats'[actor])]

-----------------------------------------------------------------------------

Init ==
    /\ LayerInit
    /\ uses \in SUBSET Switch
    /\ registry = [a \in Actor |-> IF a \in Registered THEN "ACTIVE" ELSE "UNKNOWN"]
    /\ stats = [a \in Actor |-> NoEvents]
    /\ contaminated = {}
    /\ guard = [t \in Task |-> NoStops]
    /\ handled = 0
    /\ outcome = [stage |-> "START"]

Take(env) ==
    /\ outcome.stage # "RAISED"
    /\ handled < MaxEnvelopes
    /\ handled' = handled + 1
    /\ UNCHANGED uses

Refuse(env) ==
    /\ Take(env)
    /\ "admission" \in uses /\ ~Admitted(env)
    /\ outcome' = [envelope |-> env, stage |-> "REFUSED"]
    /\ UNCHANGED <<registry, stats, contaminated, guard, layerVars>>

Enter(env) ==
    /\ Take(env)
    /\ "admission" \in uses => Admitted(env)
    /\ ChannelAudit(env)

SkipTerminated(env) ==
    /\ Enter(env)
    /\ IsTerminated(TaskOf(env))
    /\ outcome' = [envelope |-> env, stage |-> "SKIPPED"]
    /\ UNCHANGED <<registry, stats, guard, layerVars>>

StopAtChannel(env) ==
    /\ Enter(env)
    /\ ~IsTerminated(TaskOf(env))
    /\ Disposition(env) \in {"HOLD", "QUARANTINE"}
    /\ RecordLayerKill(ChannelKillRequest(env))
    /\ RecordStop(env, IF Disposition(env) = "HOLD" THEN "HOLD" ELSE "KILL", "CHANNEL")
    /\ UNCHANGED <<registry, stats>>

\* Nothing to judge: the envelope carries no proposal.
Accept(env) ==
    /\ Enter(env)
    /\ ~IsTerminated(TaskOf(env))
    /\ Disposition(env) = "ACCEPT"
    /\ outcome' = [envelope |-> env, stage |-> "ACCEPTED"]
    /\ UNCHANGED <<registry, stats, guard, layerVars>>

EnterProposal(env) ==
    /\ Enter(env)
    /\ ~IsTerminated(TaskOf(env))
    /\ Disposition(env) = "WRAP_PROPOSAL"

StopAtCapability(env) ==
    /\ EnterProposal(env)
    /\ "capability_wall" \in uses /\ env.capability # "PASS"
    /\ RecordStop(env, env.capability, "CAPABILITY")
    /\ UNCHANGED <<registry, stats, layerVars>>

Audit(env) ==
    LET result == AuditCommandProposal(env.proposal, registry[env.source])
    IN  /\ EnterProposal(env)
        /\ "capability_wall" \in uses => env.capability = "PASS"
        /\ RecordEvent(env.source, result)
        /\ IF result.decision = "KILL"
           THEN RecordStop(env, IF result.critical THEN "CRITICAL" ELSE "KILL", "KILL")
           ELSE /\ outcome' = [envelope |-> env, stage |-> "ALLOW"]
                /\ UNCHANGED guard
        /\ UNCHANGED layerVars

Step(env) ==
    \/ Refuse(env)
    \/ SkipTerminated(env)
    \/ StopAtChannel(env)
    \/ Accept(env)
    \/ StopAtCapability(env)
    \/ Audit(env)

Next == \E env \in Envelope : Step(env)

Spec == Init /\ [][Next]_loopVars

-----------------------------------------------------------------------------

TypeOK ==
    /\ LayerTypeOK
    /\ uses \subseteq Switch
    /\ registry \in [Actor -> ActorState \cup {"UNKNOWN"}]
    /\ stats \in [Actor -> [kill_count : Nat, critical_count : Nat, hold_count : Nat]]
    /\ contaminated \subseteq Branch
    /\ guard \in [Task -> [kills : Nat, holds : Nat, criticals : Nat]]
    /\ handled \in 0..MaxEnvelopes
    /\ outcome.stage \in Stage

Allows == handled' # handled /\ outcome'.stage = "ALLOW"

\* An actor's state is never relaxed: the ledger only ever escalates it.
Severity(state) == CASE state = "BUGCHECK" -> 3 [] state = "FROZEN" -> 2
                     [] state = "WARNING" -> 1 [] OTHER -> 0

NeverRelaxed ==
    [][\A a \in Actor : Severity(registry'[a]) >= Severity(registry[a])]_loopVars

\* An allowed proposal comes from a registered actor that the ledger has not
\* given FreezeAfterKills kills or BugcheckAfterCritical criticals, over all the
\* tasks of the case.
AllowedActorIsFit ==
    [][Allows => LET a == outcome'.envelope.source
                 IN  /\ a \in Registered
                     /\ stats[a].kill_count < FreezeAfterKills
                     /\ stats[a].critical_count < BugcheckAfterCritical]_loopVars

\* Nothing is allowed on a branch after a contaminated finding, whichever
\* channel or actor it came from and whether or not its task was skipped.
AllowedBranchIsClean ==
    [][Allows => outcome'.envelope.branch \notin contaminated']_loopVars

\* A task never gets past its limits: the stop that reaches one is the last
\* that is recorded, so no lower layer sees more of the task ("later proposals
\* in that same task should not proceed to lower layers", task_guard.py:144).
NoOverrun ==
    \A t \in Task : /\ guard[t].kills <= TerminateAfterKills
                    /\ guard[t].holds <= TerminateAfterHolds
                    /\ guard[t].kills + guard[t].holds
                         < TerminateAfterKills + TerminateAfterHolds
=============================================================================
