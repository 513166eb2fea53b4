# Verification of the PUB audit kernel

PUB (Protect U Back) judges what an AI agent is about to do before its tool runs,
and examines what happened afterwards. The live code is `src/project` (about 34,000
lines in 66 Python modules); `paper_artifact/` is a frozen copy of it, and
`evidence/`, `reports/`, `blast/`, `test/` are recorded data. This directory holds
TLA+ models of the kernel's stateful parts and of its pure judges, TLC runs on small
instances, and TLAPS proofs for every value of the constants.

## Inventory

| Component | State | Operations | Interacts through |
|---|---|---|---|
| OT gate (`ot_gate`) | none | `audit_command_proposal`: intent, boundary, evidence judges and a tally | called by the loop, the dual court, the access broker |
| Temporal judge (`temporal_continuity`) | one JSON file per branch | `evaluate`, `load`, `save`, `clear` | files shared by hook processes, no lock |
| Layer kills (`audit_layer`) | cooldown per branch | `can_issue_kill`, `record_layer_kill` | called by the loop |
| Event ledger, registry (`event_ledger`, `phi_registry`) | counters and state per actor | `record`, `set_actor_state` | ledger writes the registry, the evidence judge reads it |
| Task guard (`task_guard`) | stop events per task | `record`, `is_terminated` | called by the loop |
| Admission (`registry_admission`) | none | `issue_admission_ticket` | reads the registry before the loop |
| Channel audit (`llm_channel`) | contaminated branches of one batch | `audit_channel_envelope`, `audit_channel_batch` | feeds the loop and the dual court |
| Case runner (`benchmark_runner`) | composes the above | `_run_phi` | in-process calls |
| Claude hooks (`claude_code_hooks`) | state files, journal, markers | `run_pretool_admission`, `run_posttool_autopsy` | one process per hook call, files and a socket |
| Scene judge (`scene_continuity`) | one baseline file per session | `evaluate` | files shared by hook processes |
| Witness ledger (`pub_os_ledger`) | hash chain, append-only file | daemon `append`, client `emit_event` | Unix socket with a timeout |
| Prison and broker (`pub_os_box`, `_broker`, `_warden`, `_core`, `pub_run`) | streams, frames in flight, the core's record | `relay`, `judge_operation`, `execute`, `mediate` | Unix sockets, one window in front of one core |
| Leases and touches (`pub_os_authorization`, `_touch_pipeline`) | none: immutable leases | `issue`, `check`, `consume` | nothing calls them |
| X-ray (`xray_transport`, `xray_review`, `transition_xray`) | enter frame, beats, exit frame | open, sample, close, seal | a sampling thread |
| Dual court (`parallel_audit`) | none | `run_parallel_audit`, `audit_with_xray_review`, the command-surface, path, network and patch arms | called by the hooks, calls the arms in turn |
| Capability wall (`capability_wall`) | none | `audit_capability`: manifest, effects, targets, skill contracts | called by the loop and the dual court, shares the gate's delete hatch |
| Protect scan (`protect_scan`) | none | `audit_protect_scan`: findings per surface, sandbox and gateway records | called by the dual court |
| Opaque executor, decoders | none | text and path classification | pure calls |
| Connectors, launchers, profiles, access physics, visibility | mostly none | adapters and reports | |

The hard behaviours: hook processes that share files without locks, processes that
are killed between two steps of a save, a witness behind a socket with a timeout,
state that is derived again from counters on every event, contamination that must
travel in one direction only, limits that must bite exactly at the boundary.

## The modules

*`OTGate`* is the gate as operators. A proposal keeps what the judges tell apart: its
scope, its declared effects, which token tables its text hits, and its resolved
paths; a path is an element of `Path`, and where it lies is given by constant sets.
`AuditIntent`, `AuditBoundary`, `AuditEvidence` are the three lists of early returns,
`Decide` the tally.
*`CapabilityWall`* extends it with the other judge of the same proposals,
`audit_capability`: skill contracts, declared effects against the manifest, the effects
its own token tables read in the text, the destructive kill with its two hatches, and the
targets. It answers with the set of verdicts the order of the targets can lead to;
reasons and evidence are left out. Three things it shows of the code: a URL target is
not held against the manifest's domains when no NETWORK effect is declared or read; an
`rm -rf build` without a parsed target is held for its target although the gate reads
the operands again; and a target with a null byte raises out of the judge
(`is_internal_probe_artifact_path` is reached before the resolution that catches it),
so "RAISED" is among its answers.
*`JudgeQuestions`* asks the judges, gate, wall and dual court alike: one question is one
behaviour, its answer has to satisfy an invariant, and which questions there are is a
constant. `MCAuditLoop` gives it a bounded universe of them, next to the cases of the loop;
`JudgeProofs` reasons about any.

*`TemporalContinuity`* is the pure `step`: `TemporalVote` and `PostState`.
*`TemporalLedger`* is the shell around it as hook processes run it. `evaluate` is four
steps: `Evaluate` (load and step), `SaveOpen` (the file is truncated), `SaveWrite`
(the text arrives), `AppendLedger`. A process may `Crash` between any two, an
`IOFailure` leaves it without a vote, and `Clear` drains a branch under way. A file
that two processes write at once may be left with the tail of the longer text; then it
is unreadable, and an unreadable file is an empty memory. The history variables
`exposed`, `reads`, `entered` say what the branch really did, `disturbed` whether
evaluations of it overlapped or failed half-way.
*`TemporalMemory`* is the abstract specification: judging and remembering in one step.
*`SerialLedger`* puts the ledger on one of two hosts: one that waits for a hook before it
runs the next and on which nothing fails (`SerialNext`), and one on which anything goes.

*`AuditLayer`* is `LayerKillCooldown`; *`AuditLoop`* is one case of
`PhiBenchmarkRunner._run_phi`, one action per exit of an iteration, composing
admission, channel contamination, layer kills, the task guard, the verdict of the
capability wall (an input), the OT gate, the event ledger and the registry. Admission
tickets are issued before the loop, so they look at the registry as it was then. `uses`
says which of admission, wall and guard the runner was built with.

*`WitnessLedger`* is the supervisor process with its file and its socket, and the
hooks that emit to it. One action per step of either side that another can observe:
`Connect`, `Send`, `Timeout` of a hook; `Start`, `Accept`, `GiveUp`, `Reject`,
`RejectNumbered`, `Record`, `Ack` of the supervisor; `RecordFails` and `Crash` end it, and
`Start` resumes from the file if it can be read back (`Readable`). Three sets of events
stand for what a text can do to the ledger: `Unsafe` is refused for its fields, `Garbled`
cannot be hashed, `Separated` splits its row when the file is read. `status` is the
witness status `_mirror_to_ledger` gives the hook. A hash is a fresh number per row built.
`emit_event` sends texts as they are, so a `Separated` one too; a `Garbled` one fails in
its own `encode`, and comes from another client: the socket takes lines from any. So a
refused event can use up a number, after which `verify_chain` reports a gap that no dropped row
made (`ChainHolds` allows as many as there were such events), and a file written whole can be
one that no supervisor starts on again; both are in the runs, and neither is claimed away.

*`EventLog`* is the abstract specification: an append-only
log whose acks are true.

*`BackfillJournal`* is the reversible board: hooks journal pre-images file by file
(`Admit`, `Snapshot`, `WriteManifest`, `NoJournal`), the host runs or drops the allowed
call (`Run`, `Decline`), a compromised call rolls its session back manifest by manifest
(`Compromised`, `RestoreManifest`, `EndRestore`, `Mark`), and `Kill` ends a hook anywhere
before its answer: then the host may run the tool all the same (`Slip`), as in
`HookAdmission`. `blobs`, `manifests`, `marker` are the files of the journal; `start`,
`first` and `alone` are history. A kill or a full disk that leaves a file half written
back, and so with a content nobody gave it, is not modelled. A request is a write of one content or a delete;
a call that both writes and deletes is not modelled, nor are directories that were
empty and file modes.

*`DualCourt`* is the aggregation as operators. Evidence is what each arm says of an
action; `Heard` are the testimonies, `Court` one court's share, `Primary` the strongest
testimony of the stage looked for first, `DecisionFrom` the fusion of both courts with
their conflict, `EscalateDecision` the overlay of the X-ray review, and
`AuditWithXrayReview` all of it with the two equation witnesses. What the arms say is free
here; `EvidenceArms` derives it.

*`ProtectScan`*, *`ChannelEye`* and *`EvidenceArms`* are those arms, as operators on one
action. `ProtectScan` is the third judge of the proposal, after gate and wall: effects of
its own tables (`ScanEffects`), findings by surface with their severities (`OwnFindings`,
`SandboxFindings`, `GatewayFindings`, `SurfaceFindings`), and a scan that raises when a
mutation names a target with a null byte. `ChannelEye` is the audit of one envelope: what
its content and its metadata hit, the checks of a declared pass road (`PassRoadClear`) and
the disposition; the envelopes of `MCAuditLoop` get their findings from it. `EvidenceArms`
turns an adapter's action into the proposal, the envelope and the four arms that read the
action itself, and puts the eight answers into a bundle (`EvidenceBundles`); `CourtsPass`
asks `DualCourt` for its verdict. A command is the set of tables it hits, for
each arm its own; where two arms use the same words, `TablesAgree` and `ScanTablesAgree` say
so, and all else is free, so that a text one arm reads and another does not is among the
questions. Payload records that name a gateway come from three places, and the arms do
not merge them alike (`ScanGateway`, `ArmGateway`).

*`HookAdmission`* is one PreToolUse process per call, the host, and one PostToolUse
process. `Judge` takes the enter frame and decides with the courts, the two relaxes, the
`.git` surface and the unknown tool; `TemporalVote`, `SceneVote`, `WriteLog` (with its
witness) and `Journal` tighten that decision in turn; `Restore` rolls a compromised
session back; `WriteState`, `WriteNote`, `WriteMarker` write the files the hooks share.
`FailClosed` is an exception, which denies; `Kill` ends a hook without an answer, and
then the host may run the tool. `Autopsy` compares the enter frame of the state file
with the project. What the temporal and scene judges, the witness and the journal
answer is free here; the modules above say what is behind it. A call has one file; an
image of a file is what it holds and when it was written (`data`), and its identity
(`object`). The review of the audit and the autopsy use one frame, scanned when the hook
begins: the code scans twice within the process, before and after the arms.

*`SceneContinuity`* is the judge behind `SceneVote`: hook processes list the anchors of
the surroundings (`List`), capture them one at a time (`CaptureOne`, `Captured`), load the
baseline (`LoadPrevious`), write the new one in two steps (`SaveOpen`, `SaveWrite`) and
`Answer`, while anchors are changed, appear and disappear (`Touch`), a process is killed
(`Crash`) or a file fails (`IOFailure`). A file two processes write at once may be torn,
and reads as no baseline. `steady` says of a branch that it lost no baseline and no answer,
`settled` that its last evaluation was undisturbed and nothing happened since; `quiet` says
of an evaluation that it is alone in its branch with no anchor changing, `calm` that its
branch was settled when it began. They are history, and no action looks at them. The host is told a reason code, so what a hold
names is what the ledger entry names. A removed anchor that comes back is new, and new
anchors are not held. The capture has 68 modules and a cut-off at 80, which therefore
never cuts; kinds of unusual files are one token; the skeleton list is always empty.

*`Prison`* is the wall between an agent and the core: `Connect`, `Send`, `Close` of the
agent (`Retire` is a `Close` when all it sent is answered), `Admit`, `PumpIn`, `PumpOut`,
`Seal` of the window (`serve`, and `relay` with its two pump threads), and `Serve` of the
core's one thread: `Accept`, `Judge` (a frame that is no request, a denial, or an order to
the warden), `Execute` (which may fail, and then ends the thread), `Reply` (which the
window may drop as oversized), `Ended`. `house` says whether the core runs
with the warden (`mediate`) or by itself. After `Seal` a frame that is queued may still
be judged and performed; its reply is lost. An agent that does not read (backpressure),
frames cut in half and the listen queue's limit of 128 are not modelled, nor the fields of
an operation: a request is one that is denied, allowed, performed or cannot be performed.
*`Mediation`* is the contract: per stream, requests are judged in order, the agent gets
the reply to its n-th frame as the n-th reply, and nothing more once a stream is sealed.

## The runs

| Run | Bounds | Shows |
|---|---|---|
| `temporal_ledger` | two processes, two branches, three evaluations, four proposals | `CalmVoteIsOwed`, `NoFalseKill`; on a host that waits for each hook, `SerialMemory`: the files implement the atomic memory, and `SerialRemembers` |
| `temporal_race` | two processes, no failure | `RememberedExit` violated: a lost update |
| `audit_loop` | two actors, two branches, six envelopes of 15 kinds, freeze at 2, bugcheck at 2, task limits 2 and 3; each of admission, wall and guard on or off; gate questions (texts of up to two token tables, up to two of six paths: inside, outside, `.phi`, registry, root, control surface) and wall questions (the same, three URLs, two more token tables, a skill); questions to the dual court in five groups: deletes, network, payload and profile, action types, pass roads | `Unanimous`, `DeleteScoped`, `PassedIsWithin`, `DeletesDoNotDrift`; `PassedIsPlain`, `EgressStays`, `DeletesAreOrdinary`, `OpaqueIsVouched`, `RoadsAreWalked`; `NeverRelaxed`, `AllowedActorIsFit`, `AllowedBranchIsClean`, `NoOverrun`, `OneNormalKill` |
| `witness_ledger` | four events: one refused, one that cannot be hashed, one with a line separator; a listening queue of two | `ChainHolds`; `SentIsAnswered`; `LogSpec`: the ledger implements `EventLog` |
| `witness_lost` | two events | `NoSilentAction` violated: a supervisor that dies during a send |
| `backfill_journal` | three calls of two sessions, one file, two contents (one too large) and its absence, failures, kills, tools that run without an answer | `GroundIsJournalled`, `RetakenInOrder` |
| `backfill_order` | three calls of one session, one file | `GroundRetaken` violated: manifests come in the order of ids |
| `hook_admission` | one call with up to two of 13 kinds of voice against it, the opaque wall besides, with and without a relax; two calls that write or delete one file, with ids of their own or one id; two contents, two identities | `CourtsAreStrongest`, `AllowedIsClear`, `AllowedIsOnRecord`, `DeleteIsNoted`, `AutopsyIsOfItsCall` |
| `surroundings` | two hooks, one branch, two anchors, three evaluations, two touches | `TamperIsReported`, `NoFalseHold`, `NoStall` |
| `prison` | two streams, two frames and one more of another kind, requests of three kinds, malformed and unparsable frames | `WardenActsOnRecord`; `MirrorSpec`: the agent sees a `Mediation`; `SentIsAnswered` while the thread lives |
| `prison_ends` | the same | `EveryRequestEnds` violated: a file that does not open ends the core's thread |
| `relax_unmasks` | four single calls | `RelaxUnmasksNothing` violated: a relax drops holds behind the primary one |

The bounds are the smallest at which the interesting cases happen: two overlapping
evaluations and a third that reads what they left; enough envelopes to pass every
limit and to go on after it; two token tables because every early return of a judge is
triggered by at most two; three calls, because a rollback needs something to roll back
and something that overlaps it (the two sessions are interchangeable, and TLC takes them
so); two voices and the wall, because a primary testimony is a matter of two testimonies
of a court, and a conflict of the strongest of each; two calls, because a state file or a
note has one writer and one that overwrites it; a queue of two with four emitters, so that it can be
full. One file is enough for the journal because no action relates two files except by
doing to each what it does to one. Two streams and three frames are the least at which
one stream waits for the other, and a reply can be taken for that of another request; two
anchors, so that a hold can name the wrong one, and three evaluations, so that a baseline
can be stale twice.

The questions to the dual court are grouped because the product of all that an action can
say is out of reach, and each group varies what one property turns on: what a delete
reaches and which arm reads the delete; URLs, gateway records from each source and network
words; effects, tokens, sandbox and profile; what follows from the type alone; the
declared road with skill trace and contracts. A URL, a host and a store of each kind
suffice, as each arm asks of a path only where it lies. In every group some question
passes: a scoped delete, a loopback URL, an opaque command behind a gateway, a
declared road under contract, so that no property holds for want of a case.

Most properties are safety and need no fairness. There are two liveness properties, both
called `SentIsAnswered`. That of the witness ledger assumes weak fairness of `Serve`: the
loop of `serve_forever` keeps running while the process does, and each of its waits is
bounded (`settimeout`). That of the prison assumes weak fairness of the window's `Admit`, pumps and
`Seal` and of the core's `Serve`, which is what a scheduler gives running threads, and of
`Retire`: an agent that has all its answers leaves. The core serves one stream until it
ends, so a promise to one stream rests on the agent of another. Nothing is assumed of hooks. The systems may stop (a case ends, `MaxEvents` is reached), so
deadlock is not checked where that bound is.

Five runs are disagreements between what the source says of itself and what it does,
listed under "findings": `temporal_race` (a lost update forgets a taint), `prison_ends` (one unreadable file and no
stream is served again), `witness_lost`
(a transport failure that is not held), `backfill_order` (what a rollback undoes) and
`relax_unmasks` (what a relax lets go: not only the opaque wall). `AllowedIsClear` says what
the relaxes do keep: nothing killed, quarantined or rejected passes, and nothing held by
admission, the protect scan or the channel audit, whose stages come before the wall.
`DeletesAreOrdinary` is about deletes an adapter declares, as the Claude hook always does: the
scan finds an undeclared delete by words padded with blanks, in a text it does not pad
(`_combined_text`), and so not at the very start of it.
The comment at the autopsy takes a quarantine of an allowed, journalled call to be
impossible; in `hook_admission` it happens, when another call removes or replaces the file
before the autopsy, and `AutopsyIsOfItsCall` says exactly when. Two more sentences about the rollback do not hold in the model and have no run: that it
happens at most once per session (two hooks that overlap both find no marker), and that
a healthy session's work is never rolled back (a file two sessions write is set back).
`RetakenInOrder` says what does hold: with nothing else going on, a complete rollback
takes a file of one session back to its beginning when the first change of the file has
the last journal.

## What is proved

* `JudgeProofs`: all nine properties of the questions, for any proposals, actions,
  manifests, profiles and layouts of paths, hosts and skills (`Unanimity`,
  `ScopedDeletes`, `WithinTheManifest`, `NoDriftOnDeletes`, `PlainWorkOnly`, `NothingLeaves`,
  `OrdinaryDeletes`, `OpaqueNeedsGateway`, `WalkedRoads`). Unanimity of the gate
  does not follow from the tally; it holds because
  every KILL of the boundary judge is critical, and the only uncritical kills of the
  others are on the two hard lists or come together with a critical boundary kill.
  For the dual court, `ArmsPass` is the bridge: a decision is PASS only if both verdicts
  are (`DecisionPasses`), a court's verdict only if each of its testimonies is
  (`CourtSpeaks`), and each of the eight arms has one, so `CourtsPass` gives what every arm
  lets through. Each property then takes the arms it needs: `PlainWorkOnly` the boundary
  judge and the scan, `NothingLeaves` the wall's unclear targets (a URL without a host) and
  the scan, `OrdinaryDeletes` path scan, patch, scan and the gate's scoped deletes,
  `OpaqueNeedsGateway` command surface and scan, which look for the record in different
  places, `WalkedRoads` eye and wall. `QuestionAssumption` has two hypotheses beyond types: the
  token tables of wall and gate overlap as they do in the code, and a trace in which the eye
  reads a recipe lists it for the wall as well.
* `TemporalLedgerProofs`: `TypeCorrect`, `CalmVotes`, `NoFalseKills`, for any number of
  processes, branches, proposals and any threshold. `CalmVoteIsOwed` is not inductive:
  it needs that the file of an undisturbed branch is exactly the summary of its history
  (markers beyond the primary ones are artifacts, and exist only if a primary one
  does), that at most one process is between its load and its write, and that what
  that process loaded is that summary. `NoFalseKill` needs that nothing reachable -
  files and loaded states - holds a marker of a branch that never entered a source.
  `FilesAreMemory` is the refinement `SerialMemory`: with one hook at a time what is loaded
  is what the file holds, and an open file is empty (`SerialInv`), so the rewrite of the file
  is `Judge` of the abstract memory, the load is `Ask`, a drain is `Drain`, and the rest
  stutters. `SerialHostRemembers` is the other side of the run
  `temporal_race`: what overlapping or failing hooks lose is all that is ever forgotten.
  `ExposureOnlyHardens` is about the pure step: it is monotone in what has accumulated, and so
  is its vote, so a torn or overwritten file can make the judge forget, never invent.
* `AuditLoopProofs`: `TypeCorrect`, `LayerKills`, `TasksStop`, `StatesEscalate`, `FitActors`,
  `CleanBranches`, for any policy, any actors and any envelopes. The invariant is that
  the registry says of each known actor what its counters derive, and that no task is
  past its limits.
* `WitnessLedgerProofs`: `Chain`, `ChainVerifies` and `LedgerIsALog`, for any events and any
  queue. `Chain` is `ChainHolds`: the file stays linked and numbered upwards, with no more
  gaps than numbers `RejectNumbered` used up; `ChainVerifies` is `ChainIntact`, what
  `verify_chain` asks, and has the hypothesis that there are no such events. The
  invariant is that a running supervisor holds the end of the chain, and a number no row
  is above, that an event has
  at most one connection, and that an event on record is neither queued nor being read
  again, and its hook is waiting for the ack, has it, or has given up.
* `BackfillJournalProofs`: `GroundJournalled` and `RollbackRetakes`
  (`RetakenInOrder`), for calls with distinct correlation ids
  (without a `tool_use_id`, `_event_correlation_id` gives two equal calls one directory,
  and the second overwrites the journal of the first). The invariant is that a file
  nobody has changed, every pre-image of it, and every rollback of it are all its
  beginning, that an allowed call has listed what it is about to change, and that a
  call without an allow, killed ones among them, has no manifest. For
  the rollback: while no other call moves, none is under way, the
  manifests done come before those to do, and a file whose first journal is done is at
  its beginning, since nothing behind that journal is about the file.
* `PrisonProofs`: `TypeCorrect`, `WardenObeys`, `AgentSeesMediation` (the refinement
  `MirrorSpec`), for any streams, frames and requests. The invariant pairs the n-th frame
  of a stream with the n-th verdict and the n-th reply: no reader is ahead of its
  writer, the core holds at most the answer of the stream it serves, a stream waits in one
  line at most.
* `SceneContinuityProofs`: `TypeCorrect`, `TamperReports`, `HoldsAreTrue`, `NoStalls`, for
  any number of hooks, anchors and evaluations. Each has an invariant of its own; that of
  `TamperReports` says where a change of a steady branch can be on its way: captured and
  not yet compared, compared and held, or still to be captured.
* `HookAdmissionProofs`: `CourtsHearAll` - for every evidence, the verdict of
  `audit_with_xray_review` is the strongest word of anyone. A set of testimonies stays
  `Sound` through courts, conflict, review and witnesses: its strongest word is heard by a
  court, and a PASS means that neither court is empty. From it, and from the order in which
  stages are looked through (`WallHolds`), `VerdictsAreStrongest` and `AllowedClear`. `OverlayOnlyTightens`: review and witnesses
  never make the verdict of the arms milder. With
  them `TypeCorrect`, `AllowedRecorded`, `DeletesNoted`, `AutopsiesMatch`, for any number of
  calls, sessions and files. The invariant says of each call what its row, its state
  file (for a call with an id of its own) and its note must be by the time it has come so far.

Every safety and action property of a passing run is thus a theorem. Only model-checked
are the two liveness properties `SentIsAnswered` (fairness and ENABLED are beyond the
prover) and what the violated runs refute. Assumptions: the named `ASSUME`s of the modules
(sizes, `Proposal` non-empty, policies positive, special values apart from ordinary ones,
and `QuestionAssumption`), which TLC evaluates in the runs.

## Not modelled

* Leases and the touch pipeline, the scene seeds and the replay guard: pure functions on
  immutable records. No part of the program calls them, so nothing keeps a record between
  two calls that an interleaving could disturb.
* The scanning of text, character by character, in any judge: which tables a command, a
  content or a payload hits is an input, as is what the walks over metadata find.
  `infer_pass_road` has no caller.
* The floating-point equations of the X-ray field and of the access witnesses, and the
  sampling thread: the hooks pass `enable_beat_sampling=False`. What review and witnesses
  say is an input of `DualCourt`.
* The opaque executor and the decoders: classification of command text, of which
  `EvidenceArms` has the answer. The startup notice of the scan and its command line:
  wording and printing.
* The connectors of other runtimes, the harness and the dry run of the adapter wall: they translate events
  to proposals for the judges that are modelled, or drive a dry run of the case runner.
* The box's namespace flags, the cage, the sandboxed runner, the launchers: calls of the
  operating system.
* Profiles, visibility, reports, demonstrations and soak runs: tables and wording.
* `paper_artifact/`: a frozen copy of this program, nearly half of the repository's code.
* In modelled components: a null byte or a symlink loop in a path beyond what the wall
  does with it, calls that write and delete at once, the operator's restore of one action
  (the same manifest restore), the event and receipt records of the hooks.

## Plan

All modules of the original plan are written. What is left, in the order it would be done:

1. The parsing of hook events to actions, as the input of `HookAdmission`.
2. An agent that does not read: bounded socket buffers in `Prison`.
