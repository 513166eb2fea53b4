--------------------------- MODULE JudgeQuestions ---------------------------
(***************************************************************************)
(* The judges as they are asked: one question to the OT gate, to the       *)
(* capability wall or to the dual court with its eight arms.  Any sets of  *)
(* questions may be given; what every answer has to satisfy is an          *)
(* invariant of the question.                                              *)
(***************************************************************************)
EXTENDS EvidenceArms

CONSTANTS GateQuestion, WallQuestion, CourtQuestion

\* The token tables of wall and gate overlap, and a trace the eye has read a
\* recipe in lists it for the wall as well.
ASSUME QuestionAssumption ==
    /\ GateQuestion \subseteq [proposal : CommandProposal, view : RegistryView]
    /\ WallQuestion \subseteq [ask : Ask, manifest : Manifest \cup {NoManifest}]
    /\ CourtQuestion \subseteq [action : ActionEnvelope, manifest : Manifest \cup {NoManifest},
                                view : RegistryView, profile : ProtectScanProfile]
    /\ \A q \in WallQuestion : TablesAgree(q.ask.proposal.text, q.ask.hits)
    /\ \A q \in CourtQuestion :
           q.action.road.traced => q.action.road.recipe \in q.action.trace.used

NoQuestion == [asked |-> "nothing"]

VARIABLE question

AskInit ==
    \/ question = NoQuestion
    \/ question \in GateQuestion
    \/ question \in WallQuestion
    \/ question \in CourtQuestion

\* The judges keep no state: one question is one behavior.
AskSpec == AskInit /\ [][UNCHANGED question]_question

AskedGate == "proposal" \in DOMAIN question
AskedWall == "ask" \in DOMAIN question
AskedCourts == "action" \in DOMAIN question

\* An ALLOW is unanimous (audit_command_proposal, ot_gate.py:846-863).
Unanimous ==
    AskedGate => AllowIsUnanimous(question.proposal, question.view)

\* A delete the gate lets through is scoped (ot_gate.py:663-684).
DeleteScoped ==
    AskedGate => AllowedDeleteIsScoped(question.proposal, question.view)

\* What the wall passes stays within the manifest (capability_wall.py:386-560).
PassedIsWithin ==
    AskedWall => WithinManifest(question.ask, question.manifest)

\* Wall and gate do not drift apart on deletes (capability_wall.py:380-383).
DeletesDoNotDrift ==
    AskedWall => NoDrift(question.ask, question.manifest)

\* What all eight arms let pass is plain work (parallel_audit.py:378-381).
PassedIsPlain ==
    AskedCourts => PlainWork(question.action, question.manifest,
                             question.view, question.profile)

\* Nothing leaves the machine (parallel_audit.py:683-758).
EgressStays ==
    AskedCourts => EgressIsLocal(question.action, question.manifest,
                                 question.view, question.profile)

\* A relaxed delete is ordinary (ot_gate.py:663-684, capability_wall.py:383).
DeletesAreOrdinary ==
    AskedCourts => DeleteIsOrdinary(question.action, question.manifest,
                                    question.view, question.profile)

\* What cannot be read needs a gateway (parallel_audit.py:504-510).
OpaqueIsVouched ==
    AskedCourts => OpaqueHasGateway(question.action, question.manifest,
                                    question.view, question.profile)

\* A declared pass road is walked (llm_channel.py:829-1051, capability_wall.py:916-960).
RoadsAreWalked ==
    AskedCourts => RoadIsWalked(question.action, question.manifest,
                                question.view, question.profile)
=============================================================================
