------------------------------ MODULE DualCourt ------------------------------
(***************************************************************************)
(* The dual court of src/project/parallel_audit.py and its X-ray overlay   *)
(* (xray_review.py), as the hooks call them: eight arms testify about one  *)
(* action, the testimonies are split over two courts, each court speaks    *)
(* with its strongest testimony, and the stronger court decides.  A review *)
(* of the X-ray frame and two equation witnesses are added afterwards.     *)
(*                                                                         *)
(* Evidence about an action is what the arms say of it.  A testimony is a  *)
(* stage and a disposition: within a stage only the surface's reason code  *)
(* is looked at later, and that stage has one testimony.                   *)
(***************************************************************************)
EXTENDS Naturals, FiniteSetsExt

Disposition == {"PASS", "HOLD", "QUARANTINE", "KILL", "REJECT"}

Rank == [PASS |-> 1, HOLD |-> 2, QUARANTINE |-> 3, KILL |-> 4, REJECT |-> 5]

Strongest(ds) == CHOOSE d \in ds : \A e \in ds : Rank[e] <= Rank[d]

\* Where a primary testimony is looked for, stage by stage.
StagePriority == [
    REJECT |-> <<"ADMISSION", "PROTECT_SCAN", "PATCH_AUDIT", "OT_GATE",
                 "CAPABILITY_PRECHECK", "CHANNEL_AUDIT", "COMMAND_SURFACE",
                 "DECODE_REVIEW", "AGGREGATOR", "PATH_SCAN", "NETWORK_SCAN">>,
    KILL |-> <<"PROTECT_SCAN", "PATCH_AUDIT", "CAPABILITY_PRECHECK", "OT_GATE",
               "PATH_SCAN", "NETWORK_SCAN", "CHANNEL_AUDIT", "COMMAND_SURFACE",
               "DECODE_REVIEW">>,
    QUARANTINE |-> <<"CHANNEL_AUDIT", "COMMAND_SURFACE", "DECODE_REVIEW",
                     "PROTECT_SCAN", "PATCH_AUDIT", "OT_GATE",
                     "CAPABILITY_PRECHECK", "PATH_SCAN", "NETWORK_SCAN">>,
    HOLD |-> <<"PROTECT_SCAN", "CHANNEL_AUDIT", "COMMAND_SURFACE",
               "DECODE_REVIEW", "OT_GATE", "CAPABILITY_PRECHECK", "PATH_SCAN",
               "NETWORK_SCAN", "PATCH_AUDIT">>,
    PASS |-> <<"CHANNEL_AUDIT", "COMMAND_SURFACE", "OT_GATE",
               "CAPABILITY_PRECHECK", "PATH_SCAN", "NETWORK_SCAN",
               "PATCH_AUDIT", "PROTECT_SCAN">>]

OTCourtStages == {"ADMISSION", "OT_GATE", "CAPABILITY_PRECHECK", "PROTECT_SCAN",
                  "PATCH_AUDIT"}

\* A faulty variant: network evidence is heard by no court.
DecodeWithoutNetwork == {"CHANNEL_AUDIT", "COMMAND_SURFACE", "PATH_SCAN", "DECODE_REVIEW"}

DecodeCourtStages == {"CHANNEL_AUDIT", "COMMAND_SURFACE", "PATH_SCAN",
                      "NETWORK_SCAN", "DECODE_REVIEW"}

Stage == OTCourtStages \cup DecodeCourtStages \cup {"AGGREGATOR"}

Testimony == [stage : Stage, disposition : Disposition]

Says(stage, disposition) == [stage |-> stage, disposition |-> disposition]

-----------------------------------------------------------------------------
(* Evidence *)

DisguiseAxis == {"POINTER", "ALIAS", "CONTAINER_ESCAPE", "SENSITIVE_SURFACE",
                 "OBSERVATION_BLINDSPOT", "RESPONSIBILITY_GAP", "SUBSTITUTION"}

HoldAxis == {"SENSITIVE_SURFACE", "OBSERVATION_BLINDSPOT", "RESPONSIBILITY_GAP"}

\* What an OT gate result keeps for the courts.
GateResult == [decision : {"ALLOW", "KILL"},
               hold_for_user : BOOLEAN,     \* HOLD_FOR_USER_CONFIRMATION
               hold_votes : 0..3]

\* ticket: the admission; frame, seal: disguise signals of the enter frame and
\* of the transport sealed during the audit; access, process: the witnesses.
Evidence == [ticket : {"ADMIT", "HOLD", "REJECT"},
             channel : {"PASS", "HOLD", "QUARANTINE"},
             surface : {"PASS", "OPAQUE", "UNKNOWN"},
             gate : GateResult,
             capability : {"PASS", "HOLD", "KILL"},
             path : {"PASS", "HOLD", "KILL"},
             network : {"PASS", "HOLD", "KILL"},
             patch : {"PASS", "HOLD", "KILL"},
             protect : {"PASS", "HOLD", "KILL"},
             frame : SUBSET (DisguiseAxis \ {"SUBSTITUTION"}),
             seal : SUBSET {"SUBSTITUTION", "OBSERVATION_BLINDSPOT"},
             access : {"NONE", "PASS", "HOLD"},
             process : {"NONE", "PASS", "HOLD"}]

\* A gate result with a HOLD vote is a HOLD, whatever it was killed for.
GateDisposition(result) ==
    IF result.decision = "ALLOW" THEN "PASS"
    ELSE IF result.hold_for_user \/ result.hold_votes > 0 THEN "HOLD" ELSE "KILL"

SurfaceDisposition(ev) == IF ev.surface = "PASS" THEN "PASS" ELSE "HOLD"

Bundle(ev) == {Says("CHANNEL_AUDIT", ev.channel),
               Says("COMMAND_SURFACE", SurfaceDisposition(ev)),
               Says("OT_GATE", GateDisposition(ev.gate)),
               Says("CAPABILITY_PRECHECK", ev.capability),
               Says("PATH_SCAN", ev.path),
               Says("NETWORK_SCAN", ev.network),
               Says("PATCH_AUDIT", ev.patch),
               Says("PROTECT_SCAN", ev.protect)}

AdmissionDisposition(ticket) ==
    IF ticket = "ADMIT" THEN "PASS" ELSE IF ticket = "REJECT" THEN "REJECT" ELSE "HOLD"

\* An action that is not admitted is not looked at by the arms.
Heard(ev) == {Says("ADMISSION", AdmissionDisposition(ev.ticket))}
             \cup (IF ev.ticket = "ADMIT" THEN Bundle(ev) ELSE {})

-----------------------------------------------------------------------------
(* Aggregation *)

\* The strongest testimony, of the stage looked for first.  A list that misses
\* all stages present falls back to the first testimony, the OT court's.
Primary(ts) ==
    LET strongest == Strongest({t.disposition : t \in ts})
        stages    == {t.stage : t \in {u \in ts : u.disposition = strongest}}
        priority  == StagePriority[strongest]
        listed    == {i \in DOMAIN priority : priority[i] \in stages}
        stage     == IF listed # {} THEN priority[Min(listed)]
                     ELSE IF stages \cap OTCourtStages # {}
                          THEN CHOOSE s \in stages \cap OTCourtStages : TRUE
                     ELSE CHOOSE s \in stages : TRUE
    IN  Says(stage, strongest)

Missing == Says("AGGREGATOR", "HOLD")

\* What a court has to go on; without a testimony no court may pass.
Court(stages, ts) ==
    LET own == {t \in ts : t.stage \in stages}
    IN  IF own = {} THEN {Missing} ELSE own

Verdict(court) == Primary(court).disposition

Conflict(ot, decode) ==
    IF Verdict(ot) = Verdict(decode) \/ Missing \in {Primary(ot), Primary(decode)} THEN {}
    ELSE {Says("AGGREGATOR", Strongest({Verdict(ot), Verdict(decode), "HOLD"}))}

DecisionFrom(ts) ==
    LET ot        == Court(OTCourtStages, ts)
        decode    == Court(DecodeCourtStages, ts)
        strongest == Strongest({Verdict(ot), Verdict(decode)})
        deciding  == UNION {c \in {ot, decode} : Verdict(c) = strongest}
        primary   == Primary({t \in deciding : t.disposition = strongest})
    IN  [disposition |-> primary.disposition,
         primary_stage |-> primary.stage,
         testimonies |-> ts \cup Conflict(ot, decode)]

Decision == [disposition : Disposition, primary_stage : Stage,
             testimonies : SUBSET Testimony]

RunParallelAudit(ev) == DecisionFrom(Heard(ev))

\* The review of a set of signals.
Review(axes) == IF axes = {} THEN "PASS"
                ELSE IF axes \subseteq HoldAxis THEN "HOLD" ELSE "QUARANTINE"

ReviewOf(ev) == Review(IF ev.ticket = "ADMIT" THEN ev.frame \cup ev.seal ELSE ev.seal)

\* KILL and REJECT rank alike here; PASS of a review never speaks.
EscalateDecision(decision, review) ==
    IF \/ Rank[review] <= Rank[decision.disposition]
       \/ review = "PASS"
    THEN decision
    ELSE DecisionFrom(decision.testimonies \cup {Says("DECODE_REVIEW", review)})

Equations(ev) == {Says("DECODE_REVIEW", d) : d \in {ev.access, ev.process} \ {"NONE"}}

AuditWithXrayReview(ev) ==
    LET reviewed == EscalateDecision(RunParallelAudit(ev), ReviewOf(ev))
    IN  IF Equations(ev) = {} THEN reviewed
        ELSE DecisionFrom(reviewed.testimonies \cup Equations(ev))

-----------------------------------------------------------------------------

\* Everything that was said of the action, the review included.
Voices(ev) == Heard(ev) \cup Equations(ev) \cup {Says("DECODE_REVIEW", ReviewOf(ev))}

\* The verdict is the strongest word of anyone: no voice is lost between the
\* courts, the review overlay and the two aggregations.
AuditIsStrongest(ev) ==
    AuditWithXrayReview(ev).disposition = Strongest({t.disposition : t \in Voices(ev)})
=============================================================================
