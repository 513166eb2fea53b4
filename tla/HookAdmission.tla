---------------------------- MODULE HookAdmission ----------------------------
(***************************************************************************)
(* The hooks of src/project/claude_code_hooks.py around one tool call: a   *)
(* PreToolUse process judges it (run_pretool_admission, main_pretool), the *)
(* host runs it when it is allowed, a PostToolUse process compares the     *)
(* X-ray frame kept in the state file with what it finds                   *)
(* (run_posttool_autopsy).  Processes of several calls interleave on the   *)
(* project, the state files, the log and the notes.                        *)
(*                                                                         *)
(* The temporal and the scene judge, the witness and the journal answer    *)
(* here as they please; TemporalLedger, WitnessLedger and BackfillJournal  *)
(* model what is behind the answers.                                       *)
(***************************************************************************)
EXTENDS DualCourt

CONSTANTS
    Call,
    Cid,        \* correlation ids; calls without a tool_use_id may share one
    Session,
    File,
    Data,       \* what a file holds and when it was written
    Object,     \* the file system's identity of a file
    Absent,     \* a file that does not exist
    NoState, Torn, NoAutopsy,
    Workload    \* the requests put to the hooks: what the calls are

Image == [data : Data, object : Object] \cup {Absent}

\* ride: safe_git_write or safe_in_project_archive_or_link; git_surface: a
\* write into the executable part of .git; scoped: a scoped single-file delete.
Request == [evidence : Evidence, ride : BOOLEAN, git_surface : BOOLEAN,
            recognized : BOOLEAN, cid : Cid, session : Session, file : File,
            effects : SUBSET {"WRITE", "DELETE"}, scoped : BOOLEAN]

State == [call : Call, blocked : BOOLEAN, enter : Image, expired : BOOLEAN]

ASSUME HookAssumption ==
    /\ Absent \notin [data : Data, object : Object]
    /\ NoState # Torn
    /\ {NoState, Torn} \cap (State \cup Call) = {}
    /\ NoAutopsy \notin {"PASS", "HOLD", "QUARANTINE"}
    /\ \A w \in Workload : DOMAIN w \subseteq Call /\ \A c \in DOMAIN w : w[c] \in Request

VARIABLES
    request,    \* the calls that are made, and what they ask
    pc,         \* where each call is
    output,     \* output[c]: the hook has a denial to print
    enter,      \* enter[c]: the enter frame in the memory of the hook
    state,      \* state[cid]: the state file
    log,        \* the pretool rows of the hooks' log
    marker,     \* marker[s]: the delete note of s is written
    note,       \* note[s]: the delete note, a file
    files,      \* the project
    autopsy     \* autopsy[c]: how the autopsy of c ended

vars == <<request, pc, output, enter, state, log, marker, note, files, autopsy>>

Made == DOMAIN request

Asked(c) == request[c]

Hook == {"new", "temporal", "scene", "condemned", "restore", "state", "log", "journal", "note",
         "noting", "mark", "answer"}

Init ==
    /\ request \in Workload
    /\ pc = [c \in Made |-> "new"]
    /\ output = [c \in Made |-> FALSE]
    /\ files \in [File -> Image]
    /\ enter = [c \in Made |-> Absent]
    /\ state = [d \in Cid |-> NoState]
    /\ log = {}
    /\ marker = [s \in Session |-> FALSE]
    /\ note = [s \in Session |-> NoState]
    /\ autopsy = [c \in Made |-> NoAutopsy]

Goto(c, where) == pc' = [pc EXCEPT ![c] = where]

\* A judge that speaks against c adds a denial and never takes one back.
Tighten(c, against) == output' = [output EXCEPT ![c] = @ \/ against]

-----------------------------------------------------------------------------
(* The PreToolUse process *)

Blocking == {"HOLD", "KILL", "QUARANTINE", "REJECT"}

\* A faulty variant: the wall has spoken, first or not.
OpaqueSpeaks(r, decision) ==
    Says("COMMAND_SURFACE", "HOLD") \in decision.testimonies /\ r.evidence.surface = "OPAQUE"

OpaqueIsPrimary(r, decision) ==
    decision.primary_stage = "COMMAND_SURFACE" /\ r.evidence.surface = "OPAQUE"

\* The two relaxes: a ride is let off the opaque wall.
Relaxed(r) == r.ride /\ OpaqueIsPrimary(r, AuditWithXrayReview(r.evidence))

SpatialDenial(r) ==
    AuditWithXrayReview(r.evidence).disposition \in Blocking /\ ~Relaxed(r)

\* The enter frame is taken, then the courts, the relaxes, the .git surface
\* and the unknown tool follow.
Judge(c) ==
    /\ pc[c] = "new"
    /\ enter' = [enter EXCEPT ![c] = files[Asked(c).file]]
    /\ Tighten(c, \/ SpatialDenial(Asked(c))
                  \/ Asked(c).git_surface
                  \/ ~Asked(c).recognized)
    /\ Goto(c, "temporal")
    /\ UNCHANGED <<request, state, log, marker, note, files, autopsy>>

\* A judge that cannot run ("ERROR") adds no tightening.
TemporalVote(c, vote) ==
    /\ pc[c] = "temporal"
    /\ Tighten(c, vote \in {"HOLD", "KILL"})
    /\ Goto(c, IF vote = "KILL" THEN "condemned" ELSE "scene")
    /\ UNCHANGED <<request, enter, state, log, marker, note, files, autopsy>>

SceneVote(c, vote) ==
    /\ pc[c] \in {"scene", "condemned"}
    /\ Tighten(c, vote = "HOLD")
    /\ Goto(c, IF pc[c] = "condemned" \/ vote = "HOLD" THEN "restore" ELSE "state")
    /\ UNCHANGED <<request, enter, state, log, marker, note, files, autopsy>>

\* Calls of the session of c that may have journalled f.
Journalled(c, f) ==
    {d \in Made \ {c} : /\ Asked(d).session = Asked(c).session
                        /\ Asked(d).file = f /\ Asked(d).effects # {}
                        /\ ~output[d]
                        /\ pc[d] \in {"note", "noting", "mark", "answer", "allowed",
                                      "killed", "ran", "done"}}

\* A compromised session is rolled back.  Whether, and to what, is for
\* BackfillJournal to say: here a journalled file may become anything.
Restore(c, rolled) ==
    /\ pc[c] = "restore"
    /\ \A f \in File : rolled[f] # files[f] => Journalled(c, f) # {}
    /\ files' = rolled
    /\ Goto(c, "state")
    /\ UNCHANGED <<request, output, enter, state, log, marker, note, autopsy>>

\* A faulty variant: one state file for a session.
StateOfSession(c) == CHOOSE d \in Cid : \E e \in Made :
                       Asked(e).session = Asked(c).session /\ Asked(e).cid = d

StatePath(c) == Asked(c).cid

\* A faulty variant: the state is written without its expiry.
WriteStateForever(c) ==
    /\ pc[c] = "state"
    /\ state' = [state EXCEPT ![StatePath(c)] =
                   [call |-> c, blocked |-> output[c], enter |-> enter[c]]]
    /\ Goto(c, "log")
    /\ UNCHANGED <<request, output, enter, log, marker, note, files, autopsy>>

\* State files of calls with one correlation id overwrite each other.
WriteState(c) ==
    /\ pc[c] = "state"
    /\ state' = [state EXCEPT ![StatePath(c)] =
                   [call |-> c, blocked |-> output[c], enter |-> enter[c],
                    expired |-> FALSE]]
    /\ Goto(c, "log")
    /\ UNCHANGED <<request, output, enter, log, marker, note, files, autopsy>>

\* A faulty variant: a row that cannot be written is passed over.
WriteLogOrNot(c, witness) ==
    /\ pc[c] = "log"
    /\ log' \in {log, log \cup {[call |-> c, blocked |-> output[c]]}}
    /\ Tighten(c, witness = "unavailable")
    /\ Goto(c, "journal")
    /\ UNCHANGED <<request, enter, state, marker, note, files, autopsy>>

\* The row says what has been decided so far; a lost witness holds.
WriteLog(c, witness) ==
    /\ pc[c] = "log"
    /\ log' = log \cup {[call |-> c, blocked |-> output[c]]}
    /\ Tighten(c, witness = "unavailable")
    /\ Goto(c, "journal")
    /\ UNCHANGED <<request, enter, state, marker, note, files, autopsy>>

\* What is still allowed is journalled; a delete whose body cannot be kept is
\* held.
Journal(c, held) ==
    /\ pc[c] = "journal"
    /\ held => ~output[c] /\ "DELETE" \in Asked(c).effects
    /\ Tighten(c, held)
    /\ Goto(c, "note")
    /\ UNCHANGED <<request, enter, state, log, marker, note, files, autopsy>>

NoteIsDue(c) ==
    /\ ~output[c]
    /\ "DELETE" \in Asked(c).effects /\ Asked(c).scoped
    /\ ~marker[Asked(c).session]

\* The first allowed delete of a session leaves a note, then a marker.
LookForMarker(c) ==
    /\ pc[c] = "note"
    /\ Goto(c, IF NoteIsDue(c) THEN "noting" ELSE "answer")
    /\ UNCHANGED <<request, output, enter, state, log, marker, note, files, autopsy>>

\* A faulty variant: the marker is all that is written.
MarkOnly(c) ==
    /\ pc[c] = "noting"
    /\ Goto(c, "mark")
    /\ UNCHANGED <<request, output, enter, state, log, marker, note, files, autopsy>>

WriteNote(c) ==
    /\ pc[c] = "noting"
    /\ note' = [note EXCEPT ![Asked(c).session] = c]
    /\ Goto(c, "mark")
    /\ UNCHANGED <<request, output, enter, state, log, marker, files, autopsy>>

\* The marker is written or, on an OSError, is not.
WriteMarker(c) ==
    /\ pc[c] = "mark"
    /\ \E written \in BOOLEAN : marker' = [marker EXCEPT ![Asked(c).session] = @ \/ written]
    /\ Goto(c, "answer")
    /\ UNCHANGED <<request, output, enter, state, log, note, files, autopsy>>

Answer(c) ==
    /\ pc[c] = "answer"
    /\ Goto(c, IF output[c] THEN "denied" ELSE "allowed")
    /\ UNCHANGED <<request, output, enter, state, log, marker, note, files, autopsy>>

\* A write that an exception or a kill interrupts may leave a torn file.
Interrupted(c) ==
    /\ \/ pc[c] = "state" /\ state' = [state EXCEPT ![StatePath(c)] = Torn]
       \/ UNCHANGED state
    /\ \/ pc[c] = "noting" /\ note' = [note EXCEPT ![Asked(c).session] = Torn]
       \/ UNCHANGED note
    /\ UNCHANGED <<request, output, enter, log, marker, files, autopsy>>

\* An exception is a denial; that of the marker is caught where it is raised.
FailClosed(c) ==
    /\ pc[c] \in Hook \ {"mark", "answer"}
    /\ Goto(c, "denied")
    /\ Interrupted(c)

\* A hook that is killed gives no answer.
Kill(c) ==
    /\ pc[c] \in Hook
    /\ Goto(c, "killed")
    /\ Interrupted(c)

-----------------------------------------------------------------------------
(* The host *)

Becomes(c, image) ==
    \/ image = files[Asked(c).file]
    \/ "WRITE" \in Asked(c).effects /\ image # Absent
    \/ "DELETE" \in Asked(c).effects /\ image = Absent

\* An allowed tool runs; so may one whose hook gave no answer.
Run(c, image) ==
    /\ pc[c] \in {"allowed", "killed"}
    /\ Becomes(c, image)
    /\ files' = [files EXCEPT ![Asked(c).file] = image]
    /\ Goto(c, "ran")
    /\ UNCHANGED <<request, output, enter, state, log, marker, note, autopsy>>

Expire(d) ==
    /\ state[d] \notin {NoState, Torn}
    /\ ~state[d].expired
    /\ \E c \in Made : pc[c] = "ran" /\ StatePath(c) = d
    /\ state' = [state EXCEPT ![d].expired = TRUE]
    /\ UNCHANGED <<request, pc, output, enter, log, marker, note, files, autopsy>>

-----------------------------------------------------------------------------
(* The PostToolUse process *)

\* The effect a finding stands for; "none" without a finding.
FindingEffect(before, after) ==
    IF before = after THEN "none" ELSE IF after = Absent THEN "DELETE" ELSE "WRITE"

\* A file that is there before and after must be the same object.
SameObject(before, after) ==
    Absent \notin {before, after} => before.object = after.object

\* An exact target and effect match explains a finding.
Explained(c, before, after) ==
    \/ before = after
    \/ FindingEffect(before, after) \in Asked(c).effects /\ SameObject(before, after)

\* What the transport gives away once it is sealed; blind: a part of the field
\* could not be observed.
SealDisguise(kept, blind) ==
    IF ~Explained(kept.call, kept.enter, files[Asked(kept.call).file]) THEN {"SUBSTITUTION"}
    ELSE {x \in {"OBSERVATION_BLINDSPOT"} : blind}

Closed(c, how) ==
    /\ pc[c] = "ran"
    /\ autopsy' = [autopsy EXCEPT ![c] = how]
    /\ Goto(c, "done")
    /\ UNCHANGED <<request, output, enter, state, log, marker, note, files>>

\* An unreadable state file raises: the row is an error, and nothing is seen.
AutopsyUnreadable(c) ==
    /\ state[StatePath(c)] = Torn
    /\ Closed(c, "unreadable")

AutopsyUnobserved(c) ==
    /\ state[StatePath(c)] # Torn
    /\ state[StatePath(c)] # NoState => state[StatePath(c)].expired
    /\ Closed(c, "unobserved")

\* The proposal and the enter frame come from the state file, the exit frame
\* from the project.
Autopsy(c, blind) ==
    LET kept == state[StatePath(c)]
    IN  /\ kept \notin {NoState, Torn}
        /\ ~kept.expired
        /\ Closed(c, Review(Asked(kept.call).evidence.frame \cup SealDisguise(kept, blind)))

-----------------------------------------------------------------------------

PreTool(c) ==
    \/ Judge(c)
    \/ \E vote \in {"PASS", "HOLD", "KILL", "ERROR"} : TemporalVote(c, vote)
    \/ \E vote \in {"PASS", "HOLD", "ERROR"} : SceneVote(c, vote)
    \/ \E rolled \in [File -> Image] : Restore(c, rolled)
    \/ WriteState(c)
    \/ \E witness \in {"recorded", "unavailable"} : WriteLog(c, witness)
    \/ \E held \in BOOLEAN : Journal(c, held)
    \/ LookForMarker(c) \/ WriteNote(c) \/ WriteMarker(c) \/ Answer(c) \/ FailClosed(c) \/ Kill(c)

PostTool(c) ==
    \/ AutopsyUnreadable(c)
    \/ AutopsyUnobserved(c)
    \/ \E blind \in BOOLEAN : Autopsy(c, blind)

Next ==
    \/ \E c \in Made : PreTool(c) \/ PostTool(c) \/ \E image \in Image : Run(c, image)
    \/ \E d \in Cid : Expire(d)

Spec == Init /\ [][Next]_vars

-----------------------------------------------------------------------------
(* Properties *)

\* Every variable has its type.
TypeOK ==
    /\ request \in Workload
    /\ pc \in [Made -> Hook \cup {"allowed", "denied", "killed", "ran", "done"}]
    /\ output \in [Made -> BOOLEAN]
    /\ enter \in [Made -> Image]
    /\ state \in [Cid -> State \cup {NoState, Torn}]
    /\ marker \in [Session -> BOOLEAN]
    /\ note \in [Session -> Call \cup {NoState, Torn}]
    /\ files \in [File -> Image]
    /\ autopsy \in [Made -> {NoAutopsy, "unreadable", "unobserved", "PASS", "HOLD", "QUARANTINE"}]

Alone(c) == \A d \in Made \ {c} : Asked(d).cid # Asked(c).cid

Loud(c) == {t \in Voices(Asked(c).evidence) : t.disposition # "PASS"}

\* No voice is lost on the way to the verdict of the courts: it is the
\* strongest word of any arm, of the X-ray review and of the two witnesses
\* (_decision_from_testimonies, escalate_decision).
CourtsAreStrongest ==
    \A c \in Made : pc[c] = "temporal" => AuditIsStrongest(Asked(c).evidence)

\* Whatever the relaxes let through was held at most: by the opaque wall and
\* by arms that come after it, never by admission, the protect scan or the
\* channel audit, never killed, quarantined or rejected by anyone; and they let
\* nothing into .git's executable surface (run_pretool_admission).
AllowedIsClear ==
    \A c \in Made : pc[c] = "allowed" =>
        /\ Asked(c).recognized /\ ~Asked(c).git_surface
        /\ Loud(c) # {} =>
             /\ Asked(c).ride
             /\ Says("COMMAND_SURFACE", "HOLD") \in Loud(c)
             /\ \A t \in Loud(c) :
                  /\ t.disposition = "HOLD"
                  /\ t.stage \notin {"ADMISSION", "PROTECT_SCAN", "CHANNEL_AUDIT"}

\* A relaxed call was held by nothing but the opaque wall: "We downgrade ONLY
\* when OPAQUE is the SOLE (primary) reason" (claude_code_hooks.py:148).
RelaxUnmasksNothing ==
    \A c \in Made : pc[c] = "allowed" => Loud(c) \subseteq {Says("COMMAND_SURFACE", "HOLD")}

\* A call is allowed only with its row in the log, which says so, and with its
\* enter frame in a state file that no other call of its id has touched.
AllowedIsOnRecord ==
    \A c \in Made : pc[c] = "allowed" =>
        /\ [call |-> c, blocked |-> FALSE] \in log
        /\ Alone(c) => /\ state[StatePath(c)] \notin {NoState, Torn}
                       /\ state[StatePath(c)].call = c
                       /\ ~state[StatePath(c)].blocked

\* An allowed scoped delete left a note of its session: about a delete that
\* was not denied, or torn when a hook ended in the middle of writing it.
DeleteIsNoted ==
    \A c \in Made : pc[c] = "allowed" /\ Asked(c).scoped /\ "DELETE" \in Asked(c).effects =>
        LET left == note[Asked(c).session]
        IN  /\ left # NoState
            /\ left \in Call => Asked(left).scoped /\ ~output[left]

\* What the change of the file of c comes to, from the admission of c to now,
\* is within what c declared: made or changed in place by a write, gone by a
\* delete.
Accounted(c) ==
    LET was == enter[c]
        now == files[Asked(c).file]
    IN  \/ now = was
        \/ now = Absent /\ "DELETE" \in Asked(c).effects
        \/ /\ now # Absent /\ "WRITE" \in Asked(c).effects
           /\ was # Absent => now.object = was.object

\* The autopsy of a call with an id of its own quarantines exactly when the
\* file is no longer what this call was admitted on and the difference is not
\* one it declared, whoever made it and however many other hooks came between.
AutopsyIsOfItsCall ==
    [][\A c \in Made :
         pc[c] = "ran" /\ autopsy'[c] \in {"PASS", "HOLD", "QUARANTINE"} /\ Alone(c) =>
             (autopsy'[c] = "QUARANTINE"
                <=> ~Accounted(c) \/ ~(Asked(c).evidence.frame \subseteq HoldAxis))]_vars
=============================================================================
