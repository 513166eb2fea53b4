-------------------------- MODULE SceneContinuity --------------------------
(***************************************************************************)
(* The surroundings judge (src/project/scene_continuity.py) as the hook    *)
(* processes run it: evaluate lists the anchors (the modules of the        *)
(* program), takes a token of each one after the other, loads the branch's *)
(* last capture, writes its own over it (open truncates, the text follows) *)
(* and compares.  Nothing is locked: evaluations of parallel tool calls    *)
(* interleave with each other and with whoever changes the anchors, a      *)
(* process may be killed between any two steps, and an OSError makes the   *)
(* caller (_run_scene of claude_code_hooks.py) go on without a vote.       *)
(***************************************************************************)
EXTENDS Naturals

CONSTANTS
    Hook,           \* hook processes
    Branch,         \* host-injected docket keys
    Anchor,         \* file names, numbered in their order
    Hash,           \* content hashes
    NoEntry,        \* a path that a capture does not list
    Nothing,        \* no previous capture
    Unreadable,     \* a baseline file that is missing, empty or not JSON
    MaxEvents,      \* bound on the evaluations of a run
    MaxTouches      \* bound on the changes of the anchors

\* _content_token: TYPE is a directory or another object, UNOBSERVED a file
\* that cannot be read now.
Token == Hash \cup {"ABSENT", "TYPE", "UNOBSERVED"}

\* A map from paths to tokens.
Capture == [Anchor -> Token \cup {NoEntry}]

ASSUME SceneAssumption ==
    /\ Anchor \subseteq Nat
    /\ NoEntry \notin Token
    /\ Hash \cap {"ABSENT", "TYPE", "UNOBSERVED"} = {}
    /\ Nothing \notin Capture
    /\ Unreadable \notin Capture \cup {Nothing}
    /\ Branch # {}
    /\ MaxEvents \in Nat /\ MaxTouches \in Nat

VARIABLES
    ground,     \* ground[a]: what an observation of the anchor gives now
    disk,       \* disk[b]: the baseline file of branch b
    hook,       \* hook[h]: the evaluation process h is in
    events,     \* evaluations begun
    touches,    \* changes of anchors so far
    touched,    \* history: anchors that were ever changed
    origin,     \* history: the baseline the branch began with
    told,       \* history: <<anchor, token>> of the baseline and of the holds answered
    steady,     \* history: the branch lost no baseline and no answer
    settled     \* history: the last evaluation was undisturbed, and nothing happened since

history == <<touched, origin, told, steady, settled>>
vars == <<ground, disk, hook, events, touches, history>>

Busy == {"capturing", "captured", "loaded", "opened", "saved"}
PC == {"idle", "answered", "unjudged"} \cup Busy

\* calm: the branch was settled when the evaluation began; quiet: it has been
\* alone in its branch, with no anchor changing; listed: the listing worked.
Evaluation ==
    [pc : PC, branch : Branch, todo : SUBSET Anchor, current : Capture,
     previous : Capture \cup {Nothing}, listed : BOOLEAN, calm : BOOLEAN, quiet : BOOLEAN]

Working(b) == {h \in Hook : hook[h].pc \in Busy /\ hook[h].branch = b}

-----------------------------------------------------------------------------
(* _diff and the report.                                                   *)

\* current.get(path, "ABSENT")
Now(current, a) == IF current[a] = NoEntry THEN "ABSENT" ELSE current[a]

\* A faulty variant: a blind spot is passed over.
DifferInSight(previous, current) ==
    IF previous = Nothing THEN {}
    ELSE {a \in Anchor : previous[a] # NoEntry /\ Now(current, a) \notin {previous[a], "UNOBSERVED"}}

\* The anchors a report names.  What is new in the current capture is not one.
Differ(previous, current) ==
    IF previous = Nothing THEN {}
    ELSE {a \in Anchor : previous[a] # NoEntry /\ Now(current, a) # previous[a]}

Unobserved(previous, current) ==
    {a \in Differ(previous, current) :
        Now(current, a) = "UNOBSERVED" /\ previous[a] \notin {"UNOBSERVED", "ABSENT"}}

SceneState(previous, current) ==
    IF previous = Nothing THEN "BASELINE"
    ELSE IF Differ(previous, current) \ Unobserved(previous, current) # {} THEN "DISCONTINUOUS"
    ELSE IF Unobserved(previous, current) # {} THEN "BLINDSPOT"
    ELSE "CONTINUOUS"

RequiresHold(previous, current) ==
    SceneState(previous, current) \in {"DISCONTINUOUS", "BLINDSPOT"}

Holds(h) == RequiresHold(hook[h].previous, hook[h].current)

\* What a hold of h says of the anchors.
Report(h) ==
    {<<a, Now(hook[h].current, a)>> : a \in Differ(hook[h].previous, hook[h].current)}

-----------------------------------------------------------------------------

NoCapture == [a \in Anchor |-> NoEntry]

Init ==
    /\ ground \in [Anchor -> Token]
    /\ disk = [b \in Branch |-> Unreadable]
    /\ hook = [h \in Hook |->
                 [pc |-> "idle", branch |-> CHOOSE b \in Branch : TRUE, todo |-> {},
                  current |-> NoCapture, previous |-> Nothing,
                  listed |-> TRUE, calm |-> FALSE, quiet |-> FALSE]]
    /\ events = 0
    /\ touches = 0
    /\ touched = {}
    /\ origin = [b \in Branch |-> Nothing]
    /\ told = [b \in Branch |-> {}]
    /\ steady = [b \in Branch |-> TRUE]
    /\ settled = [b \in Branch |-> FALSE]

\* _scene_anchors: the names there are now, or none when the listing fails.
List(h, b) ==
    /\ hook[h].pc \in {"idle", "answered", "unjudged"}
    /\ events < MaxEvents
    /\ events' = events + 1
    /\ \E listed \in BOOLEAN :
        hook' = [k \in Hook |->
            IF k = h
            THEN [pc |-> "capturing", branch |-> b,
                  todo |-> {a \in Anchor : listed /\ ground[a] # "ABSENT"},
                  current |-> NoCapture, previous |-> Nothing, listed |-> listed,
                  calm |-> settled[b], quiet |-> Working(b) = {}]
            ELSE [hook[k] EXCEPT !.quiet = @ /\ hook[k].branch # b]]
    /\ settled' = [settled EXCEPT ![b] = @ /\ Working(b) = {}]
    /\ UNCHANGED <<ground, disk, touches, touched, origin, told, steady>>

\* capture_surroundings looks at one anchor after the other.
CaptureOne(h) ==
    /\ hook[h].pc = "capturing"
    /\ \E a \in hook[h].todo :
        /\ \A other \in hook[h].todo : a <= other
        /\ hook' = [hook EXCEPT ![h].todo = @ \ {a}, ![h].current[a] = ground[a]]
    /\ UNCHANGED <<ground, disk, events, touches, history>>

Captured(h) ==
    /\ hook[h].pc = "capturing" /\ hook[h].todo = {}
    /\ hook' = [hook EXCEPT ![h].pc = "captured"]
    /\ UNCHANGED <<ground, disk, events, touches, history>>

\* A faulty variant: without a baseline every anchor is taken to be absent.
LoadAbsent(b) == {IF disk[b] = Unreadable THEN [a \in Anchor |-> "ABSENT"] ELSE disk[b]}

\* A faulty variant: no look at whether the file is sound.
LoadRaw(b) == {disk[b]}

\* _load; a read that fails gives None, too.
Load(b) == {Nothing} \cup ({disk[b]} \ {Unreadable})

LoadPrevious(h) ==
    LET b == hook[h].branch
    IN  /\ hook[h].pc = "captured"
        /\ \E previous \in Load(b) :
            /\ hook' = [hook EXCEPT ![h].pc = "loaded", ![h].previous = previous]
            /\ steady' = [steady EXCEPT ![b] =
                 @ /\ (previous = Nothing =>
                         /\ origin[b] = Nothing
                         /\ \A k \in Working(b) \ {h} : hook[k].pc \notin {"loaded", "opened"})]
        /\ UNCHANGED <<ground, disk, events, touches, touched, origin, told, settled>>

\* write_text opens the file, which empties it ...
SaveOpen(h) ==
    /\ hook[h].pc = "loaded"
    /\ hook' = [hook EXCEPT ![h].pc = "opened"]
    /\ disk' = [disk EXCEPT ![hook[h].branch] = Unreadable]
    /\ UNCHANGED <<ground, events, touches, history>>

\* A faulty variant: the first baseline stays.
KeptBaseline(h) == IF hook[h].previous = Nothing THEN hook[h].current ELSE hook[h].previous

\* Every action becomes the baseline of the next.
Saved(h) == hook[h].current

\* ... and writes the capture at the head of it.  A file another process has
\* filled meanwhile is left with its tail when it was the longer one.
SaveWrite(h) ==
    LET b == hook[h].branch
    IN  /\ hook[h].pc = "opened"
        /\ hook' = [hook EXCEPT ![h].pc = "saved"]
        /\ \E text \in {Saved(h)} \cup {t \in {Unreadable} : disk[b] # Unreadable} :
            disk' = [disk EXCEPT ![b] = text]
        /\ IF hook[h].previous = Nothing
           THEN /\ origin' = [origin EXCEPT ![b] = hook[h].current]
                /\ told' = [told EXCEPT ![b] = {<<a, hook[h].current[a]>> : a \in Anchor}]
           ELSE UNCHANGED <<origin, told>>
        /\ UNCHANGED <<ground, events, touches, touched, steady, settled>>

\* The hook gives its answer to the host.
Answer(h) ==
    LET b == hook[h].branch
    IN  /\ hook[h].pc = "saved"
        /\ hook' = [hook EXCEPT ![h].pc = "answered"]
        /\ told' = [told EXCEPT ![b] = IF Holds(h) THEN @ \cup Report(h) ELSE @]
        /\ settled' = [settled EXCEPT ![b] = @ \/ hook[h].quiet]
        /\ UNCHANGED <<ground, disk, events, touches, touched, origin, steady>>

\* The process is killed (the host's hook timeout, a shutdown).
Crash(h) ==
    /\ hook[h].pc \in Busy
    /\ hook' = [hook EXCEPT ![h].pc = "idle"]
    /\ steady' = [steady EXCEPT ![hook[h].branch] = @ /\ (hook[h].pc = "saved" => ~Holds(h))]
    /\ UNCHANGED <<ground, disk, events, touches, touched, origin, told, settled>>

\* An OSError of the open, or of the write, which may have written a part.
IOFailure(h) ==
    LET b == hook[h].branch
    IN  /\ hook[h].pc \in {"loaded", "opened"}
        /\ hook' = [hook EXCEPT ![h].pc = "unjudged"]
        /\ \E text \in {disk[b]} \cup {t \in {Unreadable} : hook[h].pc = "opened"} :
            disk' = [disk EXCEPT ![b] = text]
        /\ UNCHANGED <<ground, events, touches, history>>

\* Someone changes, removes or replaces an anchor, or makes it unreadable.
Touch(a, token) ==
    /\ touches < MaxTouches
    /\ token # ground[a]
    /\ touches' = touches + 1
    /\ ground' = [ground EXCEPT ![a] = token]
    /\ touched' = touched \cup {a}
    /\ hook' = [h \in Hook |-> [hook[h] EXCEPT !.quiet = FALSE]]
    /\ settled' = [b \in Branch |-> FALSE]
    /\ UNCHANGED <<disk, events, origin, told, steady>>

Step(h) ==
    \/ \E b \in Branch : List(h, b)
    \/ CaptureOne(h)
    \/ Captured(h)
    \/ LoadPrevious(h)
    \/ SaveOpen(h)
    \/ SaveWrite(h)
    \/ Answer(h)

Next ==
    \/ \E h \in Hook : Step(h) \/ Crash(h) \/ IOFailure(h)
    \/ \E a \in Anchor, token \in Token : Touch(a, token)

Spec == Init /\ [][Next]_vars

-----------------------------------------------------------------------------
(* What is to hold.                                                        *)

\* Every variable has its type.
TypeOK ==
    /\ ground \in [Anchor -> Token]
    /\ disk \in [Branch -> Capture \cup {Unreadable}]
    /\ hook \in [Hook -> Evaluation]
    /\ events \in Nat
    /\ touches \in Nat
    /\ touched \subseteq Anchor
    /\ origin \in [Branch -> Capture \cup {Nothing}]
    /\ told \in [Branch -> SUBSET (Anchor \X (Token \cup {NoEntry}))]
    /\ steady \in [Branch -> BOOLEAN]
    /\ settled \in [Branch -> BOOLEAN]

\* What the host was told, or what an evaluation that has saved is about to say.
Known(b) ==
    told[b] \cup UNION {Report(h) : h \in {k \in Working(b) : hook[k].pc = "saved" /\ Holds(k)}}

\* A capture in which every anchor of the origin is as the host knows it.  One
\* that was reported gone is no anchor of the branch any more.
Reported(b, capture) ==
    \A a \in Anchor :
        origin[b][a] # NoEntry =>
            <<a, Now(capture, a)>> \in Known(b) \/ <<a, "ABSENT">> \in Known(b)

\* "An anchor whose content hash moved, or that vanished/changed type, is a
\* DISCONTINUITY (HOLD)" (scene_continuity.py:6-7): however evaluations overlap
\* and whatever fails, a change that has become part of the baseline was held
\* first.  A branch that lost a baseline file or an answer is promised nothing.
TamperIsReported ==
    \A b \in Branch :
        steady[b] /\ disk[b] # Unreadable /\ origin[b] # Nothing => Reported(b, disk[b])

\* A hold names only anchors that someone has changed, whatever evaluations
\* overlap, unless the program's directory could not be listed.
NoFalseHold ==
    \A h \in Hook :
        hook[h].pc \in {"loaded", "opened", "saved", "answered"} /\ hook[h].listed
            => Differ(hook[h].previous, hook[h].current) \subseteq touched

\* "a single legitimate change costs one HOLD (ask), not a permanent stall"
\* (scene_continuity.py:14): an evaluation alone in its branch does not hold when
\* the last one was alone, too, and no anchor changed since that began.
NoStall ==
    \A h \in Hook :
        /\ hook[h].pc \in {"loaded", "opened", "saved", "answered"}
        /\ hook[h].listed /\ hook[h].calm /\ hook[h].quiet
        => ~Holds(h)
=============================================================================
