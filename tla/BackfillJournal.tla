--------------------------- MODULE BackfillJournal ---------------------------
(***************************************************************************)
(* The reversible board of src/project/claude_code_hooks.py: before an     *)
(* allowed mutation the PreToolUse hook copies the pre-image of every      *)
(* in-project target into a journal directory named by the correlation id  *)
(* (_journal_reversible_targets); when the sequence of a session is judged *)
(* compromised the hook of that call rolls the session back                *)
(* (restore_session_backfill), once, by a marker.                          *)
(*                                                                         *)
(* Every call is judged by a hook process of its own, and an allowed tool  *)
(* runs later, in the host; so the hooks and the tools of several calls    *)
(* interleave.  A hook may be killed before it has answered, and the host  *)
(* may run the tool all the same.  A call here is one that mutates         *)
(* in-project files or one that is judged compromised; the others touch    *)
(* neither files nor journal.                                              *)
(***************************************************************************)
EXTENDS Naturals

CONSTANTS
    Call,
    Cid,            \* Cid[c]: where the journal directory of c comes in sorted order
    Session,        \* sessions with an id
    File, Content,
    Absent,         \* a file that does not exist
    Oversize,       \* contents beyond the snapshot cap
    NotListed,      \* no entry in a manifest
    NoPreimage,     \* an entry without a snapshot: oversize, or the copy failed
    NoCall, NoManifest

ASSUME JournalAssumption ==
    /\ Cid \in [Call -> Nat]
    /\ Oversize \subseteq Content
    /\ Absent \notin Content
    /\ {NotListed, NoPreimage} \cap (Content \cup {Absent}) = {}
    /\ NotListed # NoPreimage
    /\ NoCall \notin Call

Dir == {Cid[c] : c \in Call}

Image == Content \cup {Absent}
Entry == Image \cup {NotListed, NoPreimage}

\* A write of one content or a delete, of the same files; tree is a recursive
\* delete, whose files are enumerated when it is judged.
Targets == SUBSET File \ {{}}

Request == [session : Session, targets : Targets, content : Content, tree : {FALSE}]
               \cup [session : Session, targets : Targets, content : {Absent}, tree : BOOLEAN]

Destructive(req) == req.content = Absent

Manifest == [session : Session, entries : [File -> Entry]]

ASSUME ManifestAssumption == NoManifest \notin Manifest

VARIABLES
    files,      \* the project
    blobs,      \* blobs[d][f]: the copy of f in directory d, NotListed without one
    manifests,  \* manifests[d]: the manifest.json of directory d
    marker,     \* marker[s]: s has been rolled back
    call,       \* where each call is
    start,      \* history: the project at the beginning
    first,      \* history: the call whose tool first changed a file
    alone       \* history: the rollback since whose beginning no other call moved

vars == <<files, blobs, manifests, marker, call, start, first, alone>>

PC == {"new", "journalling", "held", "allowed", "ran", "declined",
       "restoring", "restored", "denied", "killed", "slipped"}

-----------------------------------------------------------------------------

Init ==
    /\ files \in [File -> Image]
    /\ start = files
    /\ blobs = [d \in Dir |-> [f \in File |-> NotListed]]
    /\ manifests = [d \in Dir |-> NoManifest]
    /\ marker = [s \in Session |-> FALSE]
    /\ call = [c \in Call |-> [pc |-> "new"]]
    /\ first = [f \in File |-> NoCall]
    /\ alone = NoCall

\* Nobody's tool runs, and no rollback is alone any more.
Moves ==
    /\ alone' = NoCall
    /\ UNCHANGED <<start, first>>

Goto(c, pc) == call' = [call EXCEPT ![c].pc = pc]

(* Journalling an allowed mutation *)

Admit(c, req) ==
    /\ call[c].pc = "new"
    /\ call' = [call EXCEPT ![c] =
                  [pc |-> "journalling", req |-> req,
                   todo |-> {f \in req.targets : req.tree => files[f] # Absent},
                   entries |-> [f \in File |-> NotListed]]]
    /\ Moves /\ UNCHANGED <<files, blobs, manifests, marker>>

\* The journal directory cannot be made: a delete is held, a write goes on.
NoJournal(c) ==
    /\ call[c].pc = "journalling"
    /\ \A f \in File : call[c].entries[f] = NotListed
    /\ Goto(c, IF Destructive(call[c].req) THEN "held" ELSE "allowed")
    /\ Moves /\ UNCHANGED <<files, blobs, manifests, marker>>

Listed(c, f, entry) ==
    call' = [call EXCEPT ![c].todo = @ \ {f}, ![c].entries[f] = entry]

\* A faulty variant: whatever happens the hook goes on without a pre-image.
ListedWithout(c, f) == Listed(c, f, NoPreimage)

\* A delete without a pre-image is held, a write is listed without one.
Unrecoverable(c, f) ==
    IF Destructive(call[c].req) THEN Goto(c, "held") ELSE Listed(c, f, NoPreimage)

\* _backfill_snapshot_file.
Snapshot(c, f) ==
    LET tree == call[c].req.tree
        now  == files[f]
    IN  /\ call[c].pc = "journalling" /\ f \in call[c].todo
        /\ \/ /\ now = Absent
              /\ Listed(c, f, IF tree THEN NotListed ELSE Absent)
              /\ UNCHANGED blobs
           \/ /\ now \in Content \ Oversize
              /\ Listed(c, f, now)
              /\ blobs' = [blobs EXCEPT ![Cid[c]][f] = now]
           \/ /\ now \in Content      \* oversize, or stat, read or copy failed
              /\ Unrecoverable(c, f)
              /\ UNCHANGED blobs
        /\ Moves /\ UNCHANGED <<files, manifests, marker>>

\* The manifest is written and the call allowed; when writing it fails the hook
\* fails closed, and what it has left is not JSON.
WriteManifest(c) ==
    LET entries == call[c].entries
        m == [session |-> call[c].req.session, entries |-> entries]
    IN  /\ call[c].pc = "journalling" /\ call[c].todo = {}
        /\ IF \A f \in File : entries[f] = NotListed
           THEN Goto(c, "allowed") /\ UNCHANGED manifests
           ELSE \/ /\ manifests' = [manifests EXCEPT ![Cid[c]] = m]
                   /\ Goto(c, "allowed")
                \/ /\ manifests' = [manifests EXCEPT ![Cid[c]] = NoManifest]
                   /\ Goto(c, "held")
        /\ Moves /\ UNCHANGED <<files, blobs, marker>>

(* The host *)

Effect(req, f) == IF f \in req.targets THEN req.content ELSE files[f]

Changes(c, req) ==
    /\ files' = [f \in File |-> Effect(req, f)]
    /\ first' = [f \in File |-> IF first[f] = NoCall /\ files'[f] # files[f] THEN c ELSE first[f]]
    /\ alone' = NoCall
    /\ UNCHANGED <<blobs, manifests, marker, start>>

Run(c) ==
    /\ call[c].pc = "allowed"
    /\ Goto(c, "ran")
    /\ Changes(c, call[c].req)

\* The host runs a tool whose hook gave no answer.
Slip(c) ==
    /\ call[c].pc = "killed"
    /\ \E req \in call[c].may :
          /\ call' = [call EXCEPT ![c] = [pc |-> "slipped", req |-> req]]
          /\ Changes(c, req)

\* The user turns the call down, or the host does not run one without an answer.
Decline(c) ==
    /\ call[c].pc \in {"allowed", "killed"}
    /\ Goto(c, "declined")
    /\ Moves /\ UNCHANGED <<files, blobs, manifests, marker>>

(* Rolling a session back *)

At(pcs) == {b \in Call : call[b].pc \in pcs}

UnderWay == At({"journalling", "allowed", "restoring", "killed"})

Compromised(c, s) ==
    /\ call[c].pc = "new"
    /\ call' = [call EXCEPT ![c] =
                  IF marker[s]
                  THEN [pc |-> "denied", session |-> s, todo |-> {}]
                  ELSE [pc |-> "restoring", session |-> s,
                        todo |-> {d \in Dir : manifests[d] # NoManifest}]]
    /\ alone' = IF ~marker[s] /\ UnderWay = {} THEN c ELSE NoCall
    /\ UNCHANGED <<files, blobs, manifests, marker, start, first>>

OfSession(d, s) == manifests[d] # NoManifest /\ manifests[d].session = s

\* A faulty variant: a file that the session created is left alone.
CreatedIsKept(d, f) ==
    LET entry == manifests[d].entries[f]
    IN  IF entry \in Content /\ blobs[d][f] = entry THEN entry ELSE files[f]

\* What an entry of directory d makes of f; a copy that is not the one the
\* manifest has the hash of is passed over.
Restored(d, f) ==
    LET entry == manifests[d].entries[f]
    IN  CASE entry = Absent -> Absent
          [] entry \in Content /\ blobs[d][f] = entry -> entry
          [] OTHER -> files[f]

\* A rollback stays alone if it skips nothing.
Alone(c, skipped) == alone' = IF alone = c /\ skipped = {} THEN c ELSE NoCall

\* _restore_one_manifest on the next directory in sorted order; an entry whose
\* file cannot be written is skipped.
RestoreManifest(c) ==
    /\ call[c].pc = "restoring"
    /\ \E d \in call[c].todo, skipped \in SUBSET File :
         /\ \A e \in call[c].todo : d <= e
         /\ OfSession(d, call[c].session) \/ skipped = {}
         /\ call' = [call EXCEPT ![c].todo = @ \ {d}]
         /\ files' = [f \in File |-> IF OfSession(d, call[c].session) /\ f \notin skipped
                                    THEN Restored(d, f) ELSE files[f]]
         /\ Alone(c, skipped)
    /\ UNCHANGED <<blobs, manifests, marker, start, first>>

EndRestore(c) ==
    /\ call[c].pc = "restoring" /\ call[c].todo = {}
    /\ Goto(c, "restored")
    /\ Alone(c, {})
    /\ UNCHANGED <<files, blobs, manifests, marker, start, first>>

\* The marker is written, unless that fails, and the call is denied.
Mark(c) ==
    /\ call[c].pc = "restored"
    /\ Goto(c, "denied")
    /\ \/ marker' = [marker EXCEPT ![call[c].session] = TRUE]
       \/ UNCHANGED marker
    /\ Moves /\ UNCHANGED <<files, blobs, manifests>>

\* What the tool of c may do.
Asked(c) ==
    IF "req" \in DOMAIN call[c] THEN {call[c].req}
    ELSE {req \in Request : "session" \in DOMAIN call[c] => req.session = call[c].session}

\* A hook is killed before it has answered.  What it leaves before its manifest is
\* whole is not JSON, and one that dies later is as one that allowed its call; a
\* file it was about to write back is as it was, or as it is to be.
Kill(c) ==
    /\ call[c].pc \in {"new", "journalling", "held", "restoring", "restored", "denied"}
    /\ call' = [call EXCEPT ![c] = [pc |-> "killed", may |-> Asked(c)]]
    /\ Moves /\ UNCHANGED <<files, blobs, manifests, marker>>

Judge(c) ==
    \/ \E req \in Request : Admit(c, req)
    \/ NoJournal(c)
    \/ \E f \in File : Snapshot(c, f)
    \/ WriteManifest(c)
    \/ \E s \in Session : Compromised(c, s)
    \/ RestoreManifest(c)
    \/ EndRestore(c)
    \/ Mark(c)

Step(c) == Judge(c) \/ Run(c) \/ Slip(c) \/ Decline(c)

Next == \E c \in Call : Step(c) \/ Kill(c)

Spec == Init /\ [][Next]_vars

-----------------------------------------------------------------------------

\* Calls with an id of their own, as the host's tool_use_id gives them.
CidsDistinct == \A b, c \in Call : Cid[b] = Cid[c] => b = c

\* "Allow a delete only if recoverable" (claude_code_hooks.py:2047): whatever
\* overlaps or is rolled back, what a file held before any session touched it can
\* be had from the journal of the call that first changed it.  Only a write may go
\* without; and a call that the host ran although its hook was killed before it
\* answered, of which the journal then has nothing, never a part.
GroundIsJournalled ==
    \A f \in File : first[f] # NoCall =>
        LET c == first[f]
            d == Cid[c]
            m == manifests[d]
        IN  \/ /\ m # NoManifest
               /\ m.entries[f] = start[f]
               /\ start[f] \in Content => blobs[d][f] = start[f]
            \/ /\ ~Destructive(call[c].req)
               /\ m = NoManifest \/ m.entries[f] \in {NotListed, NoPreimage}
            \/ call[c].pc = "slipped" /\ m = NoManifest

\* No call of another session targets f.
Private(s, f) ==
    \A c \in Call : "req" \in DOMAIN call[c] /\ f \in call[c].req.targets
                        => call[c].req.session = s

\* The directories whose manifest has an entry of s for f.
Journals(s, f) == {d \in Dir : OfSession(d, s) /\ manifests[d].entries[f] # NotListed}

Recoverable(s, f) ==
    \A d \in Journals(s, f) : LET entry == manifests[d].entries[f]
                              IN  entry \in Image /\ (entry # Absent => blobs[d][f] = entry)

\* The session s changed f, has a pre-image for every change, and is alone on it.
Retakable(s, f) ==
    /\ Private(s, f) /\ first[f] # NoCall
    /\ \A c \in Call : call[c].pc \in {"ran", "slipped"} /\ f \in call[c].req.targets
                           => Cid[c] \in Journals(s, f)
    /\ Recoverable(s, f)

\* A rollback that has just ended, while no other call moved, took f back.
RolledBack(f) ==
    \A c \in Call :
        call[c].pc = "restored" /\ alone = c /\ Retakable(call[c].session, f)
        => files[f] = start[f]

\* A rollback takes a file back to what it was before the session touched it,
\* when the journal of the call that first changed it is the last in sorted order.
RetakenInOrder ==
    \A f \in File :
        (first[f] # NoCall => \A s \in Session : \A d \in Journals(s, f) : d <= Cid[first[f]])
            => RolledBack(f)

\* The same for every file: the rollback is for "undoing the in-project changes a
\* now-hostile session made before it was caught" (claude_code_hooks.py:2235).
GroundRetaken == \A f \in File : RolledBack(f)
=============================================================================
