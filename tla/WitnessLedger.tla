---------------------------- MODULE WitnessLedger ----------------------------
(***************************************************************************)
(* The out-of-cage witness of src/project/pub_os_ledger.py: one supervisor *)
(* process owns a hash-chained file and serves hooks over a Unix socket,   *)
(* one connection at a time; each hook emits one event and waits for its   *)
(* ack for a limited time (emit_event), and _mirror_to_ledger of           *)
(* claude_code_hooks.py turns what happened into a witness status.         *)
(*                                                                         *)
(* A hash is a fresh number for every row built: rows carry a time stamp,  *)
(* and SHA-256 is taken as free of collisions.  An event is emitted once,  *)
(* so an event also names its connection and its hook.  The socket takes   *)
(* a line from any client; one that emit_event would not send comes from   *)
(* another, which hears the same answers.                                  *)
(***************************************************************************)
EXTENDS Naturals, Sequences

CONSTANTS
    Event,          \* the events hooks emit
    NoEvent,        \* no connection is served
    Unsafe,         \* those with a payload or authority field
    Garbled,        \* those with an escaped lone surrogate: no hash can be made
    Separated,      \* those with a line separator, such as U+2028, in their text
    Backlog         \* connections the listening socket holds

ASSUME WitnessAssumption ==
    /\ NoEvent \notin Event
    /\ Unsafe \subseteq Event /\ Garbled \subseteq Event \ Unsafe /\ Separated \subseteq Event
    /\ Backlog \in Nat \ {0}

VARIABLES
    rows,           \* the ledger file
    tail,           \* how its last line ends
    up,             \* the supervisor is running
    seq,            \* its _seq
    prev_hash,      \* its _prev_hash
    hashed,         \* hashes computed so far
    skipped,        \* history: the numbers given to no row
    backlog,        \* connections not yet accepted
    serving,        \* the connection in _handle
    acking,         \* ... and its row is in the file
    status          \* where the emission of each event is

ledgerVars == <<rows, tail>>
chainVars == <<seq, prev_hash, hashed, skipped>>
socketVars == <<backlog, serving, acking>>
vars == <<ledgerVars, up, chainVars, socketVars, status>>

Genesis == 0

Row == [seq : Nat, prev_hash : Nat, event : Event, row_hash : Nat]

\* "open" is a complete row without its newline, "torn" a line that is not JSON.
LineEnd == {"clean", "open", "torn"}

Final == {"recorded", "unavailable", "rejected", "error"}
Status == {"new", "connected", "sent"} \cup Final

Queued(e) == \E i \in 1..Len(backlog) : backlog[i] = e

\* The supervisor's end of the connection is open.
Alive(e) == up /\ (serving = e \/ Queued(e))

\* A hook that gave up waiting has still sent its event.
HasSent(e) == status[e] \in {"sent", "unavailable"}

\* rows() reads the file back: it splits the text at every line separator, and
\* the rows are written with those of their events as they are.
Readable == tail # "torn" /\ \A i \in 1..Len(rows) : rows[i].event \notin Separated

LastHash == IF rows = <<>> THEN Genesis ELSE rows[Len(rows)].row_hash

-----------------------------------------------------------------------------

Init ==
    /\ rows = <<>> /\ tail = "clean"
    /\ up = FALSE
    /\ seq = 0 /\ prev_hash = Genesis /\ hashed = 0 /\ skipped = 0
    /\ backlog = <<>> /\ serving = NoEvent /\ acking = FALSE
    /\ status = [e \in Event |-> "new"]

SetStatus(e, s) == status' = [status EXCEPT ![e] = s]

(* The emitting hook *)

Connect(e) ==
    /\ status[e] = "new"
    /\ up /\ Len(backlog) < Backlog
    /\ backlog' = Append(backlog, e)
    /\ SetStatus(e, "connected")
    /\ UNCHANGED <<ledgerVars, up, chainVars, serving, acking>>

\* No listener, or connect times out on a full backlog.
Refused(e) ==
    /\ status[e] = "new"
    /\ ~up \/ Len(backlog) >= Backlog
    /\ SetStatus(e, "unavailable")
    /\ UNCHANGED <<ledgerVars, up, chainVars, socketVars>>

\* sendall is outside the try: a closed peer raises a bare OSError.
Send(e) ==
    /\ status[e] = "connected"
    /\ SetStatus(e, IF Alive(e) THEN "sent" ELSE "error")
    /\ UNCHANGED <<ledgerVars, up, chainVars, socketVars>>

Timeout(e) ==
    /\ status[e] = "sent"
    /\ SetStatus(e, "unavailable")
    /\ UNCHANGED <<ledgerVars, up, chainVars, socketVars>>

(* The supervisor *)

\* A faulty variant: a restart begins the chain anew.
StartAnew ==
    /\ ~up /\ Readable
    /\ up' = TRUE
    /\ seq' = 0
    /\ prev_hash' = Genesis
    /\ UNCHANGED <<ledgerVars, hashed, skipped, socketVars, status>>

\* __post_init__ resumes the chain from the last row; a line that is not
\* JSON raises.
Start ==
    /\ ~up /\ Readable
    /\ up' = TRUE
    /\ seq' = IF rows = <<>> THEN 0 ELSE rows[Len(rows)].seq
    /\ prev_hash' = LastHash
    /\ UNCHANGED <<ledgerVars, hashed, skipped, socketVars, status>>

\* The process ends with everything it holds in memory.  A hook whose event was
\* never read sees its connection reset, one whose event was read sees it closed.
Die(wasRead) ==
    /\ up' = FALSE
    /\ backlog' = <<>> /\ serving' = NoEvent /\ acking' = FALSE
    /\ status' = [e \in Event |->
                    IF status[e] = "sent" /\ e \in wasRead THEN "unavailable"
                    ELSE IF status[e] = "sent" /\ Alive(e) THEN "error"
                    ELSE status[e]]

Accept ==
    /\ up /\ serving = NoEvent /\ backlog # <<>>
    /\ serving' = Head(backlog)
    /\ backlog' = Tail(backlog)
    /\ UNCHANGED <<ledgerVars, up, chainVars, acking, status>>

\* A faulty variant: the supervisor waits for as long as it takes.
NeverGiveUp == FALSE

\* conn.settimeout: a connection that sends nothing is let go.
GiveUp ==
    /\ up /\ serving # NoEvent /\ ~acking
    /\ status[serving] = "connected"
    /\ serving' = NoEvent
    /\ UNCHANGED <<ledgerVars, up, chainVars, backlog, acking, status>>

\* A faulty variant: a line is read again although its row is written.
Served(e) == up /\ serving = e /\ e # NoEvent /\ HasSent(e)

Reading(e) == up /\ serving = e /\ e # NoEvent /\ ~acking /\ HasSent(e)

\* A reply to a hook that is gone raises, which ends serve_forever.
Reply(e, answer) ==
    IF status[e] = "sent"
    THEN /\ SetStatus(e, answer)
         /\ serving' = NoEvent /\ acking' = FALSE
         /\ UNCHANGED <<up, backlog>>
    ELSE Die({e})

\* _reject_unsafe refuses the event.
Reject(e) ==
    /\ Reading(e) /\ e \in Unsafe
    /\ Reply(e, "rejected")
    /\ UNCHANGED <<ledgerVars, chainVars>>

\* The row has its number, and its hash raises a ValueError, which is answered
\* like a refusal.
RejectNumbered(e) ==
    /\ Reading(e) /\ e \in Garbled
    /\ Reply(e, "rejected")
    /\ seq' = seq + 1 /\ skipped' = skipped + 1
    /\ UNCHANGED <<ledgerVars, prev_hash, hashed>>

NextRow(e) == [seq |-> seq + 1, prev_hash |-> prev_hash, event |-> e, row_hash |-> hashed + 1]

Advance ==
    /\ seq' = seq + 1
    /\ hashed' = hashed + 1
    /\ prev_hash' = hashed + 1
    /\ skipped' = skipped

\* record: the chain moves on, then the row is appended.  A line that was left
\* without its newline takes the new row onto itself.
Record(e) ==
    /\ Reading(e) /\ e \notin Unsafe \cup Garbled
    /\ Advance
    /\ rows' = Append(rows, NextRow(e))
    /\ tail' = IF tail = "clean" THEN "clean" ELSE "torn"
    /\ acking' = TRUE
    /\ UNCHANGED <<up, backlog, serving, status>>

\* The append fails, or the process is killed in it: all, nothing or a part of
\* the line is in the file.
RecordFails(e) ==
    /\ Reading(e) /\ e \notin Unsafe \cup Garbled
    /\ Advance
    /\ \/ rows' = Append(rows, NextRow(e)) /\ tail' = (IF tail = "clean" THEN "open" ELSE "torn")
       \/ rows' = rows /\ tail' = "torn"
       \/ UNCHANGED ledgerVars
    /\ Die({e})

\* sendall of the ack.
Ack ==
    /\ up /\ acking
    /\ Reply(serving, "recorded")
    /\ UNCHANGED <<ledgerVars, chainVars>>

\* Killed or closed from outside, possibly between reading an event and recording
\* it; or a line that is JSON but no object, which raises a TypeError.
Crash ==
    /\ up
    /\ \E wasRead \in {{serving}} \cup {none \in {{}} : ~acking} : Die(wasRead)
    /\ UNCHANGED <<ledgerVars, chainVars>>

Emit(e) == Connect(e) \/ Refused(e) \/ Send(e) \/ Timeout(e)

Serve == Accept \/ GiveUp \/ Ack \/ \E e \in Event : Reject(e) \/ RejectNumbered(e) \/ Record(e)

Next ==
    \/ \E e \in Event : Emit(e) \/ RecordFails(e)
    \/ Start \/ Serve \/ Crash

Spec == Init /\ [][Next]_vars

\* The loop of serve_forever keeps running while the process does; nothing is
\* assumed of the hooks, which may stop anywhere.
FairSpec == Spec /\ WF_vars(Serve)

-----------------------------------------------------------------------------

TypeOK ==
    /\ rows \in Seq(Row) /\ tail \in LineEnd
    /\ up \in BOOLEAN /\ acking \in BOOLEAN
    /\ seq \in Nat /\ prev_hash \in Nat /\ hashed \in Nat /\ skipped \in Nat
    /\ backlog \in Seq(Event) /\ serving \in Event \cup {NoEvent}
    /\ status \in [Event -> Status]

\* A row commits to the one before it, and no two rows are alike.
Linked(i) ==
    /\ rows[i].prev_hash = IF i = 1 THEN Genesis ELSE rows[i-1].row_hash
    /\ \A j \in 1..(i-1) : rows[j].row_hash < rows[i].row_hash

\* "stamps a monotonic sequence and a hash-chain link" (pub_os_ledger.py:13-14):
\* through failures, kills and restarts the links hold, the numbers grow, and a
\* number is missing only for an event that was refused after it had got one.
ChainHolds ==
    \A i \in 1..Len(rows) :
        /\ Linked(i)
        /\ \A j \in 1..(i-1) : rows[j].seq < rows[i].seq
        /\ i <= rows[i].seq /\ rows[i].seq <= i + skipped

\* What verify_chain (pub_os_ledger.py:222) recomputes: linked, and numbered
\* without a gap.
ChainIntact == \A i \in 1..Len(rows) : rows[i].seq = i /\ Linked(i)

\* Every hook that has sent its event is answered, whatever other hooks do: one
\* that connects and never sends does not keep the supervisor to itself.
SentIsAnswered == \A e \in Event : status[e] = "sent" ~> status[e] \in Final

\* "If the witness is lost, an unrecorded action must not proceed silently"
\* (claude_code_hooks.py:284-285): the hook holds the action on "unavailable" only.
Proceeds(e) == status[e] \in {"recorded", "rejected", "error"}

NoSilentAction ==
    \A e \in Event \ Unsafe : Proceeds(e) => \E i \in 1..Len(rows) : rows[i].event = e

-----------------------------------------------------------------------------
(* The ledger implements the log: the file is append-only across crashes    *)
(* and restarts, no event is in it twice, and an ack is the truth.          *)

Told(e) ==
    CASE status[e] \in {"recorded", "rejected"} -> status[e]
      [] status[e] \in {"unavailable", "error"} -> "lost"
      [] OTHER -> "none"

Log == INSTANCE EventLog WITH
           log <- [i \in 1..Len(rows) |-> rows[i].event],
           answer <- [e \in Event |-> Told(e)]

LogSpec == Log!LogSpec
=============================================================================
