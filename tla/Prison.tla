------------------------------- MODULE Prison -------------------------------
(***************************************************************************)
(* The prison pub_run.py assembles.  The agent in the box writes requests  *)
(* to its one socket; the window (pub_os_broker.serve, relay) opens a      *)
(* fresh connection to the core for each stream and relays frames with one *)
(* pump per direction; the core's one thread (pub_run._serve_eyes_warden,  *)
(* or pub_os_core.serve) accepts one stream at a time, judges each frame,  *)
(* records the verdict, lets the warden act on a sealed PASS and replies.  *)
(* The sockets are AF_UNIX: bytes written before a close are still read.   *)
(* A queue is its sender's sequence and the reader's position in it.       *)
(***************************************************************************)
EXTENDS Naturals, Sequences, Functions

CONSTANTS
    Stream,
    Request,    \* what the agent may ask: see RequestType
    Malformed,  \* a frame whose length is zero or above MAX_FRAME_BYTES
    Junk,       \* a whole frame whose payload cannot be parsed or judged
    MaxSent     \* bound: MaxSent[s] frames are written to stream s

Disposition == {"PASS", "HOLD", "KILL"}

\* command, target: what the audit pipeline says of the shell text and of a
\* Read of the path; kind, path, named: what the operation says of itself.
RequestType ==
    [command : Disposition, kind : {"read", "other"}, path : BOOLEAN,
     named : BOOLEAN, target : Disposition]

ASSUME RequestAssumption ==
    Request \subseteq RequestType /\ Malformed \notin Request /\ Junk \notin Request
ASSUME MaxSentAssumption == MaxSent \in [Stream -> Nat]

Frame == Request \cup {Malformed, Junk}

None == "none"

VARIABLES
    house,      \* the loop behind the window: "core" judges, "mediate" acts too
    listening,  \* the core's socket is there to connect to
    box,        \* box[s]: the agent's end of s
    knocking,   \* streams the window has still to accept
    window,     \* window[s]: the relay of s
    pumps,      \* pumps[s]: the relay's threads still running
    backlog,    \* streams the core has still to accept
    core,       \* core[s]: the core's end of s
    step,       \* what the core's thread is about to do
    serving,    \* the stream it serves
    pending,    \* the reply it is about to send
    sent,       \* sent[s]: frames the agent has written
    forwarded,  \* forwarded[s]: how many of them the window has passed on
    record,     \* record[s]: the verdicts recorded for s (one per judged frame)
    acted,      \* acted[s]: the frames of s the warden has acted on, in order
    replies,    \* replies[s]: what the core has written back
    delivered   \* delivered[s]: how many of those the window has passed on

boxVars == <<box, sent>>
windowVars == <<knocking, window, pumps, forwarded, delivered>>
coreVars == <<core, step, serving, pending, record, acted, replies>>
vars == <<house, listening, boxVars, windowVars, backlog, coreVars>>

Init ==
    /\ house \in {"core", "mediate"}
    /\ listening \in BOOLEAN
    /\ box = [s \in Stream |-> "new"]
    /\ knocking = <<>>
    /\ window = [s \in Stream |-> "none"]
    /\ pumps = [s \in Stream |-> {}]
    /\ backlog = <<>>
    /\ core = [s \in Stream |-> "none"]
    /\ step = "idle" /\ serving = None /\ pending = None
    /\ sent = [s \in Stream |-> <<>>]
    /\ forwarded = [s \in Stream |-> 0]
    /\ record = [s \in Stream |-> <<>>]
    /\ acted = [s \in Stream |-> <<>>]
    /\ replies = [s \in Stream |-> <<>>]
    /\ delivered = [s \in Stream |-> 0]

-----------------------------------------------------------------------------
(* The judgement.                                                          *)

\* A PASS of the command does not carry over to an operation it does not name.
Binds(r) == r.kind = "read" /\ r.path /\ r.named

JudgeOperation(r) ==
    IF r.command # "PASS" THEN r.command
    ELSE IF Binds(r) THEN r.target ELSE "HOLD"

\* serve_core judges the command alone.
Verdict(r) == IF house = "core" THEN r.command ELSE JudgeOperation(r)

\* A faulty variant: the agent is told what the court said.
TellAll(disposition) == IF disposition = "PASS" THEN "ok" ELSE disposition

\* The one-way mirror: the agent learns allowed or denied, and no more.
AgentReply(disposition) == IF disposition = "PASS" THEN "ok" ELSE "deny"

-----------------------------------------------------------------------------
(* The agent.                                                              *)

Connect(s) ==
    /\ box[s] = "new"
    /\ box' = [box EXCEPT ![s] = "open"]
    /\ knocking' = Append(knocking, s)
    /\ UNCHANGED <<house, listening, sent, window, pumps, forwarded, delivered,
                   backlog, coreVars>>

Send(s, f) ==
    /\ box[s] = "open" /\ window[s] # "sealed"
    /\ Len(sent[s]) < MaxSent[s]
    /\ sent' = [sent EXCEPT ![s] = Append(@, f)]
    /\ UNCHANGED <<house, listening, box, windowVars, backlog, coreVars>>

\* The agent closes its socket, or dies.
Close(s) ==
    /\ box[s] = "open"
    /\ box' = [box EXCEPT ![s] = "closed"]
    /\ UNCHANGED <<house, listening, sent, windowVars, backlog, coreVars>>

\* An agent that has all its answers.
Retire(s) == delivered[s] = Len(sent[s]) /\ Close(s)

-----------------------------------------------------------------------------
(* The window.                                                             *)

\* One round of serve: accept, connect to the core, start the relay.
Admit ==
    /\ knocking # <<>>
    /\ knocking' = Tail(knocking)
    /\ LET s == Head(knocking)
       IN  IF listening
           THEN /\ window' = [window EXCEPT ![s] = "relaying"]
                /\ pumps' = [pumps EXCEPT ![s] = {"in", "out"}]
                /\ backlog' = Append(backlog, s)
                /\ core' = [core EXCEPT ![s] = "waiting"]
           ELSE /\ window' = [window EXCEPT ![s] = "sealed"]
                /\ UNCHANGED <<pumps, backlog, core>>
    /\ UNCHANGED <<house, listening, boxVars, forwarded, delivered, step,
                   serving, pending, record, acted, replies>>

Running(s, pump) == window[s] = "relaying" /\ pump \in pumps[s]

\* read_frame gives None, or the write fails: _pump returns and sets done.
Stops(s, pump) ==
    /\ pumps' = [pumps EXCEPT ![s] = @ \ {pump}]
    /\ UNCHANGED <<forwarded, delivered>>

PumpIn(s) ==
    /\ Running(s, "in")
    /\ \/ /\ forwarded[s] < Len(sent[s])
          /\ IF sent[s][forwarded[s] + 1] = Malformed \/ core[s] = "closed"
             THEN Stops(s, "in")
             ELSE /\ forwarded' = [forwarded EXCEPT ![s] = @ + 1]
                  /\ UNCHANGED <<pumps, delivered>>
       \/ /\ forwarded[s] = Len(sent[s]) /\ box[s] = "closed"
          /\ Stops(s, "in")
    /\ UNCHANGED <<house, listening, boxVars, knocking, window, backlog, coreVars>>

PumpOut(s) ==
    /\ Running(s, "out")
    /\ \/ /\ delivered[s] < Len(replies[s])
          /\ IF replies[s][delivered[s] + 1] = "oversized" \/ box[s] = "closed"
             THEN Stops(s, "out")
             ELSE /\ delivered' = [delivered EXCEPT ![s] = @ + 1]
                  /\ UNCHANGED <<pumps, forwarded>>
       \/ /\ delivered[s] = Len(replies[s]) /\ core[s] = "closed"
          /\ Stops(s, "out")
    /\ UNCHANGED <<house, listening, boxVars, knocking, window, backlog, coreVars>>

\* A faulty variant: the relay waits for both of its pumps.
SealWhenBothEnd(s) ==
    /\ window[s] = "relaying" /\ pumps[s] = {}
    /\ window' = [window EXCEPT ![s] = "sealed"]
    /\ UNCHANGED <<house, listening, boxVars, knocking, pumps, forwarded,
                   delivered, backlog, coreVars>>

\* done is set: relay shuts both sockets down.
Seal(s) ==
    /\ window[s] = "relaying" /\ pumps[s] # {"in", "out"}
    /\ window' = [window EXCEPT ![s] = "sealed"]
    /\ UNCHANGED <<house, listening, boxVars, knocking, pumps, forwarded,
                   delivered, backlog, coreVars>>

-----------------------------------------------------------------------------
(* The core: one thread, one stream at a time.                             *)

Accept ==
    /\ step = "idle" /\ backlog # <<>>
    /\ serving' = Head(backlog)
    /\ backlog' = Tail(backlog)
    /\ core' = [core EXCEPT ![Head(backlog)] = "served"]
    /\ step' = "reading"
    /\ UNCHANGED <<house, listening, boxVars, windowVars, pending, record,
                   acted, replies>>

\* The loop breaks: the connection is closed, the next one is accepted.
HangUp(s) ==
    /\ core' = [core EXCEPT ![s] = "closed"]
    /\ step' = "idle" /\ serving' = None /\ pending' = None

\* A faulty variant: what is denied gets no reply.
JudgeSilently(s) ==
    /\ step = "reading" /\ serving = s
    /\ Len(record[s]) < forwarded[s]
    /\ LET f == sent[s][Len(record[s]) + 1]
       IN  IF f = Junk
           THEN HangUp(s) /\ UNCHANGED record
           ELSE /\ record' = [record EXCEPT ![s] = Append(@, Verdict(f))]
                /\ IF house = "mediate" /\ Verdict(f) = "PASS"
                   THEN step' = "ordered" /\ UNCHANGED pending
                   ELSE IF Verdict(f) = "PASS"
                        THEN step' = "answering" /\ pending' = AgentReply(Verdict(f))
                        ELSE UNCHANGED <<step, pending>>
                /\ UNCHANGED <<core, serving>>
    /\ UNCHANGED <<house, listening, boxVars, windowVars, backlog, acted, replies>>

\* A faulty variant: the warden is asked whatever the verdict.
OrderEverything(s) ==
    /\ step = "reading" /\ serving = s
    /\ Len(record[s]) < forwarded[s]
    /\ LET f == sent[s][Len(record[s]) + 1]
       IN  IF f = Junk
           THEN HangUp(s) /\ UNCHANGED record
           ELSE /\ record' = [record EXCEPT ![s] = Append(@, Verdict(f))]
                /\ IF house = "mediate"
                   THEN step' = "ordered" /\ UNCHANGED pending
                   ELSE step' = "answering" /\ pending' = AgentReply(Verdict(f))
                /\ UNCHANGED <<core, serving>>
    /\ UNCHANGED <<house, listening, boxVars, windowVars, backlog, acted, replies>>

Judge(s) ==
    /\ step = "reading" /\ serving = s
    /\ Len(record[s]) < forwarded[s]
    /\ LET f == sent[s][Len(record[s]) + 1]
       IN  IF f = Junk
           THEN HangUp(s) /\ UNCHANGED record
           ELSE /\ record' = [record EXCEPT ![s] = Append(@, Verdict(f))]
                /\ IF house = "mediate" /\ Verdict(f) = "PASS"
                   THEN step' = "ordered" /\ UNCHANGED pending
                   ELSE step' = "answering" /\ pending' = AgentReply(Verdict(f))
                /\ UNCHANGED <<core, serving>>
    /\ UNCHANGED <<house, listening, boxVars, windowVars, backlog, acted, replies>>

\* The warden opens the file of a sealed PASS.  There is no try around it: a
\* file that cannot be opened ends the thread, whose connection is then closed.
\* The reply is twice as long as the file, and may exceed a frame.
Execute(s) ==
    /\ step = "ordered" /\ serving = s
    /\ acted' = [acted EXCEPT ![s] = Append(@, Len(record[s]))]
    /\ \/ /\ \E reply \in {"ok", "oversized"} : pending' = reply
          /\ step' = "answering"
          /\ UNCHANGED <<core, serving>>
       \/ /\ step' = "dead" /\ serving' = None
          /\ core' = [core EXCEPT ![s] = "closed"]
          /\ UNCHANGED pending
    /\ UNCHANGED <<house, listening, boxVars, windowVars, backlog, record, replies>>

\* The write of an oversized reply does not return before the window seals.
Reply(s) ==
    /\ step = "answering" /\ serving = s
    /\ IF window[s] = "sealed"
       THEN HangUp(s) /\ UNCHANGED replies
       ELSE /\ replies' = [replies EXCEPT ![s] = Append(@, pending)]
            /\ step' = IF pending = "oversized" THEN "blocked" ELSE "reading"
            /\ pending' = None
            /\ UNCHANGED <<core, serving>>
    /\ UNCHANGED <<house, listening, boxVars, windowVars, backlog, record, acted>>

\* The window has sealed: the blocked write fails, or the read finds the end.
Ended(s) ==
    /\ serving = s /\ window[s] = "sealed"
    /\ \/ step = "blocked"
       \/ step = "reading" /\ Len(record[s]) = forwarded[s]
    /\ HangUp(s)
    /\ UNCHANGED <<house, listening, boxVars, windowVars, backlog, record, acted,
                   replies>>

Serve == Accept \/ \E s \in Stream : Judge(s) \/ Execute(s) \/ Reply(s) \/ Ended(s)

-----------------------------------------------------------------------------
Next ==
    \/ Admit
    \/ Serve
    \/ \E s \in Stream :
        \/ Connect(s) \/ Close(s) \/ PumpIn(s) \/ PumpOut(s) \/ Seal(s)
        \/ \E f \in Frame : Send(s, f)

\* Every thread of the house keeps running, and an agent that has all its
\* answers leaves: the core serves nobody else as long as it stays.
Fairness ==
    /\ WF_vars(Admit) /\ WF_vars(Serve)
    /\ \A s \in Stream :
        WF_vars(PumpIn(s)) /\ WF_vars(PumpOut(s)) /\ WF_vars(Seal(s)) /\ WF_vars(Retire(s))

Spec == Init /\ [][Next]_vars

FairSpec == Spec /\ Fairness

-----------------------------------------------------------------------------
(* What is to hold.                                                        *)

\* Every variable has its type.
TypeOK ==
    /\ house \in {"core", "mediate"}
    /\ listening \in BOOLEAN
    /\ box \in [Stream -> {"new", "open", "closed"}]
    /\ knocking \in Seq(Stream)
    /\ window \in [Stream -> {"none", "relaying", "sealed"}]
    /\ pumps \in [Stream -> SUBSET {"in", "out"}]
    /\ backlog \in Seq(Stream)
    /\ core \in [Stream -> {"none", "waiting", "served", "closed"}]
    /\ step \in {"idle", "reading", "ordered", "answering", "blocked", "dead"}
    /\ serving \in Stream \cup {None}
    /\ pending \in {None, "ok", "deny", "oversized"}
    /\ sent \in [Stream -> Seq(Frame)]
    /\ forwarded \in [Stream -> Nat]
    /\ record \in [Stream -> Seq(Disposition)]
    /\ acted \in [Stream -> Seq(Nat)]
    /\ replies \in [Stream -> Seq({"ok", "deny", "oversized"})]
    /\ delivered \in [Stream -> Nat]

\* The frame whose PASS is sealed and not yet acted on.
Ordered(s) == IF step = "ordered" /\ serving = s THEN {Len(record[s])} ELSE {}

\* The warden (pub_run.py:60-62) acts on a frame when, and only when, the record
\* holds a PASS of that very frame, and it acts on each one once and in order.
WardenActsOnRecord ==
    \A s \in Stream :
        /\ Range(acted[s]) = {n \in DOMAIN record[s] :
                                house = "mediate" /\ record[s][n] = "PASS"} \ Ordered(s)
        /\ \A i, j \in DOMAIN acted[s] : i < j => acted[s][i] < acted[s][j]

\* The agent's view of the prison: a reply is paired with a request by position,
\* across two queues, two pumps and the core's loop, and is the one its own
\* request was due (PUB_OS_BROKER_CONTRACT.md, I1 and I4).
Mirror == INSTANCE Mediation WITH
    due <- [f \in Frame |-> IF f \in Request THEN {AgentReply(Verdict(f))} ELSE {}],
    asked <- sent,
    answers <- [s \in Stream |-> SubSeq(replies[s], 1, delivered[s])],
    open <- [s \in Stream |-> box[s] # "closed" /\ window[s] # "sealed"]

MirrorSpec == Mirror!MediationSpec

\* A request ends: it is answered, or the agent sees its stream closed.
Over(s, n) == delivered[s] >= n \/ window[s] = "sealed" \/ box[s] = "closed"

\* As long as the core's thread is alive no agent waits for ever: no pump, no
\* seal and no queue behind another stream loses the end of a stream.
SentIsAnswered ==
    \A s \in Stream : \A n \in 1..MaxSent[s] :
        Len(sent[s]) >= n ~> Over(s, n) \/ step = "dead"

\* "Per-stream teardown: a bad frame seals that one request stream, not the
\* listener" (pub_os_broker.py:152): whatever one stream asks, every request of
\* every stream ends.
EveryRequestEnds ==
    \A s \in Stream : \A n \in 1..MaxSent[s] : Len(sent[s]) >= n ~> Over(s, n)
=============================================================================
