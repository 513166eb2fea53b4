---------------------------- MODULE SerialLedger ----------------------------
(***************************************************************************)
(* TemporalLedger under one of two hosts: one that waits for a hook before *)
(* it runs the next and on which nothing fails, and one on which hooks     *)
(* overlap and fail as TemporalLedger has them.                            *)
(***************************************************************************)
EXTENDS TemporalLedger

\* Whether this host waits for a hook before it runs the next one.
VARIABLE serial

hostVars == <<vars, serial>>

HostInit == Init /\ serial \in BOOLEAN

HostNext ==
    /\ UNCHANGED serial
    /\ \/ serial /\ SerialNext
       \/ ~serial /\ Next

HostSpec == HostInit /\ [][HostNext]_hostVars

\* Nothing is in flight but what the one hook that runs has loaded or opened,
\* and while it does the file is what it was loaded from, or empty.
SerialInv ==
    serial =>
        /\ \A g, h \in Busy : g = h
        /\ \A h \in Hook :
               /\ hook[h].pc # "unlinked"
               /\ hook[h].pc = "loaded" => hook[h].base = Load(hook[h].branch)
               /\ hook[h].pc = "opened" => disk[hook[h].branch] = Unreadable

\* No evaluation of a serial host ever meets a disturbed branch.
CalmHost ==
    serial =>
        /\ \A b \in Branch : ~disturbed[b]
        /\ \A h \in Hook : hook[h].pc # "idle" => hook[h].calm

\* One call at a time and without failures, evaluate and clear are the atomic
\* operations of TemporalMemory (TemporalContinuityLedger.evaluate,
\* temporal_continuity.py:519-545): the files between them lose nothing.
SerialMemory ==
    /\ serial => Memory!MemoryInit
    /\ [][serial => [Memory!MemoryNext]_(Memory!memoryVars)]_hostVars

\* ... and then the judge does remember (temporal_continuity.py:17): an exit is
\* killed whenever the branch has entered a sensitive source since its drain.
SerialRemembers == serial => RememberedExit
=============================================================================
