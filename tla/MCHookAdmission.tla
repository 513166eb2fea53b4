--------------------------- MODULE MCHookAdmission ---------------------------
(***************************************************************************)
(* TLC instances of HookAdmission.  Wide: one call, two or three voices    *)
(* against it.  Deep: two overlapping calls.  Seen: single calls of the    *)
(* kinds the relaxes are about.                                            *)
(***************************************************************************)
EXTENDS HookAdmission, TLC

CONSTANTS c1, c2, i1, i2, s1, f1, d1, d2, o1, o2

MCCall == {c1, c2}
MCCid == {i1, i2}
MCSession == {s1}
MCFile == {f1}
MCData == {d1, d2}
MCObject == {o1, o2}

Allowed == [decision |-> "ALLOW", hold_for_user |-> FALSE, hold_votes |-> 0]
HeldByGate == [decision |-> "KILL", hold_for_user |-> TRUE, hold_votes |-> 1]
KilledByGate == [decision |-> "KILL", hold_for_user |-> FALSE, hold_votes |-> 0]
KilledAndHeld == [decision |-> "KILL", hold_for_user |-> FALSE, hold_votes |-> 1]

Clear == [ticket |-> "ADMIT", channel |-> "PASS", surface |-> "PASS", gate |-> Allowed,
          capability |-> "PASS", path |-> "PASS", network |-> "PASS", patch |-> "PASS",
          protect |-> "PASS", frame |-> {}, seal |-> {}, access |-> "PASS",
          process |-> "PASS"]

Opaque == [Clear EXCEPT !.surface = "OPAQUE"]

\* A file too large to hash: the review of its frame and both witnesses hold.
Blindspot == [frame |-> {"OBSERVATION_BLINDSPOT"}, access |-> "HOLD", process |-> "HOLD"]

Against == [ticket |-> {"HOLD", "REJECT"},
            channel |-> {"HOLD", "QUARANTINE"},
            surface |-> {"OPAQUE", "UNKNOWN"},
            gate |-> {HeldByGate, KilledByGate, KilledAndHeld},
            capability |-> {"HOLD", "KILL"},
            path |-> {"HOLD", "KILL"},
            network |-> {"HOLD", "KILL"},
            patch |-> {"HOLD", "KILL"},
            protect |-> {"HOLD", "KILL"},
            frame |-> {{"OBSERVATION_BLINDSPOT"}, {"POINTER"}},
            seal |-> {{"SUBSTITUTION"}, {"OBSERVATION_BLINDSPOT"}},
            access |-> {"HOLD", "NONE"},
            process |-> {"HOLD", "NONE"}]

\* Evidence with one more field against the action.
Worse(evs) == UNION {{[ev EXCEPT ![f] = v] : v \in Against[f]} : ev \in evs, f \in DOMAIN Against}

UpToTwo == {Clear} \cup Worse({Clear}) \cup Worse(Worse({Clear}))

\* Two voices, and the opaque wall as a third one.
WideEvidence == UpToTwo \cup {[ev EXCEPT !.surface = "OPAQUE"] : ev \in UpToTwo}

Asks(ev, ride, effects, cid) ==
    [evidence |-> ev, ride |-> ride, git_surface |-> FALSE, recognized |-> TRUE, cid |-> cid,
     session |-> s1, file |-> f1, effects |-> effects, scoped |-> "DELETE" \in effects]

Wide == {c1 :> Asks(ev, ride, {}, i1) : ev \in WideEvidence, ride \in BOOLEAN}
        \cup {c1 :> [Asks(Clear, FALSE, {"WRITE"}, i1) EXCEPT !.git_surface = TRUE],
              c1 :> [Asks(Opaque, TRUE, {"WRITE"}, i1) EXCEPT !.git_surface = TRUE],
              c1 :> [Asks(Clear, FALSE, {}, i1) EXCEPT !.recognized = FALSE]}

\* Two calls that write or delete one file, with ids of their own or with one.
Deep == {c1 :> Asks(Clear, FALSE, x, i1) @@ c2 :> Asks(Clear, FALSE, y, i) :
            x \in {{"WRITE"}, {"DELETE"}}, y \in {{"WRITE"}, {"DELETE"}}, i \in MCCid}

MCWorkload == Wide \cup {w \in Deep : w[c1].cid = w[c2].cid => w[c1].effects = w[c2].effects}

\* git status; cat, git add, and git add of a file above the hash limit.
Seen == {c1 :> r : r \in
           {Asks(Clear, FALSE, {}, i1),
            Asks(Blindspot @@ Clear, FALSE, {}, i1),
            Asks(Opaque, TRUE, {"WRITE"}, i1),
            Asks(Blindspot @@ Opaque, TRUE, {"WRITE"}, i1)}}
=============================================================================
