----------------------- MODULE SceneContinuityProofs -----------------------
(***************************************************************************)
(* Type correctness of SceneContinuity and its three guarantees, for every *)
(* number of hook processes, branches, anchors and contents.               *)
(***************************************************************************)
EXTENDS SceneContinuity, TLAPS

\* What a listing that works, followed by an observation, makes of an anchor.
Shot(a) == IF ground[a] = "ABSENT" THEN NoEntry ELSE ground[a]

-----------------------------------------------------------------------------
(* Types *)

LEMMA InitTypeOK == Init => TypeOK
  <1> SUFFICES ASSUME Init PROVE TypeOK
    OBVIOUS
  <1>1. NoCapture \in Capture
    BY DEF NoCapture, Capture
  <1>2. hook \in [Hook -> Evaluation]
    BY <1>1, SceneAssumption DEF Init, Evaluation, PC
  <1>3. QED
    BY <1>2, SceneAssumption DEF Init, TypeOK

LEMMA ReportType ==
    ASSUME TypeOK, NEW h \in Hook
    PROVE  Report(h) \subseteq Anchor \X (Token \cup {NoEntry})
  <1>1. hook[h].current \in Capture
    BY DEF TypeOK, Evaluation
  <1>2. \A a \in Anchor : Now(hook[h].current, a) \in Token
    BY <1>1 DEF Now, Capture, Token
  <1>3. Differ(hook[h].previous, hook[h].current) \subseteq Anchor
    BY DEF Differ
  <1>4. QED
    BY <1>2, <1>3 DEF Report

LEMMA StepTypeOK == TypeOK /\ [Next]_vars => TypeOK'
  <1> SUFFICES ASSUME TypeOK, [Next]_vars PROVE TypeOK'
    OBVIOUS
  <1>0. \A h \in Hook : hook[h] \in Evaluation
    BY DEF TypeOK
  <1>1. ASSUME NEW h \in Hook, NEW b \in Branch, List(h, b) PROVE TypeOK'
    <2>1. PICK listed \in BOOLEAN : hook' = [k \in Hook |->
            IF k = h
            THEN [pc |-> "capturing", branch |-> b,
                  todo |-> {a \in Anchor : listed /\ ground[a] # "ABSENT"},
                  current |-> NoCapture, previous |-> Nothing, listed |-> listed,
                  calm |-> settled[b], quiet |-> Working(b) = {}]
            ELSE [hook[k] EXCEPT !.quiet = @ /\ hook[k].branch # b]]
      BY <1>1 DEF List
    <2>2. NoCapture \in Capture
      BY DEF NoCapture, Capture
    <2>3. settled[b] \in BOOLEAN
      BY DEF TypeOK
    <2>4. hook' \in [Hook -> Evaluation]
      BY <1>0, <2>1, <2>2, <2>3 DEF Evaluation, PC, Busy
    <2>5. settled' \in [Branch -> BOOLEAN]
      BY <1>1, <2>3 DEF List, TypeOK
    <2>6. events' \in Nat
      BY <1>1 DEF List, TypeOK
    <2>7. UNCHANGED <<ground, disk, touches, touched, origin, told, steady>>
      BY <1>1 DEF List
    <2>8. QED
      BY <2>4, <2>5, <2>6, <2>7 DEF TypeOK
  <1>2. ASSUME NEW h \in Hook, CaptureOne(h) PROVE TypeOK'
    <2>1. PICK a \in hook[h].todo :
            hook' = [hook EXCEPT ![h].todo = @ \ {a}, ![h].current[a] = ground[a]]
      BY <1>2 DEF CaptureOne
    <2>2. a \in Anchor /\ ground[a] \in Token
      BY <1>0, <2>1 DEF TypeOK, Evaluation
    <2>3. [hook[h].current EXCEPT ![a] = ground[a]] \in Capture
      BY <1>0, <2>2 DEF Evaluation, Capture
    <2> DEFINE new == [hook[h] EXCEPT !.todo = @ \ {a},
                                      !.current = [hook[h].current EXCEPT ![a] = ground[a]]]
    <2>4. new \in Evaluation
      BY <1>0, <2>3 DEF Evaluation
    <2>5. hook' = [hook EXCEPT ![h] = new]
      BY <2>1
    <2>6. hook' \in [Hook -> Evaluation]
      BY <2>4, <2>5 DEF TypeOK
    <2>7. QED
      BY <1>2, <2>6 DEF CaptureOne, TypeOK, history
  <1>3. ASSUME NEW h \in Hook, Captured(h) PROVE TypeOK'
    BY <1>0, <1>3 DEF Captured, TypeOK, Evaluation, PC, Busy, history
  <1>4. ASSUME NEW h \in Hook, LoadPrevious(h) PROVE TypeOK'
    <2>1. PICK previous \in Load(hook[h].branch) :
            /\ hook' = [hook EXCEPT ![h].pc = "loaded", ![h].previous = previous]
            /\ steady' = [steady EXCEPT ![hook[h].branch] =
                 @ /\ (previous = Nothing =>
                         /\ origin[hook[h].branch] = Nothing
                         /\ \A k \in Working(hook[h].branch) \ {h} :
                                hook[k].pc \notin {"loaded", "opened"})]
      BY <1>4 DEF LoadPrevious
    <2>2. previous \in Capture \cup {Nothing}
      BY <1>0, <2>1 DEF Load, TypeOK, Evaluation
    <2> DEFINE new == [hook[h] EXCEPT !.pc = "loaded", !.previous = previous]
    <2>3a. new \in Evaluation
      BY <1>0, <2>2 DEF Evaluation, PC, Busy
    <2>3b. hook' = [hook EXCEPT ![h] = new]
      BY <2>1
    <2>3. hook' \in [Hook -> Evaluation]
      BY <2>3a, <2>3b DEF TypeOK
    <2>4. steady' \in [Branch -> BOOLEAN]
      BY <2>1 DEF TypeOK
    <2>5. UNCHANGED <<ground, disk, events, touches, touched, origin, told, settled>>
      BY <1>4 DEF LoadPrevious
    <2>6. QED
      BY <2>3, <2>4, <2>5 DEF TypeOK
  <1>5. ASSUME NEW h \in Hook, SaveOpen(h) PROVE TypeOK'
    BY <1>0, <1>5 DEF SaveOpen, TypeOK, Evaluation, PC, Busy, history
  <1>6. ASSUME NEW h \in Hook, SaveWrite(h) PROVE TypeOK'
    <2>1. hook' \in [Hook -> Evaluation]
      BY <1>0, <1>6 DEF SaveWrite, TypeOK, Evaluation, PC, Busy
    <2>2. hook[h].current \in Capture /\ hook[h].branch \in Branch
      BY <1>0 DEF Evaluation
    <2>3. disk' \in [Branch -> Capture \cup {Unreadable}]
      BY <1>6, <2>2 DEF SaveWrite, Saved, TypeOK
    <2>4. {<<a, hook[h].current[a]>> : a \in Anchor} \subseteq Anchor \X (Token \cup {NoEntry})
      BY <2>2 DEF Capture
    <2>5. /\ origin' \in [Branch -> Capture \cup {Nothing}]
          /\ told' \in [Branch -> SUBSET (Anchor \X (Token \cup {NoEntry}))]
      BY <1>6, <2>2, <2>4 DEF SaveWrite, TypeOK
    <2>6. UNCHANGED <<ground, events, touches, touched, steady, settled>>
      BY <1>6 DEF SaveWrite
    <2>7. QED
      BY <2>1, <2>3, <2>5, <2>6 DEF TypeOK
  <1>7. ASSUME NEW h \in Hook, Answer(h) PROVE TypeOK'
    <2>1. hook' \in [Hook -> Evaluation]
      BY <1>0, <1>7 DEF Answer, TypeOK, Evaluation, PC
    <2>2. told' \in [Branch -> SUBSET (Anchor \X (Token \cup {NoEntry}))]
      BY <1>7, ReportType DEF Answer, TypeOK
    <2>3. settled' \in [Branch -> BOOLEAN]
      BY <1>0, <1>7 DEF Answer, TypeOK, Evaluation
    <2>4. UNCHANGED <<ground, disk, events, touches, touched, origin, steady>>
      BY <1>7 DEF Answer
    <2>5. QED
      BY <2>1, <2>2, <2>3, <2>4 DEF TypeOK
  <1>8. ASSUME NEW h \in Hook, Crash(h) PROVE TypeOK'
    <2>1. hook' \in [Hook -> Evaluation]
      BY <1>0, <1>8 DEF Crash, TypeOK, Evaluation, PC
    <2>2. steady' \in [Branch -> BOOLEAN]
      BY <1>8 DEF Crash, TypeOK
    <2>3. UNCHANGED <<ground, disk, events, touches, touched, origin, told, settled>>
      BY <1>8 DEF Crash
    <2>4. QED
      BY <2>1, <2>2, <2>3 DEF TypeOK
  <1>9. ASSUME NEW h \in Hook, IOFailure(h) PROVE TypeOK'
    <2>1. hook' \in [Hook -> Evaluation]
      BY <1>0, <1>9 DEF IOFailure, TypeOK, Evaluation, PC
    <2>2. disk' \in [Branch -> Capture \cup {Unreadable}]
      BY <1>0, <1>9 DEF IOFailure, TypeOK, Evaluation
    <2>3. QED
      BY <1>9, <2>1, <2>2 DEF IOFailure, TypeOK, history
  <1>10. ASSUME NEW a \in Anchor, NEW token \in Token, Touch(a, token) PROVE TypeOK'
    <2>1. hook' \in [Hook -> Evaluation]
      BY <1>0, <1>10 DEF Touch, Evaluation
    <2>2. QED
      BY <1>10, <2>1 DEF Touch, TypeOK
  <1>11. CASE UNCHANGED vars
    BY <1>11 DEF vars, history, TypeOK
  <1>12. QED
    BY <1>1, <1>2, <1>3, <1>4, <1>5, <1>6, <1>7, <1>8, <1>9, <1>10, <1>11 DEF Next, Step

\* Every variable keeps its type.
THEOREM TypeCorrect == Spec => []TypeOK
  BY InitTypeOK, StepTypeOK, PTL DEF Spec

-----------------------------------------------------------------------------
(* Steps, field by field *)

Others(h) == \A k \in Hook \ {h} : hook'[k] = hook[k]

\* Everything of an evaluation but its place.
Same(h) ==
    /\ hook'[h].branch = hook[h].branch /\ hook'[h].todo = hook[h].todo
    /\ hook'[h].current = hook[h].current /\ hook'[h].previous = hook[h].previous
    /\ hook'[h].listed = hook[h].listed /\ hook'[h].calm = hook[h].calm
    /\ hook'[h].quiet = hook[h].quiet

LEMMA ListFields ==
    ASSUME TypeOK, NEW h \in Hook, NEW b \in Branch, List(h, b)
    PROVE  /\ hook'[h].pc = "capturing" /\ hook'[h].branch = b
           /\ hook'[h].todo = {a \in Anchor : hook'[h].listed /\ ground[a] # "ABSENT"}
           /\ hook'[h].current = NoCapture /\ hook'[h].previous = Nothing
           /\ hook'[h].calm = settled[b] /\ hook'[h].quiet = (Working(b) = {})
           /\ \A k \in Hook \ {h} :
                /\ hook'[k].pc = hook[k].pc /\ hook'[k].branch = hook[k].branch
                /\ hook'[k].todo = hook[k].todo /\ hook'[k].current = hook[k].current
                /\ hook'[k].previous = hook[k].previous /\ hook'[k].listed = hook[k].listed
                /\ hook'[k].calm = hook[k].calm
                /\ hook'[k].quiet = (hook[k].quiet /\ hook[k].branch # b)
  <1>1. PICK listed \in BOOLEAN : hook' = [k \in Hook |->
            IF k = h
            THEN [pc |-> "capturing", branch |-> b,
                  todo |-> {a \in Anchor : listed /\ ground[a] # "ABSENT"},
                  current |-> NoCapture, previous |-> Nothing, listed |-> listed,
                  calm |-> settled[b], quiet |-> Working(b) = {}]
            ELSE [hook[k] EXCEPT !.quiet = @ /\ hook[k].branch # b]]
    BY DEF List
  <1>2. hook'[h] = [pc |-> "capturing", branch |-> b,
                    todo |-> {a \in Anchor : listed /\ ground[a] # "ABSENT"},
                    current |-> NoCapture, previous |-> Nothing, listed |-> listed,
                    calm |-> settled[b], quiet |-> Working(b) = {}]
    BY <1>1
  <1>3. ASSUME NEW k \in Hook \ {h}
        PROVE  hook'[k] = [hook[k] EXCEPT !.quiet = @ /\ hook[k].branch # b]
    BY <1>1
  <1>4. \A k \in Hook : hook[k] \in Evaluation
    BY DEF TypeOK
  <1>5. \A k \in Hook \ {h} :
          /\ hook'[k].pc = hook[k].pc /\ hook'[k].branch = hook[k].branch
          /\ hook'[k].todo = hook[k].todo /\ hook'[k].current = hook[k].current
          /\ hook'[k].previous = hook[k].previous /\ hook'[k].listed = hook[k].listed
          /\ hook'[k].calm = hook[k].calm
          /\ hook'[k].quiet = (hook[k].quiet /\ hook[k].branch # b)
    BY <1>3, <1>4 DEF Evaluation
  <1>6. /\ hook'[h].pc = "capturing" /\ hook'[h].branch = b
        /\ hook'[h].listed = listed
        /\ hook'[h].todo = {a \in Anchor : listed /\ ground[a] # "ABSENT"}
        /\ hook'[h].current = NoCapture /\ hook'[h].previous = Nothing
        /\ hook'[h].calm = settled[b] /\ hook'[h].quiet = (Working(b) = {})
    BY <1>2
  <1>7. QED
    BY <1>5, <1>6

LEMMA CaptureFields ==
    ASSUME TypeOK, NEW h \in Hook, CaptureOne(h)
    PROVE  /\ hook[h].pc = "capturing" /\ hook'[h].pc = "capturing"
           /\ hook'[h].branch = hook[h].branch /\ hook'[h].previous = hook[h].previous
           /\ hook'[h].listed = hook[h].listed /\ hook'[h].calm = hook[h].calm
           /\ hook'[h].quiet = hook[h].quiet
           /\ \E a \in hook[h].todo :
                /\ hook'[h].todo = hook[h].todo \ {a}
                /\ hook'[h].current = [hook[h].current EXCEPT ![a] = ground[a]]
           /\ Others(h)
  <1>1. PICK a \in hook[h].todo :
          hook' = [hook EXCEPT ![h].todo = @ \ {a}, ![h].current[a] = ground[a]]
    BY DEF CaptureOne
  <1>2. hook[h] \in Evaluation
    BY DEF TypeOK
  <1>3. hook'[h] = [hook[h] EXCEPT !.todo = @ \ {a},
                                   !.current = [hook[h].current EXCEPT ![a] = ground[a]]]
    BY <1>1 DEF TypeOK
  <1>4. Others(h)
    BY <1>1 DEF Others, TypeOK
  <1>5. QED
    BY <1>2, <1>3, <1>4 DEF CaptureOne, Evaluation

LEMMA PlaceFields ==
    ASSUME TypeOK, NEW h \in Hook,
           \/ Captured(h) \/ SaveOpen(h) \/ SaveWrite(h) \/ Answer(h) \/ Crash(h)
           \/ IOFailure(h)
    PROVE  /\ Same(h) /\ Others(h)
           /\ Captured(h) => hook[h].pc = "capturing" /\ hook'[h].pc = "captured"
           /\ SaveOpen(h) => hook[h].pc = "loaded" /\ hook'[h].pc = "opened"
           /\ SaveWrite(h) => hook[h].pc = "opened" /\ hook'[h].pc = "saved"
           /\ Answer(h) => hook[h].pc = "saved" /\ hook'[h].pc = "answered"
           /\ Crash(h) => hook[h].pc \in Busy /\ hook'[h].pc = "idle"
           /\ IOFailure(h) => hook[h].pc \in {"loaded", "opened"} /\ hook'[h].pc = "unjudged"
  <1>1. \E pc \in PC : hook' = [hook EXCEPT ![h].pc = pc]
    BY DEF Captured, SaveOpen, SaveWrite, Answer, Crash, IOFailure, PC, Busy
  <1>2. PICK pc \in PC : hook' = [hook EXCEPT ![h].pc = pc]
    BY <1>1
  <1>3. hook'[h] = [hook[h] EXCEPT !.pc = pc] /\ Others(h)
    BY <1>2 DEF TypeOK, Others
  <1>4. hook[h] \in Evaluation
    BY DEF TypeOK
  <1>5. Same(h)
    BY <1>3, <1>4 DEF Same, Evaluation
  <1>6. \A at \in PC : hook' = [hook EXCEPT ![h].pc = at] => hook'[h].pc = at
    BY <1>4 DEF TypeOK, Evaluation
  <1>7. /\ Captured(h) => hook[h].pc = "capturing" /\ hook'[h].pc = "captured"
        /\ SaveOpen(h) => hook[h].pc = "loaded" /\ hook'[h].pc = "opened"
        /\ SaveWrite(h) => hook[h].pc = "opened" /\ hook'[h].pc = "saved"
    BY <1>6 DEF Captured, SaveOpen, SaveWrite, PC, Busy
  <1>8. /\ Answer(h) => hook[h].pc = "saved" /\ hook'[h].pc = "answered"
        /\ Crash(h) => hook[h].pc \in Busy /\ hook'[h].pc = "idle"
        /\ IOFailure(h) => hook[h].pc \in {"loaded", "opened"} /\ hook'[h].pc = "unjudged"
    BY <1>6 DEF Answer, Crash, IOFailure, PC
  <1>9. QED
    BY <1>3, <1>5, <1>7, <1>8

LEMMA LoadFields ==
    ASSUME TypeOK, NEW h \in Hook, LoadPrevious(h)
    PROVE  /\ hook[h].pc = "captured" /\ hook'[h].pc = "loaded"
           /\ hook'[h].previous \in Load(hook[h].branch)
           /\ hook'[h].branch = hook[h].branch /\ hook'[h].todo = hook[h].todo
           /\ hook'[h].current = hook[h].current /\ hook'[h].listed = hook[h].listed
           /\ hook'[h].calm = hook[h].calm /\ hook'[h].quiet = hook[h].quiet
           /\ Others(h)
           /\ \A b \in Branch \ {hook[h].branch} : steady'[b] = steady[b]
           /\ steady'[hook[h].branch] =>
                /\ steady[hook[h].branch]
                /\ hook'[h].previous = Nothing =>
                      /\ origin[hook[h].branch] = Nothing
                      /\ \A k \in Working(hook[h].branch) \ {h} :
                            hook[k].pc \notin {"loaded", "opened"}
  <1>1. PICK previous \in Load(hook[h].branch) :
          /\ hook' = [hook EXCEPT ![h].pc = "loaded", ![h].previous = previous]
          /\ steady' = [steady EXCEPT ![hook[h].branch] =
               @ /\ (previous = Nothing =>
                       /\ origin[hook[h].branch] = Nothing
                       /\ \A k \in Working(hook[h].branch) \ {h} :
                              hook[k].pc \notin {"loaded", "opened"})]
    BY DEF LoadPrevious
  <1>2. hook[h] \in Evaluation
    BY DEF TypeOK
  <1>3. hook'[h] = [hook[h] EXCEPT !.pc = "loaded", !.previous = previous] /\ Others(h)
    BY <1>1 DEF TypeOK, Others
  <1>4. hook'[h].previous = previous
    BY <1>2, <1>3 DEF Evaluation
  <1>5. /\ \A b \in Branch \ {hook[h].branch} : steady'[b] = steady[b]
        /\ steady'[hook[h].branch] = (steady[hook[h].branch] /\ (previous = Nothing =>
                       /\ origin[hook[h].branch] = Nothing
                       /\ \A k \in Working(hook[h].branch) \ {h} :
                              hook[k].pc \notin {"loaded", "opened"}))
    BY <1>1, <1>2 DEF TypeOK, Evaluation
  <1>6. hook[h].pc = "captured"
    BY DEF LoadPrevious
  <1>7. /\ hook'[h].pc = "loaded"
        /\ hook'[h].branch = hook[h].branch /\ hook'[h].todo = hook[h].todo
        /\ hook'[h].current = hook[h].current /\ hook'[h].listed = hook[h].listed
        /\ hook'[h].calm = hook[h].calm /\ hook'[h].quiet = hook[h].quiet
    BY <1>2, <1>3 DEF Evaluation
  <1>8. QED
    BY <1>1, <1>3, <1>4, <1>5, <1>6, <1>7

LEMMA TouchFields ==
    ASSUME TypeOK, NEW a \in Anchor, NEW token \in Token, Touch(a, token)
    PROVE  \A h \in Hook :
             /\ hook'[h].pc = hook[h].pc /\ hook'[h].branch = hook[h].branch
             /\ hook'[h].todo = hook[h].todo /\ hook'[h].current = hook[h].current
             /\ hook'[h].previous = hook[h].previous /\ hook'[h].listed = hook[h].listed
             /\ hook'[h].calm = hook[h].calm /\ hook'[h].quiet = FALSE
  <1>1. \A h \in Hook : hook'[h] = [hook[h] EXCEPT !.quiet = FALSE]
    BY DEF Touch
  <1>2. \A h \in Hook : hook[h] \in Evaluation
    BY DEF TypeOK
  <1>3. QED
    BY <1>1, <1>2 DEF Evaluation

-----------------------------------------------------------------------------
(* An anchor nobody changed *)

Judging == {"captured", "loaded", "opened", "saved", "answered"}

Fits(capture, a) == capture[a] \in {NoEntry, ground[a]}

\* What is left to capture is there; what is captured is as it is.
Faithful(h, a) ==
    IF a \in hook[h].todo THEN ground[a] # "ABSENT" ELSE hook[h].current[a] = Shot(a)

Untouched(a) ==
    /\ \A b \in Branch : disk[b] # Unreadable => Fits(disk[b], a)
    /\ \A h \in Hook :
        /\ hook[h].previous # Nothing => Fits(hook[h].previous, a)
        /\ Fits(hook[h].current, a)
        /\ hook[h].pc \in Busy \cup {"answered"} /\ hook[h].listed => Faithful(h, a)

AllListed == \A h \in Hook : hook[h].pc \in Judging => hook[h].todo = {}

FalseInv == AllListed /\ \A a \in Anchor \ touched : Untouched(a)

LEMMA InitFalseInv == Init => FalseInv
  <1>1. ASSUME Init PROVE \A h \in Hook : /\ hook[h].pc = "idle" /\ hook[h].previous = Nothing
                                         /\ hook[h].current = NoCapture
    BY <1>1 DEF Init
  <1>2. QED
    BY <1>1 DEF Init, FalseInv, AllListed, Judging, Untouched, Fits, NoCapture, Busy

LEMMA StepAllListed ==
    ASSUME TypeOK, AllListed, [Next]_vars
    PROVE  AllListed'
  <1>1. ASSUME NEW h \in Hook, NEW b \in Branch, List(h, b) PROVE AllListed'
    BY <1>1, ListFields DEF AllListed, Judging
  <1>2. ASSUME NEW h \in Hook, CaptureOne(h) PROVE AllListed'
    BY <1>2, CaptureFields DEF AllListed, Judging, Others
  <1>3. ASSUME NEW h \in Hook, Captured(h) PROVE AllListed'
    BY <1>3, PlaceFields DEF AllListed, Captured, Others, Same
  <1>4. ASSUME NEW h \in Hook, LoadPrevious(h) PROVE AllListed'
    BY <1>4, LoadFields DEF AllListed, Judging, Others
  <1>5. ASSUME NEW h \in Hook,
               SaveOpen(h) \/ SaveWrite(h) \/ Answer(h) \/ Crash(h) \/ IOFailure(h)
        PROVE  AllListed'
    BY <1>5, PlaceFields DEF AllListed, Judging, Others, Same
  <1>6. ASSUME NEW a \in Anchor, NEW token \in Token, Touch(a, token) PROVE AllListed'
    BY <1>6, TouchFields DEF AllListed
  <1>7. CASE UNCHANGED vars
    BY <1>7 DEF vars, AllListed
  <1>8. QED
    BY <1>1, <1>2, <1>3, <1>4, <1>5, <1>6, <1>7 DEF Next, Step

LEMMA StepUntouched ==
    ASSUME TypeOK, AllListed, NEW a \in Anchor \ touched', a \notin touched, Untouched(a),
           [Next]_vars
    PROVE  Untouched(a)'
  <1>0. /\ \A h \in Hook : hook[h] \in Evaluation
        /\ \A b \in Branch : disk[b] # Unreadable => Fits(disk[b], a)
        /\ \A h \in Hook :
             /\ hook[h].previous # Nothing => Fits(hook[h].previous, a)
             /\ Fits(hook[h].current, a)
             /\ hook[h].pc \in Busy \cup {"answered"} /\ hook[h].listed => Faithful(h, a)
    BY DEF TypeOK, Untouched
  <1>1. ASSUME NEW h \in Hook, NEW b \in Branch, List(h, b) PROVE Untouched(a)'
    <2>1. UNCHANGED <<ground, disk>>
      BY <1>1 DEF List
    <2>2. Fits(NoCapture, a)
      BY DEF Fits, NoCapture
    <2>3. hook'[h].listed => Faithful(h, a)'
      BY <1>1, <2>1, ListFields DEF Faithful, Shot, NoCapture
    <2>4. QED
      BY <1>0, <1>1, <2>1, <2>2, <2>3, ListFields DEF Untouched, Fits, Faithful, Shot
  <1>2. ASSUME NEW h \in Hook, CaptureOne(h) PROVE Untouched(a)'
    <2>1. UNCHANGED <<ground, disk>>
      BY <1>2 DEF CaptureOne
    <2>2. PICK x \in hook[h].todo :
            /\ hook'[h].todo = hook[h].todo \ {x}
            /\ hook'[h].current = [hook[h].current EXCEPT ![x] = ground[x]]
      BY <1>2, CaptureFields
    <2>3. hook[h].current \in Capture
      BY <1>0 DEF Evaluation
    <2>4. hook'[h].current[a] = IF a = x THEN ground[a] ELSE hook[h].current[a]
      BY <2>2, <2>3 DEF Capture
    <2>5. hook'[h].listed => Faithful(h, a)'
      BY <1>0, <1>2, <2>1, <2>2, <2>4, CaptureFields DEF Faithful, Shot, Busy
    <2>6. QED
      BY <1>0, <1>2, <2>1, <2>4, <2>5, CaptureFields DEF Untouched, Fits, Faithful, Shot, Others
  <1>3. ASSUME NEW h \in Hook, LoadPrevious(h) PROVE Untouched(a)'
    <2>1. UNCHANGED <<ground, disk>>
      BY <1>3 DEF LoadPrevious
    <2>2. hook'[h].previous # Nothing => Fits(hook'[h].previous, a)
      BY <1>0, <1>3, LoadFields DEF Load, Evaluation
    <2>3. QED
      BY <1>0, <1>3, <2>1, <2>2, LoadFields
      DEF Untouched, Fits, Faithful, Shot, Others, Busy
  <1>4. ASSUME NEW h \in Hook,
               Captured(h) \/ SaveOpen(h) \/ SaveWrite(h) \/ Answer(h) \/ Crash(h) \/ IOFailure(h)
        PROVE  Untouched(a)'
    <2>1. UNCHANGED ground
      BY <1>4 DEF Captured, SaveOpen, SaveWrite, Answer, Crash, IOFailure
    <2>2. \A b \in Branch : disk'[b] \in {disk[b], Unreadable, hook[h].current}
      BY <1>0, <1>4 DEF Captured, SaveOpen, SaveWrite, Saved, Answer, Crash, IOFailure, TypeOK
    <2>3. Same(h) /\ Others(h)
      BY <1>4, PlaceFields
    <2>4. hook'[h].pc \in Busy \cup {"answered"} => hook[h].pc \in Busy
      BY <1>4, PlaceFields DEF Busy
    <2>5. QED
      BY <1>0, <2>1, <2>2, <2>3, <2>4 DEF Untouched, Fits, Faithful, Shot, Others, Same
  <1>5. ASSUME NEW x \in Anchor, NEW token \in Token, Touch(x, token) PROVE Untouched(a)'
    <2>1. a # x /\ ground'[a] = ground[a] /\ UNCHANGED disk
      BY <1>5 DEF Touch, TypeOK
    <2>2. QED
      BY <1>0, <1>5, <2>1, TouchFields DEF Untouched, Fits, Faithful, Shot
  <1>6. CASE UNCHANGED vars
    BY <1>6 DEF vars, Untouched, Fits, Faithful, Shot
  <1>7. QED
    BY <1>1, <1>2, <1>3, <1>4, <1>5, <1>6 DEF Next, Step

LEMMA StepFalseInv == TypeOK /\ FalseInv /\ [Next]_vars => FalseInv'
  <1> SUFFICES ASSUME TypeOK, FalseInv, [Next]_vars PROVE FalseInv'
    OBVIOUS
  <1>1. touched \subseteq touched'
    BY DEF Next, Step, List, CaptureOne, Captured, LoadPrevious, SaveOpen, SaveWrite, Answer,
       Crash, IOFailure, Touch, vars, history
  <1>2. AllListed'
    BY StepAllListed DEF FalseInv
  <1>3. \A a \in Anchor \ touched' : Untouched(a)'
    BY <1>1, StepUntouched DEF FalseInv
  <1>4. QED
    BY <1>2, <1>3 DEF FalseInv

LEMMA FalseInvImplies == TypeOK /\ FalseInv => NoFalseHold
  <1> SUFFICES ASSUME TypeOK, FalseInv, NEW h \in Hook,
                      hook[h].pc \in {"loaded", "opened", "saved", "answered"}, hook[h].listed,
                      NEW a \in Differ(hook[h].previous, hook[h].current), a \notin touched
               PROVE  FALSE
    BY DEF NoFalseHold
  <1>1. a \in Anchor /\ hook[h].previous # Nothing /\ hook[h].previous[a] # NoEntry
        /\ Now(hook[h].current, a) # hook[h].previous[a]
    BY DEF Differ
  <1>2. Untouched(a) /\ hook[h].todo = {}
    BY <1>1 DEF FalseInv, AllListed, Judging
  <1>3. hook[h].previous[a] = ground[a]
    BY <1>1, <1>2 DEF Untouched, Fits
  <1>4. hook[h].current[a] = Shot(a)
    BY <1>2 DEF Untouched, Faithful, Busy
  <1>5. Now(hook[h].current, a) = ground[a]
    BY <1>1, <1>4, SceneAssumption DEF Now, Shot, TypeOK
  <1>6. QED
    BY <1>1, <1>3, <1>5

\* A hold names only anchors that someone has changed.
THEOREM HoldsAreTrue == Spec => []NoFalseHold
  <1>1. Init => TypeOK /\ FalseInv
    BY InitTypeOK, InitFalseInv
  <1>2. TypeOK /\ FalseInv /\ [Next]_vars => TypeOK' /\ FalseInv'
    BY StepTypeOK, StepFalseInv
  <1>3. QED
    BY <1>1, <1>2, FalseInvImplies, PTL DEF Spec

-----------------------------------------------------------------------------
(* A branch that has settled *)

AllFit(capture) == \A a \in Anchor : Fits(capture, a)

Live == Busy \cup {"answered"}

\* The baseline of a settled branch is as things are.
SettledFits == \A b \in Branch : settled[b] /\ disk[b] # Unreadable => AllFit(disk[b])

\* A quiet evaluation is alone, and sees things as they are.
Quiet(h) ==
    hook[h].quiet =>
        /\ hook[h].pc \in Live => AllFit(hook[h].current)
        /\ hook[h].pc \in Live /\ hook[h].listed => \A a \in Anchor : Faithful(h, a)
        /\ hook[h].pc \in Busy =>
             \A k \in Hook : hook[k].pc \in Busy /\ hook[k].branch = hook[h].branch => k = h
        /\ hook[h].pc = "saved" /\ disk[hook[h].branch] # Unreadable
             => AllFit(disk[hook[h].branch])

\* One that began in a settled branch has a baseline that is as things are.
Calm(h) ==
    hook[h].pc \in Live /\ hook[h].calm /\ hook[h].quiet =>
        /\ settled[hook[h].branch]
        /\ hook[h].previous # Nothing => AllFit(hook[h].previous)

Loud(h) == hook[h].pc \in Busy /\ ~hook[h].quiet => ~settled[hook[h].branch]

StallInv ==
    /\ AllListed /\ SettledFits
    /\ \A h \in Hook : Quiet(h) /\ Calm(h) /\ Loud(h)

LEMMA InitStallInv == Init => StallInv
  <1>1. ASSUME Init PROVE \A h \in Hook : hook[h].pc = "idle"
    BY <1>1 DEF Init
  <1>2. QED
    BY <1>1 DEF Init, StallInv, AllListed, Judging, SettledFits, Quiet, Calm, Loud, Live, Busy

LEMMA StepStallInv == TypeOK /\ StallInv /\ [Next]_vars => StallInv'
  <1> SUFFICES ASSUME TypeOK, StallInv, [Next]_vars
               PROVE  SettledFits' /\ \A h \in Hook : (Quiet(h) /\ Calm(h) /\ Loud(h))'
    BY StepAllListed DEF StallInv
  <1>0. /\ \A h \in Hook : hook[h] \in Evaluation
        /\ SettledFits /\ AllListed
        /\ \A h \in Hook : Quiet(h) /\ Calm(h) /\ Loud(h)
    BY DEF TypeOK, StallInv
  <1>1. ASSUME NEW h \in Hook, NEW b \in Branch, List(h, b)
        PROVE  SettledFits' /\ \A k \in Hook : (Quiet(k) /\ Calm(k) /\ Loud(k))'
    <2>1. /\ UNCHANGED <<ground, disk>>
          /\ \A c \in Branch \ {b} : settled'[c] = settled[c]
          /\ settled'[b] = (settled[b] /\ Working(b) = {})
      BY <1>1 DEF List, TypeOK
    <2>2. hook[h].pc \notin Busy
      BY <1>1 DEF List, Busy
    <2>3. SettledFits'
      BY <1>0, <2>1 DEF SettledFits, AllFit, Fits
    <2>4. Quiet(h)'
      <3>1. AllFit(NoCapture)'
        BY DEF AllFit, Fits, NoCapture
      <3>2. hook'[h].listed => \A a \in Anchor : Faithful(h, a)'
        BY <1>1, <2>1, ListFields DEF Faithful, Shot, NoCapture
      <3>3. ASSUME hook'[h].quiet, NEW k \in Hook \ {h}, hook'[k].pc \in Busy PROVE hook'[k].branch # b
        <4>1. hook'[h].quiet = (Working(b) = {})
          BY <1>1, ListFields
        <4>2. Working(b) = {}
          BY <3>3, <4>1
        <4>3. hook'[k].pc = hook[k].pc /\ hook'[k].branch = hook[k].branch
          BY <1>1, ListFields
        <4>4. QED
          BY <3>3, <4>2, <4>3 DEF Working
      <3>4. QED
        BY <1>1, <3>1, <3>2, <3>3, ListFields DEF Quiet
    <2>5. Calm(h)' /\ Loud(h)'
      BY <1>1, <2>1, ListFields DEF Calm, Loud
    <2>6. ASSUME NEW k \in Hook \ {h} PROVE (Quiet(k) /\ Calm(k) /\ Loud(k))'
      <3>1. /\ hook'[k].pc = hook[k].pc /\ hook'[k].branch = hook[k].branch
            /\ hook'[k].todo = hook[k].todo /\ hook'[k].current = hook[k].current
            /\ hook'[k].previous = hook[k].previous /\ hook'[k].listed = hook[k].listed
            /\ hook'[k].calm = hook[k].calm
            /\ hook'[k].quiet = (hook[k].quiet /\ hook[k].branch # b)
        BY <1>1, ListFields
      <3>2. Quiet(k)'
        <4>1. ASSUME hook'[k].quiet PROVE hook[k].quiet /\ hook'[h].branch # hook[k].branch
          <5>1. hook[k].quiet /\ hook[k].branch # b
            BY <3>1, <4>1
          <5>2. QED
            BY <1>1, <5>1, ListFields
        <4>2. \A m \in Hook \ {h} : hook'[m].pc = hook[m].pc /\ hook'[m].branch = hook[m].branch
          BY <1>1, ListFields
        <4>3. QED
          BY <1>0, <2>1, <3>1, <4>1, <4>2 DEF Quiet, AllFit, Fits, Faithful, Shot
      <3>3. Calm(k)'
        BY <1>0, <2>1, <3>1 DEF Calm, AllFit, Fits, Evaluation
      <3>4. Loud(k)'
        BY <1>0, <2>1, <3>1 DEF Loud, Working, Evaluation
      <3>5. QED
        BY <3>2, <3>3, <3>4
    <2>7. QED
      BY <2>3, <2>4, <2>5, <2>6
  <1>2. ASSUME NEW h \in Hook, CaptureOne(h)
        PROVE  SettledFits' /\ \A k \in Hook : (Quiet(k) /\ Calm(k) /\ Loud(k))'
    <2>1. UNCHANGED <<ground, disk, settled>>
      BY <1>2 DEF CaptureOne, history
    <2>2. PICK x \in hook[h].todo :
            /\ hook'[h].todo = hook[h].todo \ {x}
            /\ hook'[h].current = [hook[h].current EXCEPT ![x] = ground[x]]
      BY <1>2, CaptureFields
    <2>3. \A a \in Anchor : hook'[h].current[a] = IF a = x THEN ground[a] ELSE hook[h].current[a]
      BY <1>0, <2>2 DEF Evaluation, Capture
    <2>4. /\ \A k \in Hook :
               /\ hook'[k].pc = hook[k].pc /\ hook'[k].branch = hook[k].branch
               /\ hook'[k].previous = hook[k].previous /\ hook'[k].calm = hook[k].calm
               /\ hook'[k].quiet = hook[k].quiet /\ hook'[k].listed = hook[k].listed
          /\ \A k \in Hook \ {h} :
               /\ hook'[k].todo = hook[k].todo
               /\ hook'[k].current = hook[k].current
      BY <1>2, CaptureFields DEF Others
    <2>5. Quiet(h)'
      <3>1. ASSUME hook[h].quiet, hook[h].listed, NEW a \in Anchor PROVE Faithful(h, a)'
        <4>1. Faithful(h, a) /\ Faithful(h, x)
          BY <1>0, <1>2, <2>2, <3>1, CaptureFields DEF Quiet, Live, Busy, Evaluation
        <4>2. QED
          BY <2>1, <2>2, <2>3, <4>1 DEF Faithful, Shot
      <3>2. hook[h].quiet => AllFit(hook'[h].current)
        BY <1>0, <1>2, <2>3, CaptureFields DEF Quiet, Live, Busy, AllFit, Fits
      <3>3. QED
        BY <1>0, <1>2, <2>1, <2>4, <3>1, <3>2, CaptureFields DEF Quiet, AllFit, Fits
    <2>6. \A k \in Hook \ {h} : Quiet(k)'
      BY <1>0, <2>1, <2>4 DEF Quiet, AllFit, Fits, Faithful, Shot
    <2>7. \A k \in Hook : Calm(k)' /\ Loud(k)'
      BY <1>0, <2>1, <2>4 DEF Calm, Loud, AllFit, Fits
    <2>8. QED
      BY <1>0, <2>1, <2>5, <2>6, <2>7 DEF SettledFits, AllFit, Fits
  <1>3. ASSUME NEW h \in Hook, LoadPrevious(h)
        PROVE  SettledFits' /\ \A k \in Hook : (Quiet(k) /\ Calm(k) /\ Loud(k))'
    <2>1. UNCHANGED <<ground, disk, settled>>
      BY <1>3 DEF LoadPrevious
    <2>2. Calm(h)'
      BY <1>0, <1>3, <2>1, LoadFields
      DEF Calm, SettledFits, Load, Live, Busy, AllFit, Fits, Evaluation
    <2>3. \A k \in Hook :
            /\ hook'[k].branch = hook[k].branch /\ hook'[k].todo = hook[k].todo
            /\ hook'[k].current = hook[k].current /\ hook'[k].listed = hook[k].listed
            /\ hook'[k].quiet = hook[k].quiet
            /\ hook'[k].pc \in Busy <=> hook[k].pc \in Busy
            /\ hook'[k].pc \in Live <=> hook[k].pc \in Live
            /\ hook'[k].pc = "saved" <=> hook[k].pc = "saved"
      BY <1>3, LoadFields DEF Others, Busy, Live
    <2>4. \A k \in Hook : Quiet(k)' /\ Loud(k)'
      BY <1>0, <2>1, <2>3 DEF Quiet, Loud, AllFit, Fits, Faithful, Shot
    <2>5. \A k \in Hook \ {h} : Calm(k)'
      BY <1>0, <1>3, <2>1, LoadFields DEF Calm, AllFit, Fits, Others
    <2>6. QED
      BY <1>0, <2>1, <2>2, <2>4, <2>5 DEF SettledFits, AllFit, Fits
  <1>4. ASSUME NEW h \in Hook, Captured(h) \/ SaveOpen(h) \/ IOFailure(h) \/ Crash(h)
        PROVE  SettledFits' /\ \A k \in Hook : (Quiet(k) /\ Calm(k) /\ Loud(k))'
    <2>1. /\ UNCHANGED <<ground, settled>>
          /\ \A b \in Branch : disk'[b] \in {disk[b], Unreadable}
      BY <1>0, <1>4 DEF Captured, SaveOpen, IOFailure, Crash, history, TypeOK, Evaluation
    <2>2. Same(h) /\ Others(h)
      BY <1>4, PlaceFields
    <2>3. /\ hook'[h].pc \in Busy => hook[h].pc \in Busy
          /\ hook'[h].pc \in Live => hook[h].pc \in Live
          /\ hook'[h].pc # "saved"
      BY <1>4, PlaceFields DEF Busy, Live
    <2>4. \A k \in Hook :
            /\ hook'[k].branch = hook[k].branch /\ hook'[k].todo = hook[k].todo
            /\ hook'[k].current = hook[k].current /\ hook'[k].listed = hook[k].listed
            /\ hook'[k].quiet = hook[k].quiet /\ hook'[k].calm = hook[k].calm
            /\ hook'[k].previous = hook[k].previous
            /\ hook'[k].pc \in Busy => hook[k].pc \in Busy
            /\ hook'[k].pc \in Live => hook[k].pc \in Live
            /\ hook'[k].pc = "saved" => hook[k].pc = "saved"
      BY <2>2, <2>3 DEF Same, Others
    <2>5. SettledFits'
      BY <1>0, <2>1 DEF SettledFits, AllFit, Fits
    <2>6. \A k \in Hook : Calm(k)' /\ Loud(k)'
      BY <1>0, <2>1, <2>4 DEF Calm, Loud, AllFit, Fits
    <2>7. \A k \in Hook : Quiet(k)'
      BY <1>0, <2>1, <2>4 DEF Quiet, AllFit, Fits, Faithful, Shot, Evaluation
    <2>8. QED
      BY <2>5, <2>6, <2>7
  <1>5. ASSUME NEW h \in Hook, SaveWrite(h)
        PROVE  SettledFits' /\ \A k \in Hook : (Quiet(k) /\ Calm(k) /\ Loud(k))'
    <2> DEFINE b == hook[h].branch
    <2>1. /\ UNCHANGED <<ground, settled>>
          /\ \A c \in Branch \ {b} : disk'[c] = disk[c]
          /\ disk'[b] \in {hook[h].current, Unreadable}
      BY <1>0, <1>5 DEF SaveWrite, Saved, TypeOK, Evaluation
    <2>2. /\ Same(h) /\ Others(h)
          /\ hook[h].pc = "opened" /\ hook'[h].pc = "saved"
      BY <1>5, PlaceFields
    <2>3. hook[h].pc \in Busy /\ hook[h].pc \in Live /\ hook'[h].pc \in Busy /\ hook'[h].pc \in Live
      BY <2>2 DEF Busy, Live
    <2>4. \A k \in Hook :
            /\ hook'[k].branch = hook[k].branch /\ hook'[k].todo = hook[k].todo
            /\ hook'[k].current = hook[k].current /\ hook'[k].listed = hook[k].listed
            /\ hook'[k].quiet = hook[k].quiet /\ hook'[k].calm = hook[k].calm
            /\ hook'[k].previous = hook[k].previous
            /\ hook'[k].pc \in Busy <=> hook[k].pc \in Busy
            /\ hook'[k].pc \in Live <=> hook[k].pc \in Live
      BY <2>2, <2>3 DEF Same, Others
    <2>5. hook[h].quiet /\ disk'[b] # Unreadable => AllFit(disk'[b])
      BY <1>0, <2>1, <2>3 DEF Quiet
    <2>6. settled[b] => hook[h].quiet
      BY <1>0, <2>3 DEF Loud
    <2>7. SettledFits'
      BY <1>0, <2>1, <2>5, <2>6 DEF SettledFits, AllFit, Fits
    <2>8. \A k \in Hook : Calm(k)' /\ Loud(k)'
      BY <1>0, <2>1, <2>4 DEF Calm, Loud, AllFit, Fits
    <2>9. ASSUME NEW k \in Hook PROVE Quiet(k)'
      <3>1. hook[k].quiet /\ hook'[k].pc = "saved" /\ disk'[hook[k].branch] # Unreadable
              => AllFit(disk'[hook[k].branch])
        <4>1. CASE hook[k].branch = b
          BY <1>0, <2>2, <2>3, <2>4, <2>5, <4>1 DEF Quiet, Busy, Others
        <4>2. CASE hook[k].branch # b
          BY <1>0, <2>1, <2>2, <4>2 DEF Quiet, Others, Evaluation
        <4>3. QED
          BY <4>1, <4>2
      <3>2. QED
        BY <1>0, <2>1, <2>4, <3>1 DEF Quiet, AllFit, Fits, Faithful, Shot
    <2>10. QED
      BY <2>7, <2>8, <2>9
  <1>6. ASSUME NEW h \in Hook, Answer(h)
        PROVE  SettledFits' /\ \A k \in Hook : (Quiet(k) /\ Calm(k) /\ Loud(k))'
    <2> DEFINE b == hook[h].branch
    <2>1. /\ UNCHANGED <<ground, disk>>
          /\ \A c \in Branch \ {b} : settled'[c] = settled[c]
          /\ settled'[b] = (settled[b] \/ hook[h].quiet)
      BY <1>0, <1>6 DEF Answer, TypeOK, Evaluation
    <2>2. /\ Same(h) /\ Others(h)
          /\ hook[h].pc = "saved" /\ hook'[h].pc = "answered"
      BY <1>6, PlaceFields
    <2>4. \A k \in Hook :
            /\ hook'[k].branch = hook[k].branch /\ hook'[k].todo = hook[k].todo
            /\ hook'[k].current = hook[k].current /\ hook'[k].listed = hook[k].listed
            /\ hook'[k].quiet = hook[k].quiet /\ hook'[k].calm = hook[k].calm
            /\ hook'[k].previous = hook[k].previous
            /\ hook'[k].pc \in Busy => hook[k].pc \in Busy /\ k # h
            /\ hook'[k].pc \in Live => hook[k].pc \in Live
            /\ hook'[k].pc = "saved" => hook[k].pc = "saved"
      BY <2>2 DEF Same, Others, Busy, Live
    <2>5. SettledFits'
      <3>1. ASSUME settled'[b], disk[b] # Unreadable PROVE AllFit(disk[b])
        <4>1. CASE settled[b]
          BY <1>0, <3>1, <4>1 DEF SettledFits, Evaluation
        <4>2. CASE hook[h].quiet
          BY <1>0, <2>2, <3>1, <4>2 DEF Quiet
        <4>3. QED
          BY <2>1, <3>1, <4>1, <4>2
      <3>2. \A c \in Branch \ {b} : settled'[c] /\ disk[c] # Unreadable => AllFit(disk[c])
        BY <1>0, <2>1 DEF SettledFits
      <3>3. QED
        BY <2>1, <3>1, <3>2 DEF SettledFits, AllFit, Fits
    <2>6. \A k \in Hook : Quiet(k)'
      BY <1>0, <2>1, <2>4 DEF Quiet, AllFit, Fits, Faithful, Shot
    <2>7. \A k \in Hook : Calm(k)'
      BY <1>0, <2>1, <2>4 DEF Calm, AllFit, Fits, Evaluation
    <2>8. ASSUME NEW k \in Hook PROVE Loud(k)'
      BY <1>0, <2>1, <2>2, <2>4 DEF Loud, Quiet, Busy, Evaluation
    <2>9. QED
      BY <2>5, <2>6, <2>7, <2>8
  <1>7. ASSUME NEW a \in Anchor, NEW token \in Token, Touch(a, token)
        PROVE  SettledFits' /\ \A k \in Hook : (Quiet(k) /\ Calm(k) /\ Loud(k))'
    <2>1. \A b \in Branch : settled'[b] = FALSE
      BY <1>7 DEF Touch
    <2>2. \A k \in Hook : hook'[k].quiet = FALSE /\ hook'[k].branch = hook[k].branch
      BY <1>7, TouchFields
    <2>3. QED
      BY <1>0, <2>1, <2>2 DEF SettledFits, Quiet, Calm, Loud, Evaluation
  <1>8. CASE UNCHANGED vars
    BY <1>0, <1>8 DEF vars, history, SettledFits, Quiet, Calm, Loud, AllFit, Fits, Faithful, Shot
  <1>9. QED
    BY <1>1, <1>2, <1>3, <1>4, <1>5, <1>6, <1>7, <1>8 DEF Next, Step

LEMMA StallInvImplies == TypeOK /\ StallInv => NoStall
  <1> SUFFICES ASSUME TypeOK, StallInv, NEW h \in Hook,
                      hook[h].pc \in {"loaded", "opened", "saved", "answered"},
                      hook[h].listed, hook[h].calm, hook[h].quiet
               PROVE  ~Holds(h)
    BY DEF NoStall
  <1>1. CASE hook[h].previous = Nothing
    BY <1>1 DEF Holds, RequiresHold, SceneState
  <1>2. CASE hook[h].previous # Nothing
    <2>1. hook[h].pc \in Live /\ hook[h].todo = {}
      BY DEF Live, Busy, StallInv, AllListed, Judging
    <2>2. \A a \in Anchor : Faithful(h, a) /\ Fits(hook[h].previous, a)
      BY <1>2, <2>1 DEF StallInv, Quiet, Calm, AllFit
    <2>3. \A a \in Anchor : Now(hook[h].current, a) = ground[a]
      BY <2>1, <2>2, SceneAssumption DEF Faithful, Shot, Now, TypeOK
    <2>4. Differ(hook[h].previous, hook[h].current) = {}
      BY <2>2, <2>3 DEF Differ, Fits
    <2>5. QED
      BY <1>2, <2>4 DEF Holds, RequiresHold, SceneState, Unobserved
  <1>3. QED
    BY <1>1, <1>2

\* A change costs one hold, not a permanent stall.
THEOREM NoStalls == Spec => []NoStall
  <1>1. Init => TypeOK /\ StallInv
    BY InitTypeOK, InitStallInv
  <1>2. TypeOK /\ StallInv /\ [Next]_vars => TypeOK' /\ StallInv'
    BY StepTypeOK, StepStallInv
  <1>3. QED
    BY <1>1, <1>2, StallInvImplies, PTL DEF Spec

-----------------------------------------------------------------------------
(* What the host knows *)

\* Evaluations that have read the baseline, and those that have still to write it.
HasRead == {"loaded", "opened", "saved"}
ToWrite == {"loaded", "opened"}

DiskIsReported(b) ==
    disk[b] # Unreadable => origin[b] # Nothing /\ Reported(b, disk[b])

PreviousIsReported(h) ==
    hook[h].pc \in HasRead /\ hook[h].previous # Nothing =>
        origin[hook[h].branch] # Nothing /\ Reported(hook[h].branch, hook[h].previous)

\* Whoever found no baseline is the only one to write one.
FirstIsAlone(h) ==
    hook[h].pc \in ToWrite /\ hook[h].previous = Nothing =>
        /\ origin[hook[h].branch] = Nothing
        /\ \A k \in Hook : hook[k].pc \in ToWrite /\ hook[k].branch = hook[h].branch => k = h

TamperInv ==
    /\ \A b \in Branch : steady[b] => DiskIsReported(b)
    /\ \A h \in Hook : steady[hook[h].branch] => PreviousIsReported(h) /\ FirstIsAlone(h)

LEMMA InitTamperInv == Init => TamperInv
  <1>1. ASSUME Init PROVE \A h \in Hook : hook[h].pc = "idle"
    BY <1>1 DEF Init
  <1>2. QED
    BY <1>1 DEF Init, TamperInv, DiskIsReported, PreviousIsReported, FirstIsAlone, HasRead, ToWrite

\* Nothing the host knows is lost as long as who has saved stays or answers.
LEMMA KnownGrows ==
    ASSUME NEW b, told[b] \subseteq told'[b],
           \A h \in Hook : hook[h].pc = "saved" /\ hook[h].branch = b /\ Holds(h) =>
                \/ Report(h) \subseteq told'[b]
                \/ /\ hook'[h].pc = "saved" /\ hook'[h].branch = b
                   /\ hook'[h].current = hook[h].current /\ hook'[h].previous = hook[h].previous
    PROVE  Known(b) \subseteq Known(b)'
  <1> SUFFICES ASSUME NEW pair \in Known(b) PROVE pair \in Known(b)'
    OBVIOUS
  <1>1. CASE pair \in told[b]
    BY <1>1 DEF Known
  <1>2. ASSUME NEW h \in Working(b), hook[h].pc = "saved", Holds(h), pair \in Report(h)
        PROVE  pair \in Known(b)'
    <2>1. h \in Hook /\ hook[h].branch = b
      BY DEF Working
    <2>2. CASE Report(h) \subseteq told'[b]
      BY <1>2, <2>2 DEF Known
    <2>3. CASE /\ hook'[h].pc = "saved" /\ hook'[h].branch = b
               /\ hook'[h].current = hook[h].current /\ hook'[h].previous = hook[h].previous
      <3>1. h \in Working(b)'
        BY <2>1, <2>3 DEF Working, Busy
      <3>2. Report(h)' = Report(h) /\ Holds(h)'
        BY <1>2, <2>3 DEF Report, Holds, Differ, Now, RequiresHold, SceneState, Unobserved
      <3>3. QED
        BY <1>2, <2>3, <3>1, <3>2 DEF Known
    <2>4. QED
      BY <1>2, <2>1, <2>2, <2>3
  <1>3. QED
    BY <1>1, <1>2 DEF Known

\* Where the origin, the baseline and the readers of a branch stay.
LEMMA DiskStands ==
    ASSUME NEW b \in Branch, Known(b) \subseteq Known(b)', origin'[b] = origin[b],
           disk'[b] \in {disk[b], Unreadable}, DiskIsReported(b)
    PROVE  DiskIsReported(b)'
  <1>1. CASE disk'[b] = Unreadable
    BY <1>1 DEF DiskIsReported
  <1>2. CASE disk'[b] = disk[b]
    <2>1. disk[b] # Unreadable => Reported(b, disk[b]) /\ origin[b] # Nothing
      BY DEF DiskIsReported
    <2>2. QED
      BY <1>2, <2>1 DEF DiskIsReported, Reported
  <1>3. QED
    BY <1>1, <1>2

LEMMA PreviousStands ==
    ASSUME NEW h \in Hook, Known(hook[h].branch) \subseteq Known(hook[h].branch)',
           origin'[hook[h].branch] = origin[hook[h].branch],
           hook'[h].branch = hook[h].branch, hook'[h].previous = hook[h].previous,
           hook'[h].pc \in HasRead => hook[h].pc \in HasRead,
           PreviousIsReported(h)
    PROVE  PreviousIsReported(h)'
  <1> DEFINE b == hook[h].branch
  <1> SUFFICES ASSUME hook'[h].pc \in HasRead, hook'[h].previous # Nothing
               PROVE  origin'[b] # Nothing /\ Reported(hook[h].branch, hook[h].previous)'
    BY DEF PreviousIsReported
  <1>1. origin[b] # Nothing /\ Reported(b, hook[h].previous)
    BY DEF PreviousIsReported
  <1>2. QED
    BY <1>1 DEF Reported
\* An evaluation that keeps what it knows and is known of it.
Stays(h) ==
    /\ hook'[h].pc = hook[h].pc /\ hook'[h].branch = hook[h].branch
    /\ hook'[h].current = hook[h].current /\ hook'[h].previous = hook[h].previous

\* One that has nothing to say, begins or ends, or is about to write still.
Fades(h) ==
    /\ hook[h].pc = "saved" /\ Holds(h) => ~steady'[hook[h].branch]
    /\ hook'[h].pc \in HasRead =>
        /\ hook[h].pc \in ToWrite /\ hook'[h].pc \in ToWrite
        /\ hook'[h].branch = hook[h].branch /\ hook'[h].previous = hook[h].previous

LEMMA FadingKeeps ==
    ASSUME TypeOK, TamperInv, TypeOK', UNCHANGED <<origin, told>>,
           \A b \in Branch : disk'[b] \in {disk[b], Unreadable} /\ (steady'[b] => steady[b]),
           \A h \in Hook : Stays(h) \/ Fades(h)
    PROVE  TamperInv'
  <1>1. ASSUME NEW b \in Branch, steady'[b] PROVE Known(b) \subseteq Known(b)'
    <2>1. ASSUME NEW h \in Hook, hook[h].pc = "saved", hook[h].branch = b, Holds(h) PROVE Stays(h)
      BY <1>1, <2>1 DEF Fades
    <2>2. QED
      BY <2>1, KnownGrows DEF Stays
  <1>2. ASSUME NEW b \in Branch, steady'[b] PROVE DiskIsReported(b)'
    BY <1>1, <1>2, DiskStands DEF TamperInv
  <1>3. ASSUME NEW h \in Hook, steady'[hook'[h].branch], hook'[h].pc \in HasRead
        PROVE  PreviousIsReported(h)' /\ FirstIsAlone(h)'
    <2>1. /\ hook'[h].branch = hook[h].branch /\ hook'[h].previous = hook[h].previous
          /\ hook[h].pc \in HasRead /\ (hook'[h].pc \in ToWrite => hook[h].pc \in ToWrite)
      BY <1>3 DEF Stays, Fades, HasRead, ToWrite
    <2>2. hook[h].branch \in Branch
      BY DEF TypeOK, Evaluation
    <2>3. PreviousIsReported(h) /\ FirstIsAlone(h)
      BY <1>3, <2>1, <2>2 DEF TamperInv
    <2>4. PreviousIsReported(h)'
      BY <1>1, <1>3, <2>1, <2>2, <2>3, PreviousStands
    <2>5. \A k \in Hook : hook'[k].pc \in ToWrite =>
            hook[k].pc \in ToWrite /\ hook'[k].branch = hook[k].branch
      BY DEF Stays, Fades, HasRead, ToWrite
    <2>6. FirstIsAlone(h)'
      BY <2>1, <2>3, <2>5 DEF FirstIsAlone
    <2>7. QED
      BY <2>4, <2>6
  <1>4. ASSUME NEW h \in Hook, hook'[h].pc \notin HasRead
        PROVE  PreviousIsReported(h)' /\ FirstIsAlone(h)'
    BY <1>4 DEF PreviousIsReported, FirstIsAlone, HasRead, ToWrite
  <1>5. QED
    BY <1>2, <1>3, <1>4 DEF TamperInv

LEMMA LoadKeeps ==
    ASSUME TypeOK, TypeOK', TamperInv, NEW h \in Hook, LoadPrevious(h)
    PROVE  TamperInv'
  <1> PICK b \in Branch : b = hook[h].branch
    BY DEF TypeOK, Evaluation
  <1>0. b \in Branch /\ UNCHANGED <<origin, told, disk>>
    BY DEF LoadPrevious, TypeOK, Evaluation
  <1>1. \A c \in Branch : steady'[c] => steady[c]
    BY LoadFields
  <1>2. hook[h].pc = "captured" /\ hook'[h].pc = "loaded" /\ hook'[h].branch = b /\ Others(h)
    BY LoadFields
  <1>3. \A c \in Branch : Known(c) \subseteq Known(c)'
    BY <1>0, <1>2, KnownGrows DEF Others
  <1>4. ASSUME NEW c \in Branch, steady'[c] PROVE DiskIsReported(c)'
    BY <1>0, <1>1, <1>3, <1>4, DiskStands DEF TamperInv
  <1>5. ASSUME steady'[b] PROVE PreviousIsReported(h)' /\ FirstIsAlone(h)'
    <2>1. DiskIsReported(b)'
      BY <1>0, <1>4, <1>5
    <2>2. hook'[h].previous # Nothing => hook'[h].previous = disk'[b] /\ disk'[b] # Unreadable
      BY <1>0, LoadFields DEF Load
    <2>3. PreviousIsReported(h)'
      BY <1>2, <2>1, <2>2 DEF DiskIsReported, PreviousIsReported
    <2>4. ASSUME hook'[h].previous = Nothing
          PROVE  /\ origin[b] = Nothing
                 /\ \A k \in Hook \ {h} : hook[k].pc \in ToWrite => hook[k].branch # b
      BY <1>5, <2>4, LoadFields DEF Working, Busy, ToWrite
    <2>5. FirstIsAlone(h)'
      BY <1>0, <1>2, <2>4 DEF FirstIsAlone, Others
    <2>6. QED
      BY <2>3, <2>5
  <1>6. ASSUME NEW k \in Hook \ {h}, steady'[hook'[k].branch]
        PROVE  PreviousIsReported(k)' /\ FirstIsAlone(k)'
    <2>1. hook'[k] = hook[k] /\ hook[k].branch \in Branch
      BY <1>2 DEF Others, TypeOK, Evaluation
    <2>2. PreviousIsReported(k) /\ FirstIsAlone(k)
      BY <1>1, <1>6, <2>1 DEF TamperInv
    <2>3. PreviousIsReported(k)'
      BY <1>0, <1>3, <2>1, <2>2, PreviousStands
    <2>4. ASSUME hook[k].branch = b, hook[k].pc \in ToWrite, hook[k].previous = Nothing PROVE FALSE
      <3>1. steady'[b] /\ steady[b] /\ origin[b] = Nothing
        BY <1>0, <1>1, <1>6, <2>1, <2>2, <2>4 DEF FirstIsAlone
      <3>2. disk[b] = Unreadable
        BY <1>0, <3>1 DEF TamperInv, DiskIsReported
      <3>3. hook'[h].previous = Nothing
        BY <3>2, LoadFields DEF Load
      <3>4. QED
        BY <2>4, <3>1, <3>3, LoadFields DEF Working, Busy, ToWrite
    <2>5. FirstIsAlone(k)'
      BY <1>0, <1>2, <2>1, <2>2, <2>4 DEF FirstIsAlone, Others
    <2>6. QED
      BY <2>3, <2>5
  <1>7. QED
    BY <1>2, <1>4, <1>5, <1>6 DEF TamperInv

LEMMA WriteKeeps ==
    ASSUME TypeOK, TypeOK', TamperInv, NEW h \in Hook, SaveWrite(h)
    PROVE  TamperInv'
  <1> PICK b \in Branch : b = hook[h].branch
    BY DEF TypeOK, Evaluation
  <1> PICK current \in Capture : current = hook[h].current
    BY DEF TypeOK, Evaluation
  <1> PICK previous \in Capture \cup {Nothing} : previous = hook[h].previous
    BY DEF TypeOK, Evaluation
  <1>0. /\ b \in Branch /\ current \in Capture /\ previous \in Capture \cup {Nothing}
        /\ hook[h].pc = "opened" /\ hook'[h].pc = "saved" /\ hook'[h].branch = b
        /\ hook'[h].current = current /\ hook'[h].previous = previous
        /\ UNCHANGED steady /\ Others(h)
    BY PlaceFields DEF SaveWrite, TypeOK, Evaluation, Same
  <1>1. /\ disk'[b] \in {current, Unreadable}
        /\ \A c \in Branch \ {b} : disk'[c] = disk[c] /\ origin'[c] = origin[c] /\ told'[c] = told[c]
    BY <1>0 DEF SaveWrite, Saved, TypeOK
  <1>2. \A c \in Branch \ {b} : Known(c) \subseteq Known(c)'
    BY <1>0, <1>1, KnownGrows DEF Others
  <1>3. ASSUME NEW c \in Branch \ {b}, steady[c] PROVE DiskIsReported(c)'
    BY <1>1, <1>2, <1>3, DiskStands DEF TamperInv
  <1>4. ASSUME NEW k \in Hook, hook[k].branch # b, steady[hook[k].branch]
        PROVE  PreviousIsReported(k)' /\ FirstIsAlone(k)'
    <2>1. hook'[k] = hook[k] /\ hook[k].branch \in Branch \ {b}
      BY <1>0, <1>4 DEF Others, TypeOK, Evaluation
    <2>2. PreviousIsReported(k) /\ FirstIsAlone(k)
      BY <1>4 DEF TamperInv
    <2>3. PreviousIsReported(k)'
      BY <1>1, <1>2, <2>1, <2>2, PreviousStands
    <2>4. FirstIsAlone(k)'
      BY <1>0, <1>1, <2>1, <2>2 DEF FirstIsAlone, Others
    <2>5. QED
      BY <2>3, <2>4
  <1>5. CASE previous # Nothing
    <2>1. UNCHANGED <<origin, told>>
      BY <1>5 DEF SaveWrite
    <2>2. Known(b) \subseteq Known(b)'
      BY <1>0, <2>1, KnownGrows DEF Others
    <2>3. ASSUME steady[b] PROVE DiskIsReported(b)'
      <3>1. origin[b] # Nothing /\ Reported(b, previous)
        BY <1>0, <1>5, <2>3 DEF TamperInv, PreviousIsReported, HasRead
      <3>2. ASSUME NEW a \in Anchor, origin[b][a] # NoEntry
            PROVE  <<a, Now(current, a)>> \in Known(b)' \/ <<a, "ABSENT">> \in Known(b)'
        <4>1. <<a, Now(previous, a)>> \in Known(b)' \/ <<a, "ABSENT">> \in Known(b)'
          BY <2>2, <3>1, <3>2 DEF Reported
        <4>2. CASE previous[a] = NoEntry \/ Now(current, a) = previous[a]
          BY <4>1, <4>2 DEF Now
        <4>3. CASE previous[a] # NoEntry /\ Now(current, a) # previous[a]
          <5>1. a \in Differ(previous, current)
            BY <1>5, <4>3 DEF Differ
          <5>2. Holds(h)' /\ <<a, Now(current, a)>> \in Report(h)'
            BY <1>0, <1>5, <5>1 DEF Holds, RequiresHold, SceneState, Unobserved, Report
          <5>3. h \in Working(b)'
            BY <1>0 DEF Working, Busy
          <5>4. QED
            BY <1>0, <5>2, <5>3 DEF Known
        <4>4. QED
          BY <4>2, <4>3
      <3>3. QED
        BY <1>1, <2>1, <3>1, <3>2 DEF DiskIsReported, Reported
    <2>4. ASSUME NEW k \in Hook, hook[k].branch = b, steady[b]
          PROVE  PreviousIsReported(k)' /\ FirstIsAlone(k)'
      <3>1. PreviousIsReported(k) /\ FirstIsAlone(k)
        BY <2>4 DEF TamperInv
      <3>2. /\ hook'[k].branch = hook[k].branch /\ hook'[k].previous = hook[k].previous
            /\ hook'[k].pc \in HasRead => hook[k].pc \in HasRead
            /\ hook'[k].pc \in ToWrite => hook[k].pc \in ToWrite
        BY <1>0 DEF Others, HasRead, ToWrite
      <3>3. PreviousIsReported(k)'
        BY <2>1, <2>2, <2>4, <3>1, <3>2, PreviousStands
      <3>4. \A m \in Hook : hook'[m].pc \in ToWrite =>
              hook[m].pc \in ToWrite /\ hook'[m].branch = hook[m].branch
        BY <1>0 DEF Others, ToWrite
      <3>5. FirstIsAlone(k)'
        BY <2>1, <3>1, <3>2, <3>4 DEF FirstIsAlone
      <3>6. QED
        BY <3>3, <3>5
    <2>5. QED
      BY <1>0, <1>3, <1>4, <2>3, <2>4 DEF TamperInv, Others
  <1>6. CASE previous = Nothing
    <2>1. /\ origin'[b] = current
          /\ told'[b] = {<<a, current[a]>> : a \in Anchor}
      BY <1>0, <1>6 DEF SaveWrite, TypeOK
    <2>2. DiskIsReported(b)'
      <3>1. told'[b] \subseteq Known(b)'
        BY DEF Known
      <3>2. \A a \in Anchor : current[a] # NoEntry => <<a, Now(current, a)>> \in Known(b)'
        BY <2>1, <3>1 DEF Now
      <3>3. origin'[b] # Nothing
        BY <1>0, <2>1, SceneAssumption
      <3>4. QED
        BY <1>1, <2>1, <3>2, <3>3 DEF DiskIsReported, Reported
    <2>3. ASSUME NEW k \in Hook, hook[k].branch = b, steady[b]
          PROVE  PreviousIsReported(k)' /\ FirstIsAlone(k)'
      <3>1. origin[b] = Nothing
        BY <1>0, <1>6, <2>3 DEF TamperInv, FirstIsAlone, ToWrite
      <3>2. hook[k].pc \in HasRead => hook[k].previous = Nothing
        BY <2>3, <3>1 DEF TamperInv, PreviousIsReported
      <3>3. hook[k].pc \in ToWrite => k = h
        BY <1>0, <1>6, <2>3 DEF TamperInv, FirstIsAlone, ToWrite
      <3>4. CASE k = h
        BY <1>0, <1>6, <3>4 DEF PreviousIsReported, FirstIsAlone, ToWrite
      <3>5. CASE k # h
        BY <1>0, <3>2, <3>3, <3>5 DEF PreviousIsReported, FirstIsAlone, Others, ToWrite
      <3>6. QED
        BY <3>4, <3>5
    <2>4. QED
      BY <1>0, <1>3, <1>4, <2>2, <2>3 DEF TamperInv, Others
  <1>7. QED
    BY <1>5, <1>6

LEMMA AnswerKeeps ==
    ASSUME TypeOK, TypeOK', TamperInv, NEW h \in Hook, Answer(h)
    PROVE  TamperInv'
  <1>0. /\ UNCHANGED <<disk, origin, steady>>
        /\ \A b \in Branch : told[b] \subseteq told'[b]
        /\ Holds(h) => Report(h) \subseteq told'[hook[h].branch]
        /\ hook[h].branch \in Branch
    BY DEF Answer, TypeOK, Evaluation
  <1>1. Same(h) /\ Others(h) /\ hook[h].pc = "saved" /\ hook'[h].pc = "answered"
    BY PlaceFields
  <1>2. \A b \in Branch : Known(b) \subseteq Known(b)'
    BY <1>0, <1>1, KnownGrows DEF Others
  <1>3. ASSUME NEW b \in Branch, steady[b] PROVE DiskIsReported(b)'
    BY <1>0, <1>2, <1>3, DiskStands DEF TamperInv
  <1>4. \A k \in Hook :
            /\ hook'[k].branch = hook[k].branch /\ hook'[k].previous = hook[k].previous
            /\ hook'[k].pc \in HasRead => hook[k].pc \in HasRead
            /\ hook'[k].pc \in ToWrite => hook[k].pc \in ToWrite
    BY <1>1 DEF Same, Others, HasRead, ToWrite
  <1>5. ASSUME NEW k \in Hook, steady[hook[k].branch]
        PROVE  PreviousIsReported(k)' /\ FirstIsAlone(k)'
    <2>1. PreviousIsReported(k) /\ FirstIsAlone(k) /\ hook[k].branch \in Branch
      BY <1>5 DEF TamperInv, TypeOK, Evaluation
    <2>2. PreviousIsReported(k)'
      BY <1>0, <1>2, <1>4, <2>1, PreviousStands
    <2>3. FirstIsAlone(k)'
      BY <1>0, <1>4, <2>1 DEF FirstIsAlone
    <2>4. QED
      BY <2>2, <2>3
  <1>6. QED
    BY <1>0, <1>3, <1>4, <1>5 DEF TamperInv

LEMMA StepTamperInv == TypeOK /\ TamperInv /\ [Next]_vars => TamperInv'
  <1> SUFFICES ASSUME TypeOK, TamperInv, [Next]_vars, TypeOK' PROVE TamperInv'
    BY StepTypeOK
  <1>1. ASSUME NEW h \in Hook, NEW b \in Branch, List(h, b) PROVE TamperInv'
    <2>1. UNCHANGED <<origin, told, disk, steady>>
      BY <1>1 DEF List
    <2>2. Fades(h)
      BY <1>1, ListFields DEF Fades, HasRead, List
    <2>3. \A k \in Hook \ {h} : Stays(k)
      BY <1>1, ListFields DEF Stays
    <2>4. QED
      BY <2>1, <2>2, <2>3, FadingKeeps
  <1>2. ASSUME NEW h \in Hook, CaptureOne(h) PROVE TamperInv'
    <2>1. UNCHANGED <<origin, told, disk, steady>>
      BY <1>2 DEF CaptureOne, history
    <2>2. Fades(h) /\ \A k \in Hook \ {h} : Stays(k)
      BY <1>2, CaptureFields DEF Fades, Stays, HasRead, Others
    <2>3. QED
      BY <2>1, <2>2, FadingKeeps
  <1>3. ASSUME NEW h \in Hook, Captured(h) \/ SaveOpen(h) \/ IOFailure(h) PROVE TamperInv'
    <2>1. /\ UNCHANGED <<origin, told, steady>>
          /\ \A b \in Branch : disk'[b] \in {disk[b], Unreadable}
      BY <1>3 DEF Captured, SaveOpen, IOFailure, history, TypeOK
    <2>2. Fades(h) /\ \A k \in Hook \ {h} : Stays(k)
      BY <1>3, PlaceFields DEF Fades, Stays, HasRead, ToWrite, Others, Same
    <2>3. QED
      BY <2>1, <2>2, FadingKeeps
  <1>4. ASSUME NEW h \in Hook, Crash(h) PROVE TamperInv'
    <2>1. /\ UNCHANGED <<origin, told, disk>>
          /\ \A b \in Branch : steady'[b] => steady[b]
          /\ hook[h].pc = "saved" /\ Holds(h) => ~steady'[hook[h].branch]
      BY <1>4 DEF Crash, TypeOK, Evaluation
    <2>2. Fades(h) /\ \A k \in Hook \ {h} : Stays(k)
      BY <1>4, <2>1, PlaceFields DEF Fades, Stays, HasRead, ToWrite, Others, Same
    <2>3. QED
      BY <2>1, <2>2, FadingKeeps
  <1>5. ASSUME NEW a \in Anchor, NEW token \in Token, Touch(a, token) PROVE TamperInv'
    <2>1. UNCHANGED <<origin, told, disk, steady>>
      BY <1>5 DEF Touch
    <2>2. \A k \in Hook : Stays(k)
      BY <1>5, TouchFields DEF Stays
    <2>3. QED
      BY <2>1, <2>2, FadingKeeps
  <1>6. CASE UNCHANGED vars
    <2>1. UNCHANGED <<origin, told, disk, steady>> /\ \A k \in Hook : Stays(k)
      BY <1>6 DEF vars, history, Stays
    <2>2. QED
      BY <2>1, FadingKeeps
  <1>7. QED
    BY <1>1, <1>2, <1>3, <1>4, <1>5, <1>6, LoadKeeps, WriteKeeps, AnswerKeeps DEF Next, Step

\* In a branch that lost no baseline and no answer, a change that has become
\* part of the baseline was held first.
THEOREM TamperReports == Spec => []TamperIsReported
  <1>1. Init => TypeOK /\ TamperInv
    BY InitTypeOK, InitTamperInv
  <1>2. TypeOK /\ TamperInv /\ [Next]_vars => TypeOK' /\ TamperInv'
    BY StepTypeOK, StepTamperInv
  <1>3. TamperInv => TamperIsReported
    BY DEF TamperInv, DiskIsReported, TamperIsReported
  <1>4. QED
    BY <1>1, <1>2, <1>3, PTL DEF Spec
=============================================================================
