------------------------ MODULE TemporalLedgerProofs ------------------------
(***************************************************************************)
(* Type correctness of TemporalLedger and its two guarantees, for every    *)
(* number of hook processes, branches and proposals.                       *)
(***************************************************************************)
EXTENDS SerialLedger, TLAPS

\* Artifact taint is only ever carried by a branch that holds a hard marker.
ArtifactsNeedTaint(s) == \A t \in Path : s.tainted_artifacts[t] # {} => s.hard_markers # {}

\* What a state says of branch b is what the history of b says.
Accounts(s, b) ==
    /\ s.hard_markers # {} <=> exposed[b] # {}
    /\ s.soft_read_count = reads[b]

StatesAreSound ==
    /\ \A b \in Branch : ArtifactsNeedTaint(Load(b))
    /\ \A h \in Hook : ArtifactsNeedTaint(hook[h].base)

TaintWasEntered ==
    /\ \A b \in Branch : Load(b).hard_markers # {} => entered[b]
    /\ \A h \in Hook : hook[h].base.hard_markers # {} => entered[hook[h].branch]
    /\ \A h \in Hook : /\ hook[h].pc # "idle"
                       /\ PrimarySources(hook[h].proposal) # {}
                       => entered[hook[h].branch]

\* An undisturbed branch has at most one evaluation in flight, and the file
\* (or, while it is being rewritten, that evaluation) accounts for its history.
CalmBranch(b) ==
    /\ \A g, h \in Working(b) : g = h
    /\ \A h \in Working(b) : /\ Accounts(hook[h].base, b)
                             /\ hook[h].pc # "unlinked"
                             /\ hook[h].pc = "opened" => disk[b] = Unreadable
    /\ (\A h \in Working(b) : hook[h].pc = "loaded") => Accounts(Load(b), b)

CalmBranches == \A b \in Branch : ~disturbed[b] => CalmBranch(b)

CalmAnswers == \A h \in Hook : hook[h].calm => Answer(h) = hook[h].owed

IInv == TypeOK /\ StatesAreSound /\ TaintWasEntered /\ CalmBranches /\ CalmAnswers

-----------------------------------------------------------------------------
(* The pure step *)

LEMMA SourcesType ==
    ASSUME NEW p \in CommandProposal
    PROVE  PrimarySources(p) \subseteq TaintMarker
  BY PathAssumption DEF PrimarySources, TaintMarker, TaintKind, CommandProposal,
     ProtectedTargets, PathsOutside

LEMMA StepType ==
    ASSUME NEW s \in ActorFlowState, NEW p \in CommandProposal
    PROVE  /\ PostState(s, p) \in ActorFlowState
           /\ TemporalVote(s, p) \in Vote
  <1> DEFINE hard == s.hard_markers \cup HardSources(s, p)
  <1>1. hard \subseteq TaintMarker
    BY SourcesType DEF HardSources, TaintMarker, TaintKind, CommandProposal, ActorFlowState
  <1>2. Kinds(hard) \subseteq TaintKind
    BY <1>1 DEF Kinds, TaintMarker
  <1> DEFINE new == PostState(s, p)
  <1>3. new.tainted_artifacts \in [Path -> SUBSET TaintKind]
    <2>1. ASSUME NEW t \in Path, NEW W
          PROVE  s.tainted_artifacts[t] \cup (IF t \in W THEN Kinds(hard) ELSE {})
                 \in SUBSET TaintKind
      <3> HIDE DEF hard
      <3>1. QED
        BY <1>2 DEF ActorFlowState
    <2> HIDE DEF hard
    <2>2. QED
      BY <2>1 DEF PostState, HeldHard, hard
  <1>4a. new = [hard_markers |-> new.hard_markers, soft_read_count |-> new.soft_read_count,
                tainted_artifacts |-> new.tainted_artifacts]
    BY DEF PostState, HeldHard
  <1>4b. new.hard_markers \in SUBSET TaintMarker /\ new.soft_read_count \in Nat
    BY <1>1 DEF PostState, HeldHard, ActorFlowState
  <1>6. new \in ActorFlowState
    <2> HIDE DEF new, hard
    <2>1. QED
      BY <1>3, <1>4a, <1>4b DEF ActorFlowState
  <1>4. TemporalVote(s, p) \in Vote
    BY DEF TemporalVote, Vote
  <1>5. QED
    BY <1>6, <1>4

LEMMA EmptyFlowType ==
    /\ EmptyFlow \in ActorFlowState /\ ArtifactsNeedTaint(EmptyFlow)
    /\ EmptyFlow.hard_markers = {} /\ EmptyFlow.soft_read_count = 0
  BY DEF EmptyFlow, ActorFlowState, ArtifactsNeedTaint

\* A step leaves hard taint exactly when there was some or it entered a primary
\* source: re-reading an artifact never taints a clean branch.
LEMMA StepTaint ==
    ASSUME NEW s \in ActorFlowState, NEW p \in CommandProposal, ArtifactsNeedTaint(s)
    PROVE  /\ PostState(s, p).hard_markers # {}
              <=> s.hard_markers # {} \/ PrimarySources(p) # {}
           /\ s.hard_markers \cup HardSources(s, p) # {}
              <=> s.hard_markers # {} \/ PrimarySources(p) # {}
           /\ ArtifactsNeedTaint(PostState(s, p))
  <1>1. \A t \in p.target_paths : t \in Path
    BY DEF CommandProposal
  <1>2. s.hard_markers \cup HardSources(s, p) # {}
        <=> s.hard_markers # {} \/ PrimarySources(p) # {}
    BY <1>1 DEF HardSources, ArtifactsNeedTaint
  <1>3. PostState(s, p).hard_markers = s.hard_markers \cup HardSources(s, p)
    BY DEF PostState, HeldHard
  <1>4. ArtifactsNeedTaint(PostState(s, p))
    <2> SUFFICES ASSUME NEW t \in Path, PostState(s, p).tainted_artifacts[t] # {}
                 PROVE  s.hard_markers \cup HardSources(s, p) # {}
      BY <1>3 DEF ArtifactsNeedTaint
    <2>1. CASE s.tainted_artifacts[t] # {}
      BY <2>1 DEF ArtifactsNeedTaint
    <2>2. CASE s.tainted_artifacts[t] = {}
      BY <2>2 DEF PostState, HeldHard
    <2>3. QED
      BY <2>1, <2>2
  <1>5. QED
    BY <1>2, <1>3, <1>4

\* A state that accounts for the branch's history casts the vote it calls for.
LEMMA AccountsVote ==
    ASSUME NEW b, NEW s \in ActorFlowState, NEW p \in CommandProposal,
           ArtifactsNeedTaint(s), Accounts(s, b)
    PROVE  TemporalVote(s, p) = Owed(b, p)
  <1>1. s.hard_markers \cup HardSources(s, p) # {}
        <=> exposed[b] \cup PrimarySources(p) # {}
    BY StepTaint DEF Accounts
  <1>2. QED
    BY <1>1 DEF TemporalVote, HeldHard, Owed, Accounts

LEMMA LoadType ==
    ASSUME TypeOK, NEW b \in Branch
    PROVE  Load(b) \in ActorFlowState
  BY EmptyFlowType DEF Load, FlowFile, TypeOK

-----------------------------------------------------------------------------
(* Type correctness *)

LEMMA TypeInit == Init => TypeOK
  <1> SUFFICES ASSUME Init PROVE TypeOK
    OBVIOUS
  <1>1. (CHOOSE b \in Branch : TRUE) \in Branch /\ (CHOOSE p \in Proposal : TRUE) \in Proposal
    BY LedgerAssumption
  <1>2. hook \in [Hook -> [pc : PC, branch : Branch, proposal : Proposal,
                          base : ActorFlowState, owed : Vote, calm : BOOLEAN]]
    BY <1>1, EmptyFlowType DEF Init, PC, Vote
  <1>3. QED
    BY <1>2, LedgerAssumption DEF Init, TypeOK

LEMMA TypeStep == TypeOK /\ [Next]_vars => TypeOK'
  <1> SUFFICES ASSUME TypeOK, [Next]_vars PROVE TypeOK'
    OBVIOUS
  <1> USE DEF TypeOK
  <1>1. ASSUME NEW h \in Hook, NEW b \in Branch, NEW p \in Proposal, Evaluate(h, b, p)
        PROVE  TypeOK'
    <2>1. Owed(b, p) \in Vote
      BY DEF Owed, Vote
    <2>2. Load(b) \in ActorFlowState
      BY LoadType
    <2>3. disturbed' \in [Branch -> BOOLEAN] /\ entered' \in [Branch -> BOOLEAN]
      BY <1>1 DEF Evaluate
    <2>4. hook' \in [Hook -> [pc : PC, branch : Branch, proposal : Proposal,
                             base : ActorFlowState, owed : Vote, calm : BOOLEAN]]
      BY <1>1, <2>1, <2>2, <2>3 DEF Evaluate, PC, InFlight
    <2>5. events' \in 0..MaxEvents
      BY <1>1, LedgerAssumption DEF Evaluate
    <2>6. QED
      BY <1>1, <2>3, <2>4, <2>5 DEF Evaluate
  <1>2. ASSUME NEW h \in Hook, SaveOpen(h) PROVE TypeOK'
    BY <1>2 DEF SaveOpen, Goto, PC, InFlight, history
  <1>3. ASSUME NEW h \in Hook, SaveWrite(h) PROVE TypeOK'
    <2> DEFINE b == hook[h].branch
               p == hook[h].proposal
    <2>1. PostState(hook[h].base, p) \in ActorFlowState /\ PrimarySources(p) \subseteq TaintMarker
      BY StepType, SourcesType, LedgerAssumption
    <2>2. b \in Branch
      OBVIOUS
    <2>3. disk' \in [Branch -> ActorFlowState \cup {Unreadable}]
      BY <1>3, <2>1, <2>2 DEF SaveWrite, Saved, Loaded
    <2>4. /\ exposed' \in [Branch -> SUBSET TaintMarker]
          /\ reads' \in [Branch -> Nat]
      BY <1>3, <2>1, <2>2 DEF SaveWrite, Saved, Loaded
    <2>5. QED
      BY <1>3, <2>3, <2>4 DEF SaveWrite, Goto, PC
  <1>4. ASSUME NEW h \in Hook, AppendLedger(h) PROVE TypeOK'
    BY <1>4 DEF AppendLedger, Goto, PC, history
  <1>5. ASSUME NEW h \in Hook, Crash(h) \/ IOFailure(h) PROVE TypeOK'
    <2>1. disturbed' \in [Branch -> BOOLEAN]
      BY <1>5 DEF Crash, IOFailure, Abort
    <2>2. hook' \in [Hook -> [pc : PC, branch : Branch, proposal : Proposal,
                             base : ActorFlowState, owed : Vote, calm : BOOLEAN]]
      <3>1. \E pc \in PC : hook' = [hook EXCEPT ![h].pc = pc]
        BY <1>5 DEF Crash, IOFailure, Abort, Goto, PC
      <3>2. QED
        BY <3>1
    <2>3. QED
      BY <1>5, <2>1, <2>2 DEF Crash, IOFailure, Abort
  <1>6. ASSUME NEW b \in Branch, Clear(b) PROVE TypeOK'
    BY <1>6 DEF Clear, PC, InFlight
  <1>7. CASE UNCHANGED vars
    BY <1>7 DEF vars, history
  <1>8. QED
    BY <1>1, <1>2, <1>3, <1>4, <1>5, <1>6, <1>7 DEF Next, Step

\* The record of every hook process and every flow file keeps its type.
THEOREM TypeCorrect == Spec => []TypeOK
  BY TypeInit, TypeStep, PTL DEF Spec
-----------------------------------------------------------------------------
(* The inductive invariant.  The three steps that touch the shared file are *)
(* treated first; the others keep every evaluation's base and every file.   *)

LEMMA InvInit == Init => IInv
  <1> SUFFICES ASSUME Init PROVE IInv
    OBVIOUS
  <1>1. TypeOK
    BY TypeInit
  <1>2. \A b \in Branch : Load(b) = EmptyFlow /\ Working(b) = {}
    BY DEF Init, Load, FlowFile, Working, InFlight
  <1>3. StatesAreSound
    BY <1>2, EmptyFlowType DEF StatesAreSound, Init
  <1>4. TaintWasEntered
    BY <1>2, EmptyFlowType DEF TaintWasEntered, Init
  <1>5. CalmBranches
    BY <1>2, EmptyFlowType DEF CalmBranches, CalmBranch, Accounts, Init
  <1>6. CalmAnswers
    BY DEF CalmAnswers, Init
  <1>7. QED
    BY <1>1, <1>3, <1>4, <1>5, <1>6 DEF IInv

\* A step that keeps what every evaluation holds, and keeps or empties each
\* file, keeps the state-wise part of the invariant.
LEMMA Bystanders ==
    ASSUME TypeOK, StatesAreSound, TaintWasEntered, CalmAnswers, UNCHANGED entered,
           \A g \in Hook : /\ hook'[g].base = hook[g].base
                           /\ hook'[g].branch = hook[g].branch
                           /\ hook'[g].proposal = hook[g].proposal
                           /\ hook'[g].owed = hook[g].owed
                           /\ hook'[g].calm = hook[g].calm
                           /\ hook'[g].pc # "idle" => hook[g].pc # "idle",
           \A c \in Branch : Load(c)' \in {Load(c), EmptyFlow}
    PROVE  StatesAreSound' /\ TaintWasEntered' /\ CalmAnswers'
  <1>1. ASSUME NEW c \in Branch
        PROVE  ArtifactsNeedTaint(Load(c)') /\ (Load(c)'.hard_markers # {} => entered[c])
    BY EmptyFlowType DEF StatesAreSound, TaintWasEntered
  <1>2. StatesAreSound'
    <2>1. \A g \in Hook : ArtifactsNeedTaint(hook'[g].base)
      BY DEF StatesAreSound
    <2>2. QED
      BY <1>1, <2>1 DEF StatesAreSound, ArtifactsNeedTaint
  <1>3. TaintWasEntered'
    <2>1. \A g \in Hook : hook'[g].base.hard_markers # {} => entered[hook'[g].branch]
      BY DEF TaintWasEntered
    <2>2. \A g \in Hook : /\ hook'[g].pc # "idle"
                          /\ PrimarySources(hook'[g].proposal) # {}
                          => entered[hook'[g].branch]
      BY DEF TaintWasEntered
    <2>3. QED
      BY <1>1, <2>1, <2>2 DEF TaintWasEntered
  <1>4. CalmAnswers'
    BY DEF CalmAnswers, Answer, Loaded
  <1>5. QED
    BY <1>2, <1>3, <1>4

LEMMA InvEvaluate ==
    ASSUME IInv, TypeOK', NEW h \in Hook, NEW b \in Branch, NEW p \in Proposal,
           Evaluate(h, b, p)
    PROVE  IInv'
  <1> USE DEF IInv, TypeOK
  <1>1. /\ disk' = disk /\ exposed' = exposed /\ reads' = reads
        /\ hook[h].pc \notin InFlight
    BY DEF Evaluate, InFlight
  <1>2. /\ hook'[h].pc = "loaded" /\ hook'[h].branch = b /\ hook'[h].proposal = p
        /\ hook'[h].base = Load(b) /\ hook'[h].owed = Owed(b, p)
        /\ hook'[h].calm => ~disturbed'[b]
        /\ \A g \in Hook \ {h} : hook'[g] = hook[g]
    BY DEF Evaluate
  <1>3. \A c \in Branch : Load(c)' = Load(c) /\ Load(c) \in ActorFlowState
    BY <1>1, LoadType DEF Load, FlowFile
  <1>4. p \in CommandProposal
    BY LedgerAssumption
  <1>5. /\ ~disturbed'[b] => ~disturbed[b] /\ Working(b) = {}
        /\ \A c \in Branch \ {b} : disturbed'[c] = disturbed[c]
    BY DEF Evaluate
  <1>6. /\ Working(b)' = Working(b) \cup {h}
        /\ \A c \in Branch \ {b} : Working(c)' = Working(c)
    BY <1>1, <1>2 DEF Working, InFlight
  <1>7. ~disturbed'[b] => Accounts(Load(b), b)
    BY <1>5 DEF CalmBranches, CalmBranch
  <1>8. StatesAreSound'
    BY <1>2, <1>3 DEF StatesAreSound, ArtifactsNeedTaint
  <1>9. TaintWasEntered'
    <2>1. \A c \in Branch : entered[c] => entered'[c]
      BY DEF Evaluate
    <2>2. PrimarySources(p) # {} => entered'[b]
      BY DEF Evaluate
    <2>3. \A c \in Branch : Load(c)'.hard_markers # {} => entered'[c]
      BY <1>3, <2>1 DEF TaintWasEntered
    <2>4. \A g \in Hook : hook'[g].base.hard_markers # {} => entered'[hook'[g].branch]
      BY <1>2, <2>1, <2>3, <1>3 DEF TaintWasEntered
    <2>5. \A g \in Hook : /\ hook'[g].pc # "idle"
                          /\ PrimarySources(hook'[g].proposal) # {}
                          => entered'[hook'[g].branch]
      BY <1>2, <2>1, <2>2 DEF TaintWasEntered
    <2>6. QED
      BY <2>3, <2>4, <2>5 DEF TaintWasEntered
  <1>10. CalmBranches'
    <2> SUFFICES ASSUME NEW c \in Branch, ~disturbed'[c] PROVE CalmBranch(c)'
      BY DEF CalmBranches
    <2>1. CASE c = b
      BY <1>1, <1>2, <1>3, <1>5, <1>6, <1>7, <2>1 DEF CalmBranch, Accounts
    <2>2. CASE c # b
      <3>1. CalmBranch(c) /\ Working(c)' = Working(c) /\ h \notin Working(c)
        BY <1>1, <1>5, <1>6, <2>2 DEF CalmBranches, Working
      <3>2. \A g \in Working(c) : hook'[g] = hook[g]
        BY <1>2, <3>1 DEF Working
      <3>3. QED
        BY <1>1, <1>3, <3>1, <3>2 DEF CalmBranch, Accounts
    <2>3. QED
      BY <2>1, <2>2
  <1>11. CalmAnswers'
    <2>1. ASSUME hook'[h].calm PROVE TemporalVote(Load(b), p) = Owed(b, p)
      BY <1>2, <1>3, <1>4, <1>7, <2>1, AccountsVote DEF StatesAreSound
    <2>2. QED
      BY <1>2, <2>1 DEF CalmAnswers, Answer, Loaded
  <1>12. QED
    BY <1>8, <1>9, <1>10, <1>11

LEMMA InvSaveOpen ==
    ASSUME IInv, TypeOK', NEW h \in Hook, NEW b, b = hook[h].branch, SaveOpen(h)
    PROVE  IInv'
  <1> USE DEF IInv, TypeOK
  <1>1. /\ hook[h].pc = "loaded" /\ hook'[h].pc = "opened"
        /\ b \in Branch /\ h \in Working(b)
        /\ \A g \in Hook \ {h} : hook'[g] = hook[g]
        /\ hook'[h] = [hook[h] EXCEPT !.pc = "opened"]
    BY DEF SaveOpen, Goto, Working, InFlight
  <1>2. /\ disk'[b] = Unreadable
        /\ \A c \in Branch \ {b} : disk'[c] = disk[c]
        /\ UNCHANGED <<exposed, reads, entered, disturbed>>
    BY <1>1 DEF SaveOpen, history
  <1>3. \A g \in Hook : /\ hook'[g].base = hook[g].base /\ hook'[g].branch = hook[g].branch
                        /\ hook'[g].proposal = hook[g].proposal
                        /\ hook'[g].owed = hook[g].owed /\ hook'[g].calm = hook[g].calm
                        /\ hook'[g].pc # "idle" => hook[g].pc # "idle"
    BY <1>1
  <1>4. \A c \in Branch : Working(c)' = Working(c)
    BY <1>1, <1>3 DEF Working, InFlight
  <1>5. Load(b)' = EmptyFlow /\ \A c \in Branch \ {b} : Load(c)' = Load(c)
    BY <1>2 DEF Load, FlowFile
  <1>6. StatesAreSound' /\ TaintWasEntered' /\ CalmAnswers'
    BY <1>2, <1>3, <1>5, Bystanders
  <1>8. CalmBranches'
    <2> SUFFICES ASSUME NEW c \in Branch, ~disturbed[c] PROVE CalmBranch(c)'
      BY <1>2 DEF CalmBranches
    <2>0. CalmBranch(c)
      BY DEF CalmBranches
    <2>1. CASE c = b
      <3>1. \A g \in Working(b) : g = h
        BY <1>1, <2>0, <2>1 DEF CalmBranch
      <3>2. QED
        BY <1>1, <1>2, <1>3, <1>4, <2>0, <2>1, <3>1 DEF CalmBranch, Accounts
    <2>2. CASE c # b
      <3>1. \A g \in Working(c) : hook'[g] = hook[g]
        BY <1>1, <2>2 DEF Working
      <3>2. QED
        BY <1>2, <1>4, <1>5, <2>0, <2>2, <3>1 DEF CalmBranch, Accounts
    <2>3. QED
      BY <2>1, <2>2
  <1>10. QED
    BY <1>6, <1>8

LEMMA InvSaveWrite ==
    ASSUME IInv, TypeOK', NEW h \in Hook, NEW b, b = hook[h].branch, SaveWrite(h)
    PROVE  IInv'
  <1> USE DEF IInv, TypeOK
  <1> DEFINE p == hook[h].proposal
             new == PostState(hook[h].base, p)
  <1>1. /\ hook[h].pc \in {"opened", "unlinked"} /\ b \in Branch /\ h \in Working(b)
        /\ hook'[h].pc = "written"
        /\ \A g \in Hook \ {h} : hook'[g] = hook[g]
        /\ hook'[h] = [hook[h] EXCEPT !.pc = "written"]
        /\ UNCHANGED <<entered, disturbed>>
    BY DEF SaveWrite, Goto, Working, InFlight
  <1>2. p \in CommandProposal /\ hook[h].base \in ActorFlowState /\ ArtifactsNeedTaint(hook[h].base)
    BY LedgerAssumption DEF StatesAreSound
  <1>3. new \in ActorFlowState /\ ArtifactsNeedTaint(new)
        /\ (new.hard_markers # {} <=> hook[h].base.hard_markers # {} \/ PrimarySources(p) # {})
        /\ new.soft_read_count = hook[h].base.soft_read_count + (IF DidRead(p) THEN 1 ELSE 0)
    <2>1. new.soft_read_count = hook[h].base.soft_read_count + (IF DidRead(p) THEN 1 ELSE 0)
      BY DEF PostState, HeldHard
    <2>2. QED
      BY <1>2, <2>1, StepType, StepTaint
  <1> HIDE DEF new
  <1>4. /\ Load(b)' \in {Load(b), new, EmptyFlow}
        /\ \A c \in Branch \ {b} : disk'[c] = disk[c] /\ Load(c)' = Load(c)
    BY <1>1, <1>3, LedgerAssumption DEF SaveWrite, Saved, Loaded, Load, FlowFile, new
  <1>5. \A g \in Hook : /\ hook'[g].base = hook[g].base /\ hook'[g].branch = hook[g].branch
                        /\ hook'[g].proposal = hook[g].proposal
                        /\ hook'[g].owed = hook[g].owed /\ hook'[g].calm = hook[g].calm
    BY <1>1
  <1>6. /\ Working(b)' = Working(b) \ {h}
        /\ \A c \in Branch \ {b} : Working(c)' = Working(c)
    BY <1>1, <1>5 DEF Working, InFlight
  <1>7. StatesAreSound'
    <2>1. \A c \in Branch : ArtifactsNeedTaint(Load(c))'
      BY <1>3, <1>4, EmptyFlowType DEF StatesAreSound, ArtifactsNeedTaint
    <2>2. QED
      BY <1>5, <2>1 DEF StatesAreSound, ArtifactsNeedTaint
  <1>8. TaintWasEntered'
    <2>1. new.hard_markers # {} => entered[b]
      BY <1>1, <1>3 DEF TaintWasEntered
    <2>2. EmptyFlow.hard_markers = {}
      BY EmptyFlowType
    <2>3. \A c \in Branch : Load(c)'.hard_markers # {} => entered[c]
      BY <1>1, <1>4, <2>1, <2>2 DEF TaintWasEntered
    <2>4. \A g \in Hook : hook'[g].pc # "idle" => hook[g].pc # "idle"
      BY <1>1
    <2>5. QED
      BY <1>1, <1>5, <2>3, <2>4 DEF TaintWasEntered
  <1>9. CalmBranches'
    <2> SUFFICES ASSUME NEW c \in Branch, ~disturbed[c] PROVE CalmBranch(c)'
      BY <1>1 DEF CalmBranches
    <2>0. CalmBranch(c)
      BY DEF CalmBranches
    <2>1. CASE c = b
      <3>1. /\ Working(b)' = {} /\ hook[h].pc = "opened" /\ disk[b] = Unreadable
            /\ Accounts(hook[h].base, b)
        BY <1>1, <1>6, <2>0, <2>1 DEF CalmBranch
      <3>2. /\ Load(b)' = new
            /\ exposed'[b] = exposed[b] \cup PrimarySources(p)
            /\ reads'[b] = reads[b] + (IF DidRead(p) THEN 1 ELSE 0)
        BY <1>1, <1>3, <3>1, LedgerAssumption DEF SaveWrite, Saved, Loaded, Load, FlowFile, new
      <3>3. Accounts(Load(b), b)'
        BY <1>3, <3>1, <3>2 DEF Accounts
      <3>4. QED
        BY <2>1, <3>1, <3>3 DEF CalmBranch
    <2>2. CASE c # b
      <3>1. \A g \in Working(c) : hook'[g] = hook[g]
        BY <1>1, <2>2 DEF Working
      <3>2. exposed'[c] = exposed[c] /\ reads'[c] = reads[c]
        BY <1>1, <2>2 DEF SaveWrite
      <3>3. QED
        BY <1>4, <1>6, <2>0, <2>2, <3>1, <3>2 DEF CalmBranch, Accounts
    <2>3. QED
      BY <2>1, <2>2
  <1>10. CalmAnswers'
    BY <1>5 DEF CalmAnswers, Answer, Loaded
  <1>11. QED
    BY <1>7, <1>8, <1>9, <1>10

\* An evaluation leaves after its write, or disturbs its branch.
LEMMA InvLeave ==
    ASSUME IInv, TypeOK', NEW h \in Hook, NEW b, b = hook[h].branch,
           AppendLedger(h) \/ Crash(h) \/ IOFailure(h)
    PROVE  IInv'
  <1> USE DEF IInv, TypeOK
  <1>1. /\ b \in Branch /\ UNCHANGED <<disk, exposed, reads, entered>>
        /\ hook[h].pc # "idle" /\ hook'[h].pc \notin InFlight
        /\ \A g \in Hook \ {h} : hook'[g] = hook[g]
        /\ \E pc \in PC : hook'[h] = [hook[h] EXCEPT !.pc = pc]
    BY DEF AppendLedger, Crash, IOFailure, Abort, Goto, PC, InFlight, history
  <1>2. /\ \A c \in Branch : ~disturbed'[c] => ~disturbed[c]
        /\ ~disturbed'[b] => hook[h].pc = "written"
    BY <1>1 DEF AppendLedger, Crash, IOFailure, Abort, InFlight, history
  <1>3. \A g \in Hook : /\ hook'[g].base = hook[g].base /\ hook'[g].branch = hook[g].branch
                        /\ hook'[g].proposal = hook[g].proposal
                        /\ hook'[g].owed = hook[g].owed /\ hook'[g].calm = hook[g].calm
                        /\ hook'[g].pc # "idle" => hook[g].pc # "idle"
    BY <1>1
  <1>4. \A c \in Branch : Load(c)' = Load(c)
    BY <1>1 DEF Load, FlowFile
  <1>5. StatesAreSound' /\ TaintWasEntered' /\ CalmAnswers'
    BY <1>1, <1>3, <1>4, Bystanders
  <1>6. CalmBranches'
    <2> SUFFICES ASSUME NEW c \in Branch, ~disturbed'[c] PROVE CalmBranch(c)'
      BY DEF CalmBranches
    <2>1. CalmBranch(c) /\ h \notin Working(c)
      BY <1>2 DEF CalmBranches, Working, InFlight
    <2>2. Working(c)' = Working(c)
      BY <1>1, <1>3, <2>1 DEF Working
    <2>3. \A g \in Working(c) : hook'[g] = hook[g]
      BY <1>1, <2>1 DEF Working
    <2>4. QED
      BY <1>1, <1>4, <2>1, <2>2, <2>3 DEF CalmBranch, Accounts
  <1>7. QED
    BY <1>5, <1>6

LEMMA InvClear ==
    ASSUME IInv, TypeOK', NEW b \in Branch, Clear(b)
    PROVE  IInv'
  <1> USE DEF IInv, TypeOK
  <1>1. /\ disk'[b] = Unreadable /\ exposed'[b] = {} /\ reads'[b] = 0
        /\ UNCHANGED entered
        /\ ~disturbed'[b] => Working(b) = {}
    BY DEF Clear
  <1>2. \A c \in Branch \ {b} : /\ disk'[c] = disk[c] /\ exposed'[c] = exposed[c]
                                /\ reads'[c] = reads[c] /\ disturbed'[c] = disturbed[c]
    BY DEF Clear
  <1>3. \A g \in Hook : /\ hook'[g].base = hook[g].base /\ hook'[g].branch = hook[g].branch
                        /\ hook'[g].proposal = hook[g].proposal
                        /\ hook'[g].owed = hook[g].owed /\ hook'[g].calm = hook[g].calm
                        /\ hook'[g].pc \in InFlight <=> hook[g].pc \in InFlight
                        /\ hook'[g].pc # "idle" => hook[g].pc # "idle"
                        /\ hook[g].branch # b => hook'[g] = hook[g]
    BY DEF Clear, InFlight
  <1>4. \A c \in Branch : Working(c)' = Working(c)
    BY <1>3 DEF Working
  <1>5. Load(b)' = EmptyFlow /\ \A c \in Branch \ {b} : Load(c)' = Load(c)
    BY <1>1, <1>2 DEF Load, FlowFile
  <1>6. StatesAreSound' /\ TaintWasEntered' /\ CalmAnswers'
    BY <1>1, <1>3, <1>5, Bystanders
  <1>8. CalmBranches'
    <2> SUFFICES ASSUME NEW c \in Branch, ~disturbed'[c] PROVE CalmBranch(c)'
      BY DEF CalmBranches
    <2>1. CASE c = b
      <3>1. Working(c)' = {} /\ Load(c)' = EmptyFlow /\ exposed'[c] = {} /\ reads'[c] = 0
        BY <1>1, <1>4, <1>5, <2>1
      <3>2. QED
        BY <3>1, EmptyFlowType DEF CalmBranch, Accounts
    <2>2. CASE c # b
      <3>1. \A g \in Working(c) : hook'[g] = hook[g]
        BY <1>3, <2>2 DEF Working
      <3>2. QED
        BY <1>2, <1>4, <1>5, <2>2, <3>1 DEF CalmBranches, CalmBranch, Accounts
    <2>3. QED
      BY <2>1, <2>2
  <1>10. QED
    BY <1>6, <1>8

LEMMA InvStep == IInv /\ [Next]_vars => IInv'
  <1> SUFFICES ASSUME IInv, [Next]_vars PROVE IInv'
    OBVIOUS
  <1>1. TypeOK'
    BY TypeStep DEF IInv
  <1>2. CASE UNCHANGED vars
    <2>1. UNCHANGED <<disk, hook, exposed, reads, entered, disturbed>>
      BY <1>2 DEF vars
    <2>2. \A b \in Branch : Load(b)' = Load(b) /\ Working(b)' = Working(b)
      BY <2>1 DEF Load, FlowFile, Working
    <2>3. StatesAreSound' /\ TaintWasEntered' /\ CalmAnswers'
      BY <2>1, <2>2, Bystanders DEF IInv
    <2>4. CalmBranches'
      BY <2>1, <2>2 DEF IInv, CalmBranches, CalmBranch, Accounts
    <2>5. QED
      BY <1>1, <2>3, <2>4 DEF IInv
  <1>3. QED
    BY <1>1, <1>2, InvEvaluate, InvSaveOpen, InvSaveWrite, InvLeave, InvClear DEF Next, Step

LEMMA InvAlways == Spec => []IInv
  BY InvInit, InvStep, PTL DEF Spec

\* Every vote cast on an undisturbed branch is the vote its history calls for,
\* however many processes and branches there are and whatever the others do.
THEOREM CalmVotes == Spec => []CalmVoteIsOwed
  <1>1. IInv => CalmVoteIsOwed
    BY DEF IInv, CalmAnswers, CalmVoteIsOwed
  <1>2. QED
    BY <1>1, InvAlways, PTL

\* No interleaving, crash or drain makes the judge kill an exit of a branch that
\* never asked for a sensitive source.
THEOREM NoFalseKills == Spec => []NoFalseKill
  <1>1. IInv => NoFalseKill
    <2> SUFFICES ASSUME IInv, NEW h \in Hook, hook[h].pc = "answered", Answer(h) = "KILL"
                 PROVE  entered[hook[h].branch]
      BY DEF NoFalseKill
    <2>1. /\ hook[h].base \in ActorFlowState /\ hook[h].proposal \in CommandProposal
          /\ ArtifactsNeedTaint(hook[h].base)
      BY LedgerAssumption DEF IInv, TypeOK, StatesAreSound
    <2>2. hook[h].base.hard_markers # {} \/ PrimarySources(hook[h].proposal) # {}
      BY <2>1, StepTaint DEF Answer, Loaded, TemporalVote, HeldHard
    <2>3. QED
      BY <2>2 DEF IInv, TaintWasEntered
  <1>2. QED
    BY <1>1, InvAlways, PTL

-----------------------------------------------------------------------------
(* One call at a time: the files implement the atomic memory *)

\* A host is one of the environments the ledger is specified for.
LEMMA HostIsLedger == HostSpec => Spec
  <1>1. HostInit => Init
    BY DEF HostInit
  <1>2. [HostNext]_hostVars => [Next]_vars
    BY DEF HostNext, SerialNext, Next, hostVars, Busy
  <1>3. QED
    BY <1>1, <1>2, PTL DEF HostSpec, Spec

\* The memory's step is the ledger's.
LEMMA SameStep ==
    ASSUME NEW s, NEW p
    PROVE  /\ Memory!EmptyFlow = EmptyFlow
           /\ Memory!TemporalVote(s, p) = TemporalVote(s, p)
           /\ Memory!PostState(s, p) = PostState(s, p)
  <1>1. Memory!InferredEffects(p) = InferredEffects(p)
    BY DEF Memory!InferredEffects, InferredEffects, Memory!Hits, Hits
  <1>2. Memory!PathsOutside(p) = PathsOutside(p) /\ Memory!ProtectedTargets(p) = ProtectedTargets(p)
    BY DEF Memory!PathsOutside, PathsOutside, Memory!ProtectedTargets, ProtectedTargets
  <1>3. Memory!Mutates(p) = Mutates(p) /\ Memory!DidRead(p) = DidRead(p)
    BY <1>1 DEF Memory!Mutates, Mutates, Memory!DidRead, DidRead
  <1>4. Memory!PrimarySources(p) = PrimarySources(p)
    BY <1>1, <1>2 DEF Memory!PrimarySources, PrimarySources
  <1>5. Memory!HeldHard(s, p) = HeldHard(s, p)
    BY <1>4 DEF Memory!HeldHard, HeldHard, Memory!HardSources, HardSources
  <1>6. Memory!IsExit(p) = IsExit(p)
    BY <1>1, <1>2, <1>3 DEF Memory!IsExit, IsExit, Memory!IsEgress, IsEgress,
       Memory!IsOpaqueExec, IsOpaqueExec, Memory!Hits, Hits
  <1>7. \A m : Memory!Kinds(m) = Kinds(m)
    BY DEF Memory!Kinds, Kinds
  <1>8. Memory!TemporalVote(s, p) = TemporalVote(s, p)
    BY <1>5, <1>6 DEF Memory!TemporalVote, TemporalVote
  <1>9. Memory!PostState(s, p) = PostState(s, p)
    BY <1>3, <1>5, <1>7 DEF Memory!PostState, PostState
  <1>10. Memory!EmptyFlow = EmptyFlow
    BY DEF Memory!EmptyFlow, EmptyFlow
  <1>11. QED
    BY <1>8, <1>9, <1>10

\* A vote is neither of the memory's other two answers.
LEMMA AnswerIsVote ==
    ASSUME NEW h \in Hook
    PROVE  Answer(h) \in {"PASS", "HOLD", "KILL"}
  BY DEF Answer, TemporalVote

LEMMA SerialInvInit == HostInit => SerialInv
  BY DEF HostInit, Init, SerialInv, Busy, InFlight

LEMMA SerialInvStep == TypeOK /\ SerialInv /\ [HostNext]_hostVars => SerialInv'
  <1> SUFFICES ASSUME TypeOK, SerialInv, [HostNext]_hostVars, serial' PROVE SerialInv'
    BY DEF SerialInv
  <1>0. serial
    BY DEF HostNext, hostVars
  <1> DEFINE Quiet(h) == /\ hook[h].pc # "unlinked"
                         /\ hook[h].pc = "loaded" => hook[h].base = Load(hook[h].branch)
                         /\ hook[h].pc = "opened" => disk[hook[h].branch] = Unreadable
  <1>1. (\A g, h \in Busy : g = h) /\ \A h \in Hook : Quiet(h)
    BY <1>0 DEF SerialInv
  <1>2. CASE UNCHANGED hostVars
    BY <1>1, <1>2 DEF SerialInv, hostVars, vars, Busy, Load, FlowFile
  <1>3. ASSUME NEW h \in Hook, Busy \subseteq {h}, Step(h) PROVE SerialInv'
    <2>1. \A g \in Hook \ {h} : hook'[g] = hook[g] /\ hook[g].pc \notin InFlight \cup {"written"}
      BY <1>3 DEF Step, Evaluate, SaveOpen, SaveWrite, AppendLedger, Goto, TypeOK, Busy
    <2>2. Busy' \subseteq {h}
      BY <2>1 DEF Busy
    <2>3. \A g \in Hook \ {h} : Quiet(g)'
      BY <2>1 DEF InFlight
    <2>4. Quiet(h)'
      <3>1. ASSUME NEW b \in Branch, NEW p \in Proposal, Evaluate(h, b, p) PROVE Quiet(h)'
        <4>1. /\ hook'[h].pc = "loaded" /\ hook'[h].branch = b /\ hook'[h].base = Load(b)
              /\ disk' = disk
          BY <3>1 DEF Evaluate, TypeOK
        <4>2. QED
          BY <4>1 DEF Load, FlowFile
      <3>2. CASE SaveOpen(h)
        <4>1. /\ hook'[h].pc = "opened" /\ hook'[h].branch = hook[h].branch
              /\ disk'[hook[h].branch] = Unreadable
          BY <3>2 DEF SaveOpen, Goto, TypeOK
        <4>2. QED
          BY <4>1
      <3>3. CASE SaveWrite(h) \/ AppendLedger(h)
        <4>1. hook'[h].pc \in {"written", "answered"}
          BY <3>3 DEF SaveWrite, AppendLedger, Goto, TypeOK
        <4>2. QED
          BY <4>1
      <3>4. QED
        BY <1>3, <3>1, <3>2, <3>3 DEF Step
    <2>5. \A g \in Hook : Quiet(g)'
      BY <2>3, <2>4
    <2>6. QED
      BY <2>2, <2>5 DEF SerialInv
  <1>4. ASSUME NEW b \in Branch, Busy = {}, Clear(b) PROVE SerialInv'
    <2>1. \A h \in Hook : hook[h].pc \notin InFlight \cup {"written"}
      BY <1>4 DEF Busy
    <2>2. \A h \in Hook : hook'[h] = hook[h]
      BY <1>4, <2>1 DEF Clear, InFlight
    <2>3. QED
      BY <2>1, <2>2 DEF SerialInv, Busy, InFlight
  <1>5. QED
    BY <1>0, <1>2, <1>3, <1>4 DEF HostNext, SerialNext

\* What the atomic memory is, in terms of the files.
mem   == [b \in Branch |-> Committed(b)]
asks  == [h \in Hook |-> <<hook[h].branch, hook[h].proposal>>]
votes == [h \in Hook |-> Verdict(h)]

LEMMA MemoryStarts == Init => Memory!MemoryInit
  <1> SUFFICES ASSUME Init PROVE Memory!MemoryInit
    OBVIOUS
  <1>1. \A h \in Hook : hook[h].pc = "idle"
    BY DEF Init
  <1>2. \A b \in Branch : Committed(b) = EmptyFlow
    BY <1>1 DEF Committed, Load, FlowFile, Init
  <1>3. \A h \in Hook : Verdict(h) = "NONE"
    BY <1>1 DEF Verdict, InFlight
  <1>4. \A h \in Hook : hook[h].branch \in Branch /\ hook[h].proposal \in Proposal
    BY TypeInit DEF TypeOK
  <1>5. QED
    BY <1>2, <1>3, <1>4, SameStep DEF Memory!MemoryInit

\* Without an open file a branch's memory is its file; with one, what was loaded.
LEMMA MemoryOfFiles ==
    ASSUME TypeOK, SerialInv, serial, NEW b \in Branch
    PROVE  /\ (\A g \in Hook : hook[g].pc # "opened") => Committed(b) = Load(b)
           /\ \A h \in Hook : hook[h].pc = "opened"
                  => Committed(b) = IF hook[h].branch = b THEN hook[h].base ELSE Load(b)
  <1> DEFINE opened == {h \in Hook : hook[h].pc = "opened" /\ hook[h].branch = b}
  <1>1. (\A g \in Hook : hook[g].pc # "opened") => Committed(b) = Load(b)
    BY DEF Committed
  <1>2. ASSUME NEW h \in Hook, hook[h].pc = "opened"
        PROVE  Committed(b) = IF hook[h].branch = b THEN hook[h].base ELSE Load(b)
    <2>1. \A g \in Hook : hook[g].pc = "opened" => g = h
      BY <1>2 DEF SerialInv, Busy, InFlight
    <2>2. CASE hook[h].branch = b
      <3>1. opened = {h}
        BY <1>2, <2>1, <2>2
      <3>2. QED
        BY <2>2, <3>1 DEF Committed
    <2>3. CASE hook[h].branch # b
      <3>1. opened = {}
        BY <2>1, <2>3
      <3>2. QED
        BY <2>3, <3>1 DEF Committed
    <2>4. QED
      BY <2>2, <2>3
  <1>3. QED
    BY <1>1, <1>2

LEMMA MemoryStep ==
    ASSUME TypeOK, TypeOK', SerialInv, SerialInv', serial, serial', SerialNext
    PROVE  [Memory!MemoryNext]_<<mem, asks, votes>>
  <1>1. ASSUME NEW h \in Hook, NEW b \in Branch, NEW p \in Proposal, Busy \subseteq {h},
               Evaluate(h, b, p)
        PROVE  Memory!MemoryNext
    <2>1. /\ \A g \in Hook : hook[g].pc # "opened" /\ hook'[g].pc # "opened"
          /\ \A g \in Hook \ {h} : hook'[g] = hook[g]
          /\ hook'[h].pc = "loaded" /\ hook'[h].branch = b /\ hook'[h].proposal = p
          /\ hook[h].pc \in {"idle", "answered", "unjudged"}
          /\ disk' = disk
      BY <1>1 DEF Evaluate, TypeOK, Busy, InFlight
    <2>2. \A c \in Branch : Committed(c) = Load(c) /\ Committed(c)' = Load(c)
      BY <2>1 DEF Committed, Load, FlowFile
    <2>3. UNCHANGED mem
      BY <2>2 DEF mem
    <2>4. asks' = [asks EXCEPT ![h] = <<b, p>>]
      BY <2>1 DEF asks
    <2>5. votes[h] # "PENDING"
      BY <2>1, AnswerIsVote DEF votes, Verdict, InFlight
    <2>6. \A g \in Hook : Verdict(g)' = IF g = h THEN "PENDING" ELSE Verdict(g)
      BY <2>1 DEF Verdict, Answer, Loaded, InFlight
    <2>7. votes' = [votes EXCEPT ![h] = "PENDING"]
      BY <2>6 DEF votes
    <2>8. Memory!Ask(h, b, p)
      BY <2>3, <2>4, <2>5, <2>7 DEF Memory!Ask, mem, asks, votes
    <2>9. QED
      BY <2>8 DEF Memory!MemoryNext
  <1>2. ASSUME NEW h \in Hook, SaveOpen(h) PROVE UNCHANGED <<mem, asks, votes>>
    <2> DEFINE c == hook[h].branch
    <2>1. /\ hook[h].pc = "loaded" /\ hook'[h].pc = "opened" /\ c \in Branch
          /\ hook'[h].branch = c /\ hook'[h].proposal = hook[h].proposal
          /\ hook'[h].base = hook[h].base
          /\ \A g \in Hook \ {h} : hook'[g] = hook[g]
          /\ disk' = [disk EXCEPT ![c] = Unreadable]
      BY <1>2 DEF SaveOpen, Goto, TypeOK
    <2>2. \A g \in Hook : hook[g].pc # "opened"
      BY <2>1 DEF SerialInv, Busy, InFlight
    <2>3. hook[h].base = Load(c)
      BY <2>1 DEF SerialInv
    <2>4. ASSUME NEW b \in Branch PROVE Committed(b)' = Committed(b)
      <3>1. Committed(b) = Load(b)
        BY <2>2, MemoryOfFiles
      <3> DEFINE now == {g \in Hook : hook'[g].pc = "opened" /\ hook'[g].branch = b}
      <3>2. CASE b = c
        <4>1. now = {h}
          BY <2>1, <2>2, <3>2
        <4>2. Committed(b)' = hook'[h].base
          BY <4>1 DEF Committed
        <4>3. QED
          BY <2>1, <2>3, <3>1, <3>2, <4>2
      <3>3. CASE b # c
        <4>1. now = {}
          BY <2>1, <2>2, <3>3
        <4>2. Committed(b)' = Load(b)'
          BY <4>1 DEF Committed
        <4>3. disk'[b] = disk[b]
          BY <2>1, <3>3 DEF TypeOK
        <4>4. QED
          BY <3>1, <4>2, <4>3 DEF Load, FlowFile
      <3>4. QED
        BY <3>2, <3>3
    <2>5. UNCHANGED mem
      BY <2>4 DEF mem
    <2>6. UNCHANGED asks
      BY <2>1 DEF asks
    <2>7. \A g \in Hook : Verdict(g)' = Verdict(g)
      BY <2>1 DEF Verdict, Answer, Loaded, InFlight
    <2>8. QED
      BY <2>5, <2>6, <2>7 DEF votes
  <1>3. ASSUME NEW h \in Hook, SaveWrite(h) PROVE Memory!MemoryNext
    <2> DEFINE c == hook[h].branch
               p == hook[h].proposal
    <2>1. /\ hook[h].pc = "opened" /\ c \in Branch /\ p \in Proposal
          /\ disk[c] = Unreadable
      BY <1>3 DEF SaveWrite, SerialInv, TypeOK
    <2>2. /\ hook'[h].pc = "written" /\ hook'[h].branch = c /\ hook'[h].proposal = p
          /\ hook'[h].base = hook[h].base
          /\ \A g \in Hook \ {h} : hook'[g] = hook[g]
      BY <1>3 DEF SaveWrite, Goto, TypeOK
    <2>3. disk' = [disk EXCEPT ![c] = Saved(h)]
      BY <1>3, <2>1 DEF SaveWrite
    <2>4. \A g \in Hook \ {h} : hook[g].pc # "opened"
      BY <2>1 DEF SerialInv, Busy, InFlight
    <2>5. Saved(h) = PostState(hook[h].base, p) /\ Saved(h) # Unreadable
      <3>1. PostState(hook[h].base, p) \in ActorFlowState
        BY <2>1, StepType, LedgerAssumption DEF TypeOK
      <3>2. QED
        BY <3>1, LedgerAssumption DEF Saved, Loaded
    <2>6. mem[c] = hook[h].base
      BY <2>1, MemoryOfFiles DEF mem
    <2>7. ASSUME NEW b \in Branch
          PROVE  Committed(b)' = IF b = c THEN PostState(mem[c], p) ELSE mem[b]
      <3>1. {g \in Hook : hook'[g].pc = "opened" /\ hook'[g].branch = b} = {}
        BY <2>2, <2>4
      <3>2. Committed(b)' = Load(b)'
        BY <3>1 DEF Committed
      <3>3. CASE b = c
        <4>1. disk'[b] = Saved(h)
          BY <2>1, <2>3, <3>3 DEF TypeOK
        <4>2. QED
          BY <2>5, <2>6, <3>2, <3>3, <4>1 DEF Load, FlowFile
      <3>4. CASE b # c
        <4>1. disk'[b] = disk[b]
          BY <2>3, <3>4 DEF TypeOK
        <4>2. mem[b] = Load(b)
          BY <2>1, <3>4, MemoryOfFiles DEF mem
        <4>3. QED
          BY <3>2, <3>4, <4>1, <4>2 DEF Load, FlowFile
      <3>5. QED
        BY <3>3, <3>4
    <2>8. mem' = [mem EXCEPT ![c] = PostState(mem[c], p)]
      BY <2>1, <2>7 DEF mem
    <2>9. UNCHANGED asks
      BY <2>2 DEF asks
    <2>10. votes[h] = "PENDING"
      BY <2>1 DEF votes, Verdict, InFlight
    <2>11. \A g \in Hook : Verdict(g)' = IF g = h THEN TemporalVote(mem[c], p) ELSE Verdict(g)
      BY <2>2, <2>6 DEF Verdict, Answer, Loaded, InFlight
    <2>12. votes' = [votes EXCEPT ![h] = TemporalVote(mem[c], p)]
      BY <2>11 DEF votes
    <2>13. asks[h][1] = c /\ asks[h][2] = p
      BY DEF asks
    <2>14. Memory!Judge(h)
      <3>1. /\ votes[h] = "PENDING"
            /\ votes' = [votes EXCEPT ![h] =
                             Memory!TemporalVote(mem[asks[h][1]], asks[h][2])]
            /\ mem' = [mem EXCEPT ![asks[h][1]] =
                           Memory!PostState(mem[asks[h][1]], asks[h][2])]
            /\ asks' = asks
        BY <2>8, <2>9, <2>10, <2>12, <2>13, SameStep
      <3>2. QED
        BY <3>1, Zenon DEF Memory!Judge, mem, asks, votes
    <2>15. QED
      BY <2>14 DEF Memory!MemoryNext
  <1>4. ASSUME NEW h \in Hook, AppendLedger(h) PROVE UNCHANGED <<mem, asks, votes>>
    <2>1. /\ hook[h].pc = "written" /\ hook'[h].pc = "answered"
          /\ hook'[h].branch = hook[h].branch /\ hook'[h].proposal = hook[h].proposal
          /\ hook'[h].base = hook[h].base
          /\ \A g \in Hook \ {h} : hook'[g] = hook[g]
          /\ disk' = disk
      BY <1>4 DEF AppendLedger, Goto, TypeOK
    <2>2. \A g \in Hook : hook[g].pc # "opened" /\ hook'[g].pc # "opened"
      BY <2>1 DEF SerialInv, Busy, InFlight
    <2>3. \A b \in Branch : Committed(b)' = Committed(b)
      BY <2>1, <2>2 DEF Committed, Load, FlowFile
    <2>4. \A g \in Hook : Verdict(g)' = Verdict(g)
      BY <2>1 DEF Verdict, Answer, Loaded, InFlight
    <2>5. QED
      BY <2>1, <2>3, <2>4 DEF mem, asks, votes
  <1>5. ASSUME NEW b \in Branch, Busy = {}, Clear(b) PROVE Memory!MemoryNext
    <2>1. \A h \in Hook : hook[h].pc \notin InFlight \cup {"written"}
      BY <1>5 DEF Busy
    <2>2. hook' = hook
      BY <1>5, <2>1 DEF Clear, InFlight, TypeOK
    <2>3. disk' = [disk EXCEPT ![b] = Unreadable]
      BY <1>5 DEF Clear
    <2>4. \A h \in Hook : hook[h].pc # "opened" /\ hook'[h].pc # "opened"
      BY <2>1, <2>2 DEF InFlight
    <2>5. \A c \in Branch : Committed(c) = Load(c) /\ Committed(c)' = Load(c)'
      BY <2>4 DEF Committed
    <2>6. \A c \in Branch : Load(c)' = IF c = b THEN EmptyFlow ELSE Load(c)
      BY <2>3 DEF Load, FlowFile, TypeOK
    <2>7. mem' = [mem EXCEPT ![b] = EmptyFlow]
      BY <2>5, <2>6 DEF mem
    <2>8. UNCHANGED <<asks, votes>>
      BY <2>2 DEF asks, votes, Verdict, Answer, Loaded
    <2>9. Memory!Drain(b)
      BY <2>7, <2>8, SameStep DEF Memory!Drain, mem, asks, votes
    <2>10. QED
      BY <2>9 DEF Memory!MemoryNext
  <1>6. QED
    BY <1>1, <1>2, <1>3, <1>4, <1>5 DEF SerialNext, Step

\* On a host that runs one hook at a time, and on which nothing fails, the flow
\* files implement the atomic memory: no evaluation is lost between them, for
\* any number of hooks, branches and proposals.
THEOREM FilesAreMemory == HostSpec => SerialMemory
  <1>1. HostInit => (serial => Memory!MemoryInit)
    BY MemoryStarts DEF HostInit
  <1>2. ASSUME TypeOK, TypeOK', SerialInv, SerialInv', [HostNext]_hostVars
        PROVE  [serial => [Memory!MemoryNext]_(Memory!memoryVars)]_hostVars
    <2> SUFFICES ASSUME serial, HostNext
                 PROVE  [Memory!MemoryNext]_(Memory!memoryVars)
      BY <1>2
    <2>1. SerialNext /\ serial'
      BY DEF HostNext
    <2>2. [Memory!MemoryNext]_<<mem, asks, votes>>
      BY <1>2, <2>1, MemoryStep
    <2>3. QED
      BY <2>2 DEF Memory!memoryVars, mem, asks, votes
  <1>3. HostSpec => []TypeOK
    BY HostIsLedger, TypeCorrect, PTL
  <1>4. HostSpec => []SerialInv
    BY <1>3, SerialInvInit, SerialInvStep, PTL DEF HostSpec
  <1>5. QED
    BY <1>1, <1>2, <1>3, <1>4, PTL DEF HostSpec, SerialMemory

LEMMA CalmHostInit == HostInit => CalmHost
  BY DEF HostInit, Init, CalmHost

LEMMA CalmHostStep == TypeOK /\ CalmHost /\ [HostNext]_hostVars => CalmHost'
  <1> SUFFICES ASSUME TypeOK, CalmHost, [HostNext]_hostVars, serial' PROVE CalmHost'
    BY DEF CalmHost
  <1>0. serial
    BY DEF HostNext, hostVars
  <1>1. /\ \A b \in Branch : ~disturbed[b]
        /\ \A h \in Hook : hook[h].pc # "idle" => hook[h].calm
    BY <1>0 DEF CalmHost
  <1>2. CASE UNCHANGED hostVars
    BY <1>1, <1>2 DEF CalmHost, hostVars, vars, history
  <1>3. ASSUME NEW h \in Hook, Busy \subseteq {h}, NEW b \in Branch, NEW p \in Proposal,
               Evaluate(h, b, p)
        PROVE  CalmHost'
    <2>1. Working(b) = {}
      BY <1>3 DEF Working, Busy, Evaluate, InFlight
    <2>2. disturbed' = [disturbed EXCEPT ![b] = FALSE]
      BY <1>1, <1>3, <2>1 DEF Evaluate, TypeOK
    <2>3. \A c \in Branch : ~disturbed'[c]
      BY <1>1, <2>2 DEF TypeOK
    <2>4. hook'[h].calm /\ \A g \in Hook \ {h} : hook'[g] = hook[g]
      BY <1>3, <2>3 DEF Evaluate, TypeOK
    <2>5. QED
      BY <1>1, <2>3, <2>4 DEF CalmHost
  <1>4. ASSUME NEW h \in Hook, SaveOpen(h) \/ SaveWrite(h) \/ AppendLedger(h) PROVE CalmHost'
    <2>1. disturbed' = disturbed /\ hook[h].pc # "idle"
      BY <1>4 DEF SaveOpen, SaveWrite, AppendLedger, history
    <2>2. \A g \in Hook : /\ hook'[g].calm = hook[g].calm
                          /\ g # h => hook'[g] = hook[g]
      BY <1>4 DEF SaveOpen, SaveWrite, AppendLedger, Goto, TypeOK
    <2>3. QED
      BY <1>1, <2>1, <2>2 DEF CalmHost
  <1>5. ASSUME NEW b \in Branch, Busy = {}, Clear(b) PROVE CalmHost'
    <2>1. Working(b) = {}
      BY <1>5 DEF Working, Busy, InFlight
    <2>2. disturbed' = [disturbed EXCEPT ![b] = FALSE]
      BY <1>5, <2>1 DEF Clear
    <2>3. \A h \in Hook : hook'[h] = hook[h]
      BY <1>5 DEF Clear, Busy, InFlight
    <2>4. QED
      BY <1>1, <2>2, <2>3 DEF CalmHost, TypeOK
  <1>6. QED
    BY <1>0, <1>2, <1>3, <1>4, <1>5 DEF HostNext, SerialNext, Step

\* On a host that runs one hook at a time, and on which nothing fails, the judge
\* remembers: what overlapping hooks lose is all that it forgets.
THEOREM SerialHostRemembers == HostSpec => []SerialRemembers
  <1>1. CalmHost /\ CalmVoteIsOwed => SerialRemembers
    BY DEF CalmHost, CalmVoteIsOwed, SerialRemembers, RememberedExit
  <1>2. HostSpec => []TypeOK /\ []CalmVoteIsOwed
    BY HostIsLedger, TypeCorrect, CalmVotes, PTL
  <1>3. HostSpec => []CalmHost
    BY <1>2, CalmHostInit, CalmHostStep, PTL DEF HostSpec
  <1>4. QED
    BY <1>1, <1>2, <1>3, PTL

-----------------------------------------------------------------------------
(* What is remembered only hardens *)

\* State s has accumulated no more than t.
Milder(s, t) ==
    /\ s.hard_markers \subseteq t.hard_markers
    /\ s.soft_read_count <= t.soft_read_count
    /\ \A u \in Path : s.tainted_artifacts[u] \subseteq t.tainted_artifacts[u]

Severity == [PASS |-> 0, HOLD |-> 1, KILL |-> 2]

\* A step forgets nothing, what has accumulated more stays ahead of what has
\* accumulated less, and gets no milder vote: a file that is lost, torn or
\* overwritten by an earlier state can only make the judge forget, and no
\* exposure can talk it out of a vote.
THEOREM ExposureOnlyHardens ==
    ASSUME NEW s \in ActorFlowState, NEW t \in ActorFlowState, NEW p \in CommandProposal,
           Milder(s, t)
    PROVE  /\ Milder(EmptyFlow, s)
           /\ Milder(s, PostState(s, p))
           /\ Milder(PostState(s, p), PostState(t, p))
           /\ Severity[TemporalVote(s, p)] <= Severity[TemporalVote(t, p)]
  <1>1. /\ s.soft_read_count \in Nat /\ t.soft_read_count \in Nat
        /\ p.target_paths \subseteq Path
        /\ \A u \in Path : s.tainted_artifacts[u] \subseteq t.tainted_artifacts[u]
    BY DEF ActorFlowState, CommandProposal, Milder
  <1>2. HardSources(s, p) \subseteq HardSources(t, p)
    BY <1>1 DEF HardSources
  <1>3. HeldHard(s, p) \subseteq HeldHard(t, p)
    BY <1>2 DEF HeldHard, Milder
  <1>4. Kinds(HeldHard(s, p)) \subseteq Kinds(HeldHard(t, p))
    BY <1>3 DEF Kinds
  <1> DEFINE more      == IF DidRead(p) THEN 1 ELSE 0
             marks(x)  == IF Mutates(p) /\ HeldHard(x, p) # {} THEN p.target_paths ELSE {}
             added(x, u) == IF u \in marks(x) THEN Kinds(HeldHard(x, p)) ELSE {}
  <1>5. \A x : /\ PostState(x, p).hard_markers = HeldHard(x, p)
               /\ PostState(x, p).soft_read_count = x.soft_read_count + more
               /\ \A u \in Path : PostState(x, p).tainted_artifacts[u]
                                    = x.tainted_artifacts[u] \cup added(x, u)
    BY DEF PostState
  <1>6. \A u : added(s, u) \subseteq added(t, u)
    BY <1>3, <1>4
  <1>7. more \in Nat
    OBVIOUS
  <1> HIDE DEF more, added
  <1>8. Milder(EmptyFlow, s)
    BY <1>1 DEF Milder, EmptyFlow
  <1>9. Milder(s, PostState(s, p))
    <2>1. s.hard_markers \subseteq HeldHard(s, p)
      BY DEF HeldHard
    <2>2. QED
      BY <1>1, <1>5, <1>7, <2>1 DEF Milder
  <1>10. Milder(PostState(s, p), PostState(t, p))
    <2>1. s.soft_read_count + more <= t.soft_read_count + more
      BY <1>1, <1>7 DEF Milder
    <2>2. \A u \in Path : s.tainted_artifacts[u] \cup added(s, u)
                            \subseteq t.tainted_artifacts[u] \cup added(t, u)
      BY <1>1, <1>6
    <2>3. QED
      BY <1>3, <1>5, <2>1, <2>2 DEF Milder
  <1>11. Severity[TemporalVote(s, p)] <= Severity[TemporalVote(t, p)]
    <2>1. Severity["PASS"] = 0 /\ Severity["HOLD"] = 1 /\ Severity["KILL"] = 2
      BY DEF Severity
    <2>2. \A x : TemporalVote(x, p) \in {"PASS", "HOLD", "KILL"}
      BY DEF TemporalVote
    <2>3. TemporalVote(s, p) = "KILL" => TemporalVote(t, p) = "KILL"
      BY <1>3 DEF TemporalVote
    <2>4. TemporalVote(s, p) = "HOLD" => TemporalVote(t, p) \in {"HOLD", "KILL"}
      BY <1>1, ThresholdAssumption DEF TemporalVote, Milder
    <2>5. QED
      BY <2>1, <2>2, <2>3, <2>4
  <1>12. QED
    BY <1>8, <1>9, <1>10, <1>11
=============================================================================
