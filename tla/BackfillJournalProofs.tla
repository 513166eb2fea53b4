----------------------- MODULE BackfillJournalProofs -----------------------
(***************************************************************************)
(* What the journal of BackfillJournal holds: for any number of calls,     *)
(* sessions and files, and whatever fails, overlaps, is killed or rolled   *)
(* back, the beginning of a file is with the call that first changed it,   *)
(* unless that one's hook had no say; and what a rollback with nothing     *)
(* else going on takes back.                                               *)
(***************************************************************************)
EXTENDS BackfillJournal, TLAPS

JournalCall == [pc : {"journalling", "held", "allowed", "ran", "declined"}, req : Request,
                todo : SUBSET File, entries : [File -> Entry]]
RestoreCall == [pc : {"restoring", "restored", "denied"}, session : Session, todo : SUBSET Dir]
KilledCall == [pc : {"killed", "declined"}, may : SUBSET Request]
SlippedCall == [pc : {"slipped"}, req : Request]
NewCall == [pc : {"new"}]

CallRecord == JournalCall \cup RestoreCall \cup KilledCall \cup SlippedCall \cup NewCall

TypeOK ==
    /\ files \in [File -> Image] /\ start \in [File -> Image]
    /\ blobs \in [Dir -> [File -> Entry]]
    /\ manifests \in [Dir -> Manifest \cup {NoManifest}]
    /\ call \in [Call -> CallRecord]
    /\ first \in [File -> Call \cup {NoCall}]

\* What anyone may know of a file with the content x.
Knows(x) == {NotListed, NoPreimage, x}

\* A file that was never changed is as it began, and so is every pre-image of it.
Untouched ==
    \A f \in File : first[f] = NoCall =>
        /\ files[f] = start[f]
        /\ \A d \in Dir : manifests[d] # NoManifest => manifests[d].entries[f] \in Knows(start[f])
        /\ \A c \in Call : call[c].pc \in {"journalling", "allowed"}
                              => call[c].entries[f] \in Knows(start[f])

\* Call c may change f: its beginning is in the journal, or c may go without, or
\* there is nothing to delete.
Kept(c, f) ==
    \/ /\ call[c].entries[f] = start[f]
       /\ start[f] \in Content => blobs[Cid[c]][f] = start[f]
    \/ ~Destructive(call[c].req) /\ call[c].entries[f] \in {NotListed, NoPreimage}
    \/ Destructive(call[c].req) /\ start[f] = Absent

Journalled(c, f) ==
    \/ call[c].pc = "journalling" /\ f \notin call[c].todo
    \/ call[c].pc = "allowed"

JournalHolds ==
    \A c \in Call, f \in File :
        Journalled(c, f) /\ first[f] = NoCall /\ f \in call[c].req.targets => Kept(c, f)

\* The manifest of an allowed call is what the call has listed; without an allow
\* there is none.
ManifestHolds ==
    \A c \in Call :
        /\ call[c].pc \notin {"allowed", "ran", "declined"} => manifests[Cid[c]] = NoManifest
        /\ call[c].pc = "allowed" =>
              \/ /\ manifests[Cid[c]] = NoManifest
                 /\ \A f \in File : call[c].entries[f] = NotListed
              \/ /\ manifests[Cid[c]] # NoManifest
                 /\ manifests[Cid[c]].entries = call[c].entries

FirstRan == \A f \in File : first[f] # NoCall => call[first[f]].pc \in {"ran", "slipped"}

IInv == TypeOK /\ Untouched /\ JournalHolds /\ ManifestHolds /\ FirstRan /\ GroundIsJournalled

-----------------------------------------------------------------------------

LEMMA InitIInv == Init => IInv
  <1> SUFFICES ASSUME Init PROVE IInv
    OBVIOUS
  <1>1. /\ files \in [File -> Image] /\ start = files
        /\ \A c \in Call : call[c].pc = "new"
        /\ \A f \in File : first[f] = NoCall
        /\ \A c \in Call : Cid[c] \in Dir
        /\ \A d \in Dir : manifests[d] = NoManifest
    BY DEF Init, Dir
  <1>2. TypeOK
    BY <1>1 DEF Init, TypeOK, CallRecord, NewCall, Entry
  <1>3. Untouched /\ JournalHolds /\ ManifestHolds /\ FirstRan /\ GroundIsJournalled
    BY <1>1 DEF Untouched, JournalHolds, Journalled, ManifestHolds, FirstRan, GroundIsJournalled
  <1>4. QED
    BY <1>2, <1>3 DEF IInv

\* The steps that take a call out of the journal, or never touch it: the files
\* nobody has changed stay as they are, and only the manifest of c may go.
LEMMA QuietStep ==
    ASSUME IInv, CidsDistinct, NEW c \in Call, call[c].pc \notin {"ran", "slipped"},
           TypeOK', \A b \in Call : b # c => call'[b] = call[b],
           call'[c].pc \notin {"journalling", "allowed"},
           call'[c].pc # "declined" => manifests[Cid[c]] = NoManifest,
           blobs' = blobs, start' = start, first' = first,
           \A d \in Dir : \/ manifests'[d] = manifests[d]
                          \/ d = Cid[c] /\ manifests'[d] = NoManifest,
           \A f \in File : first[f] = NoCall => files'[f] = files[f]
    PROVE  IInv'
  <1>1. Untouched'
    BY DEF IInv, Untouched, Knows
  <1>2. JournalHolds'
    BY DEF IInv, JournalHolds, Journalled, Kept
  <1>3. \A b \in Call : Cid[b] \in Dir
    BY DEF Dir
  <1>4. \A b \in Call : b # c => manifests'[Cid[b]] = manifests[Cid[b]]
    BY <1>3 DEF CidsDistinct
  <1>5. ManifestHolds'
    BY <1>3, <1>4 DEF IInv, ManifestHolds
  <1>6. \A f \in File : first[f] # NoCall => first[f] \in Call /\ first[f] # c
    BY DEF IInv, TypeOK, FirstRan
  <1>7. FirstRan'
    BY <1>6 DEF IInv, FirstRan
  <1>8. GroundIsJournalled'
    BY <1>4, <1>6 DEF IInv, GroundIsJournalled
  <1>9. QED
    BY <1>1, <1>2, <1>5, <1>7, <1>8 DEF IInv

\* A call keeps its kind of record as it moves on.
LEMMA GotoFacts ==
    ASSUME TypeOK, NEW c \in Call, NEW p, Goto(c, p),
           \/ call[c] \in JournalCall /\ p \in {"held", "allowed", "ran", "declined"}
           \/ call[c] \in RestoreCall /\ p \in {"restored", "denied"}
           \/ call[c] \in KilledCall /\ p = "declined"
    PROVE  /\ call' \in [Call -> CallRecord]
           /\ call'[c].pc = p
           /\ \A b \in Call : b # c => call'[b] = call[b]
           /\ call[c] \in JournalCall =>
                /\ call'[c].req = call[c].req /\ call'[c].todo = call[c].todo
                /\ call'[c].entries = call[c].entries
           /\ call[c] \in RestoreCall =>
                call'[c].session = call[c].session /\ call'[c].todo = call[c].todo
  <1> DEFINE r == [call[c] EXCEPT !.pc = p]
  <1>1. call' = [call EXCEPT ![c] = r]
    BY DEF Goto
  <1>2. CASE call[c] \in JournalCall /\ p \in {"held", "allowed", "ran", "declined"}
    <2>1. /\ r \in JournalCall /\ r.req = call[c].req /\ r.todo = call[c].todo
          /\ r.entries = call[c].entries /\ r.pc = p
      BY <1>2 DEF JournalCall
    <2>2. call[c] \notin RestoreCall
      BY <1>2 DEF JournalCall, RestoreCall
    <2> HIDE DEF r
    <2>3. QED
      BY <1>1, <1>2, <2>1, <2>2 DEF TypeOK, CallRecord
  <1>3. CASE call[c] \in RestoreCall /\ p \in {"restored", "denied"}
    <2>1. /\ r \in RestoreCall /\ r.session = call[c].session /\ r.todo = call[c].todo
          /\ r.pc = p
      BY <1>3 DEF RestoreCall
    <2>2. call[c] \notin JournalCall
      BY <1>3 DEF JournalCall, RestoreCall
    <2> HIDE DEF r
    <2>3. QED
      BY <1>1, <1>3, <2>1, <2>2 DEF TypeOK, CallRecord
  <1>4. CASE call[c] \in KilledCall /\ p = "declined"
    <2>1. r \in KilledCall /\ r.pc = p
      BY <1>4 DEF KilledCall
    <2>2. call[c].pc \in {"killed", "declined"} /\ DOMAIN call[c] = {"pc", "may"}
      BY <1>4 DEF KilledCall
    <2>3. call[c] \notin RestoreCall
      BY <2>2 DEF RestoreCall
    <2>4. call[c] \in JournalCall => DOMAIN call[c] = {"pc", "req", "todo", "entries"}
      BY DEF JournalCall
    <2>5. call[c] \notin JournalCall
      BY <2>2, <2>4
    <2> HIDE DEF r
    <2>6. QED
      BY <1>1, <1>4, <2>1, <2>3, <2>5 DEF TypeOK, CallRecord
  <1>5. QED
    BY <1>2, <1>3, <1>4

LEMMA KindOfCall ==
    ASSUME TypeOK, NEW c \in Call
    PROVE  /\ call[c].pc \in {"journalling", "held", "allowed", "ran"} => call[c] \in JournalCall
           /\ call[c].pc \in {"restoring", "restored", "denied"} => call[c] \in RestoreCall
           /\ call[c].pc = "killed" => call[c] \in KilledCall
           /\ call[c].pc = "slipped" => call[c] \in SlippedCall
           /\ call[c].pc = "new" => call[c] \in NewCall
           /\ Cid[c] \in Dir
  <1>1. call[c] \in CallRecord
    BY DEF TypeOK
  <1>2. QED
    BY <1>1 DEF CallRecord, JournalCall, RestoreCall, KilledCall, SlippedCall, NewCall, Dir

\* A step that lists f for c, or leaves c at its list, and stores a copy with it.
LEMMA ListedFacts ==
    ASSUME TypeOK, NEW c \in Call, call[c].pc = "journalling", NEW f \in File,
           NEW entry \in Entry, Listed(c, f, entry)
    PROVE  /\ call' \in [Call -> CallRecord]
           /\ \A b \in Call : b # c => call'[b] = call[b]
           /\ call'[c].pc = "journalling" /\ call'[c].req = call[c].req
           /\ call'[c].todo = call[c].todo \ {f}
           /\ call'[c].entries[f] = entry
           /\ \A g \in File : g # f => call'[c].entries[g] = call[c].entries[g]
  <1> DEFINE r == [call[c] EXCEPT !.todo = call[c].todo \ {f},
                                  !.entries = [call[c].entries EXCEPT ![f] = entry]]
  <1>1. call[c] \in JournalCall
    BY KindOfCall
  <1>2. call' = [call EXCEPT ![c] = r]
    BY DEF Listed
  <1>3. [call[c].entries EXCEPT ![f] = entry] \in [File -> Entry]
    BY <1>1 DEF JournalCall
  <1>4. /\ r \in JournalCall /\ r.pc = call[c].pc /\ r.req = call[c].req
        /\ r.todo = call[c].todo \ {f}
        /\ r.entries = [call[c].entries EXCEPT ![f] = entry]
    BY <1>1, <1>3 DEF JournalCall
  <1>5. call[c].entries \in [File -> Entry]
    BY <1>1 DEF JournalCall
  <1> HIDE DEF r
  <1>6. call'[c] = r /\ \A b \in Call : b # c => call'[b] = call[b]
    BY <1>2 DEF TypeOK
  <1>7. call' \in [Call -> CallRecord]
    BY <1>2, <1>4 DEF TypeOK, CallRecord
  <1>8. QED
    BY <1>4, <1>5, <1>6, <1>7

LEMMA AdmitStep ==
    ASSUME IInv, CidsDistinct, NEW c \in Call, NEW req \in Request, Admit(c, req)
    PROVE  IInv'
  <1> DEFINE todo == {f \in req.targets : req.tree => files[f] # Absent}
             r == [pc |-> "journalling", req |-> req, todo |-> todo,
                   entries |-> [f \in File |-> NotListed]]
  <1>1. /\ files' = files /\ blobs' = blobs /\ manifests' = manifests /\ start' = start
        /\ first' = first /\ call' = [call EXCEPT ![c] = r] /\ call[c].pc = "new"
    BY DEF Admit, Moves
  <1>2. req.targets \subseteq File /\ (req.tree => Destructive(req))
    BY DEF Request, Targets, Destructive
  <1>3. r \in JournalCall
    <2>1. todo \in SUBSET File /\ [f \in File |-> NotListed] \in [File -> Entry]
      BY <1>2 DEF Entry
    <2> HIDE DEF todo
    <2>2. QED
      BY <2>1 DEF JournalCall
  <1>4. /\ r.pc = "journalling" /\ r.req = req /\ r.todo = todo
        /\ \A f \in File : r.entries[f] = NotListed
    OBVIOUS
  <1> HIDE DEF r
  <1>5. call'[c] = r /\ (\A b \in Call : b # c => call'[b] = call[b])
    BY <1>1 DEF IInv, TypeOK
  <1>6. TypeOK'
    BY <1>1, <1>3 DEF IInv, TypeOK, CallRecord
  <1>7. Untouched'
    BY <1>1, <1>4, <1>5 DEF IInv, Untouched, Knows
  <1>8. JournalHolds'
    <2> SUFFICES ASSUME NEW b \in Call, NEW f \in File, Journalled(b, f)', first[f] = NoCall,
                        f \in call'[b].req.targets
                 PROVE  Kept(b, f)'
      BY <1>1 DEF JournalHolds
    <2>1. CASE b # c
      BY <2>1, <1>1, <1>5 DEF IInv, JournalHolds, Journalled, Kept
    <2>2. CASE b = c
      <3>1. f \notin todo /\ f \in req.targets
        BY <2>2, <1>4, <1>5 DEF Journalled
      <3>2. req.tree /\ files[f] = Absent
        BY <3>1
      <3>3. start[f] = Absent /\ Destructive(req)
        BY <3>2, <1>2 DEF IInv, Untouched
      <3>4. QED
        BY <2>2, <3>3, <1>1, <1>4, <1>5 DEF Kept
    <2>3. QED
      BY <2>1, <2>2
  <1>9. ManifestHolds'
    BY <1>1, <1>4, <1>5 DEF IInv, ManifestHolds
  <1>10. \A f \in File : first[f] # NoCall => first[f] \in Call /\ first[f] # c
    BY <1>1 DEF IInv, TypeOK, FirstRan
  <1>11. FirstRan' /\ GroundIsJournalled'
    BY <1>1, <1>5, <1>10 DEF IInv, FirstRan, GroundIsJournalled
  <1>12. QED
    BY <1>6, <1>7, <1>8, <1>9, <1>11 DEF IInv

\* A journalling call becomes allowed and its manifest is what it has listed.
LEMMA AllowStep ==
    ASSUME IInv, CidsDistinct, NEW c \in Call, call[c].pc = "journalling", Goto(c, "allowed"),
           files' = files, blobs' = blobs, start' = start, first' = first,
           manifests' \in [Dir -> Manifest \cup {NoManifest}],
           \A d \in Dir : d # Cid[c] => manifests'[d] = manifests[d],
           \/ /\ manifests' = manifests
              /\ \A f \in File : call[c].entries[f] = NotListed
           \/ /\ manifests'[Cid[c]] # NoManifest
              /\ manifests'[Cid[c]].entries = call[c].entries,
           call[c].todo = {} \/ (~Destructive(call[c].req)
                                   /\ \A f \in File : call[c].entries[f] = NotListed)
    PROVE  IInv'
  <1>1. call[c] \in JournalCall /\ Cid[c] \in Dir
    BY KindOfCall DEF IInv
  <1>2. /\ call' \in [Call -> CallRecord]
        /\ call'[c].pc = "allowed" /\ call'[c].req = call[c].req
        /\ call'[c].entries = call[c].entries
        /\ \A b \in Call : b # c => call'[b] = call[b]
    BY <1>1, GotoFacts DEF IInv
  <1>3. TypeOK'
    BY <1>2 DEF IInv, TypeOK
  <1>4. \A b \in Call : b # c => manifests'[Cid[b]] = manifests[Cid[b]]
    BY <1>1, KindOfCall DEF IInv, CidsDistinct
  <1>5. Untouched'
    <2> SUFFICES ASSUME NEW f \in File, first[f] = NoCall
                 PROVE  /\ files[f] = start[f]
                        /\ \A d \in Dir : manifests'[d] # NoManifest
                                => manifests'[d].entries[f] \in Knows(start[f])
                        /\ \A b \in Call : call'[b].pc \in {"journalling", "allowed"}
                                => call'[b].entries[f] \in Knows(start[f])
      BY DEF Untouched, Knows
    <2>1. call[c].entries[f] \in Knows(start[f])
      BY DEF IInv, Untouched
    <2>2. QED
      BY <2>1, <1>1, <1>2 DEF IInv, Untouched
  <1>6. JournalHolds'
    <2> SUFFICES ASSUME NEW b \in Call, NEW f \in File, Journalled(b, f)', first[f] = NoCall,
                        f \in call'[b].req.targets
                 PROVE  Kept(b, f)'
      BY DEF JournalHolds
    <2>1. CASE b # c
      BY <2>1, <1>2 DEF IInv, JournalHolds, Journalled, Kept
    <2>2. CASE b = c /\ call[c].todo = {}
      <3>1. Kept(c, f)
        BY <2>2, <1>2 DEF IInv, JournalHolds, Journalled
      <3>2. QED
        BY <2>2, <3>1, <1>2 DEF Kept
    <2>3. CASE b = c /\ ~Destructive(call[c].req) /\ call[c].entries[f] = NotListed
      BY <2>3, <1>2 DEF Kept
    <2>4. QED
      BY <2>1, <2>2, <2>3
  <1>7. ManifestHolds'
    <2>1. manifests[Cid[c]] = NoManifest
      BY DEF IInv, ManifestHolds
    <2>2. QED
      BY <2>1, <1>2, <1>4 DEF IInv, ManifestHolds
  <1>8. \A f \in File : first[f] # NoCall => first[f] \in Call /\ first[f] # c
    BY DEF IInv, TypeOK, FirstRan
  <1>9. FirstRan' /\ GroundIsJournalled'
    BY <1>2, <1>4, <1>8 DEF IInv, FirstRan, GroundIsJournalled
  <1>10. QED
    BY <1>3, <1>5, <1>6, <1>7, <1>9 DEF IInv

\* A call is held although its pre-images may be there.
LEMMA HeldStep ==
    ASSUME IInv, CidsDistinct, NEW c \in Call, call[c].pc = "journalling", Goto(c, "held"),
           files' = files, blobs' = blobs, start' = start, first' = first,
           \/ manifests' = manifests
           \/ manifests' = [manifests EXCEPT ![Cid[c]] = NoManifest]
    PROVE  IInv'
  <1>1. call[c] \in JournalCall /\ Cid[c] \in Dir
    BY KindOfCall DEF IInv
  <1>2. /\ call' \in [Call -> CallRecord]
        /\ call'[c].pc = "held"
        /\ \A b \in Call : b # c => call'[b] = call[b]
    BY <1>1, GotoFacts DEF IInv
  <1>3. TypeOK'
    BY <1>1, <1>2 DEF IInv, TypeOK
  <1>4. \A d \in Dir : \/ manifests'[d] = manifests[d]
                       \/ d = Cid[c] /\ manifests'[d] = NoManifest
    BY <1>1 DEF IInv, TypeOK
  <1>5. manifests[Cid[c]] = NoManifest
    BY DEF IInv, ManifestHolds
  <1>6. QED
    BY <1>2, <1>3, <1>4, <1>5, QuietStep

LEMMA NoJournalStep ==
    ASSUME IInv, CidsDistinct, NEW c \in Call, NoJournal(c)
    PROVE  IInv'
  <1>1. /\ files' = files /\ blobs' = blobs /\ manifests' = manifests /\ start' = start
        /\ first' = first /\ call[c].pc = "journalling"
        /\ \A f \in File : call[c].entries[f] = NotListed
    BY DEF NoJournal, Moves
  <1>2. CASE Destructive(call[c].req)
    BY <1>1, <1>2, HeldStep DEF NoJournal
  <1>3. CASE ~Destructive(call[c].req)
    BY <1>1, <1>3, AllowStep DEF NoJournal, IInv, TypeOK
  <1>4. QED
    BY <1>2, <1>3

\* f is listed with what the call knows of it.
LEMMA ListStep ==
    ASSUME IInv, CidsDistinct, NEW c \in Call, call[c].pc = "journalling", NEW f \in File,
           NEW entry \in Entry, Listed(c, f, entry),
           files' = files, manifests' = manifests, start' = start, first' = first,
           blobs' \in [Dir -> [File -> Entry]],
           \A d \in Dir, g \in File : ~(d = Cid[c] /\ g = f) => blobs'[d][g] = blobs[d][g],
           first[f] = NoCall => entry \in Knows(start[f]) /\ Kept(c, f)'
    PROVE  IInv'
  <1>1. call[c] \in JournalCall /\ Cid[c] \in Dir
    BY KindOfCall DEF IInv
  <1>2. /\ call' \in [Call -> CallRecord]
        /\ \A b \in Call : b # c => call'[b] = call[b]
        /\ call'[c].pc = "journalling" /\ call'[c].req = call[c].req
        /\ call'[c].todo = call[c].todo \ {f}
        /\ call'[c].entries[f] = entry
        /\ \A g \in File : g # f => call'[c].entries[g] = call[c].entries[g]
    BY ListedFacts DEF IInv
  <1>3. TypeOK'
    BY <1>2 DEF IInv, TypeOK
  <1>4. \A b \in Call, g \in File : b # c => blobs'[Cid[b]][g] = blobs[Cid[b]][g]
    BY KindOfCall DEF IInv, CidsDistinct
  <1>5. Untouched'
    <2> SUFFICES ASSUME NEW g \in File, first[g] = NoCall
                 PROVE  /\ files[g] = start[g]
                        /\ \A d \in Dir : manifests[d] # NoManifest
                                => manifests[d].entries[g] \in Knows(start[g])
                        /\ \A b \in Call : call'[b].pc \in {"journalling", "allowed"}
                                => call'[b].entries[g] \in Knows(start[g])
      BY DEF Untouched, Knows
    <2>1. call'[c].entries[g] \in Knows(start[g])
      <3>1. CASE g = f
        BY <3>1, <1>2
      <3>2. CASE g # f
        BY <3>2, <1>2 DEF IInv, Untouched
      <3>3. QED
        BY <3>1, <3>2
    <2>2. QED
      BY <2>1, <1>2 DEF IInv, Untouched
  <1>6. JournalHolds'
    <2> SUFFICES ASSUME NEW b \in Call, NEW g \in File, Journalled(b, g)', first[g] = NoCall,
                        g \in call'[b].req.targets
                 PROVE  Kept(b, g)'
      BY DEF JournalHolds
    <2>1. CASE b # c
      BY <2>1, <1>2, <1>4 DEF IInv, JournalHolds, Journalled, Kept
    <2>2. CASE b = c /\ g = f
      BY <2>2
    <2>3. CASE b = c /\ g # f
      <3>1. Kept(c, g)
        BY <2>3, <1>2 DEF IInv, JournalHolds, Journalled
      <3>2. blobs'[Cid[c]][g] = blobs[Cid[c]][g]
        BY <2>3, <1>1
      <3>3. QED
        BY <2>3, <3>1, <3>2, <1>2 DEF Kept
    <2>4. QED
      BY <2>1, <2>2, <2>3
  <1>7. ManifestHolds'
    BY <1>2 DEF IInv, ManifestHolds
  <1>8. \A g \in File : first[g] # NoCall => first[g] \in Call /\ first[g] # c
    BY DEF IInv, TypeOK, FirstRan
  <1>9. FirstRan' /\ GroundIsJournalled'
    BY <1>2, <1>4, <1>8 DEF IInv, FirstRan, GroundIsJournalled
  <1>10. QED
    BY <1>3, <1>5, <1>6, <1>7, <1>9 DEF IInv

LEMMA SnapshotStep ==
    ASSUME IInv, CidsDistinct, NEW c \in Call, NEW f \in File, Snapshot(c, f)
    PROVE  IInv'
  <1>1. /\ files' = files /\ manifests' = manifests /\ start' = start
        /\ first' = first /\ call[c].pc = "journalling" /\ f \in call[c].todo
    BY DEF Snapshot, Moves
  <1>2. call[c] \in JournalCall /\ Cid[c] \in Dir
    BY <1>1, KindOfCall DEF IInv
  <1>3. call[c].req \in Request
    BY <1>2 DEF JournalCall
  <1>4. call[c].req.tree => Destructive(call[c].req)
    BY <1>3 DEF Request, Destructive
  <1>5. first[f] = NoCall => files[f] = start[f]
    BY DEF IInv, Untouched
  <1>6. CASE files[f] = Absent /\ UNCHANGED blobs
             /\ Listed(c, f, IF call[c].req.tree THEN NotListed ELSE Absent)
    <2> DEFINE entry == IF call[c].req.tree THEN NotListed ELSE Absent
    <2>1. entry \in Entry
      BY DEF Entry, Image
    <2>2. /\ call'[c].req = call[c].req /\ call'[c].entries[f] = entry
      BY <1>1, <1>6, <2>1, ListedFacts DEF IInv
    <2>3. first[f] = NoCall => entry \in Knows(start[f]) /\ Kept(c, f)'
      BY <1>1, <1>4, <1>5, <1>6, <2>2, JournalAssumption DEF Knows, Kept
    <2>4. blobs' \in [Dir -> [File -> Entry]]
      BY <1>6 DEF IInv, TypeOK
    <2> HIDE DEF entry
    <2>5. Listed(c, f, entry)
      BY <1>6 DEF entry
    <2>6. QED
      BY <1>1, <1>6, <2>1, <2>3, <2>4, <2>5, ListStep
  <1>7. CASE /\ files[f] \in Content \ Oversize
             /\ Listed(c, f, files[f])
             /\ blobs' = [blobs EXCEPT ![Cid[c]][f] = files[f]]
    <2>1. files[f] \in Entry
      BY <1>7 DEF Entry, Image
    <2>2. /\ call'[c].req = call[c].req /\ call'[c].entries[f] = files[f]
      BY <1>1, <1>7, <2>1, ListedFacts DEF IInv
    <2>3. /\ blobs' \in [Dir -> [File -> Entry]] /\ blobs'[Cid[c]][f] = files[f]
          /\ \A d \in Dir, g \in File : ~(d = Cid[c] /\ g = f) => blobs'[d][g] = blobs[d][g]
      <3> DEFINE row == [blobs[Cid[c]] EXCEPT ![f] = files[f]]
      <3>1. blobs[Cid[c]] \in [File -> Entry]
        BY <1>2 DEF IInv, TypeOK
      <3>2. row \in [File -> Entry] /\ row[f] = files[f]
            /\ \A g \in File : g # f => row[g] = blobs[Cid[c]][g]
        BY <2>1, <3>1
      <3>3. blobs' = [blobs EXCEPT ![Cid[c]] = row]
        BY <1>7
      <3> HIDE DEF row
      <3>4. QED
        BY <1>2, <3>2, <3>3 DEF IInv, TypeOK
    <2>4. first[f] = NoCall => files[f] \in Knows(start[f]) /\ Kept(c, f)'
      BY <1>1, <1>5, <2>2, <2>3 DEF Knows, Kept
    <2>5. QED
      BY <1>1, <1>7, <2>1, <2>3, <2>4, ListStep
  <1>8. CASE UNCHANGED blobs /\ Unrecoverable(c, f)
    <2>1. CASE Destructive(call[c].req)
      BY <1>1, <1>8, <2>1, HeldStep DEF Unrecoverable
    <2>2. CASE ~Destructive(call[c].req)
      <3>1. NoPreimage \in Entry /\ Listed(c, f, NoPreimage)
        BY <1>8, <2>2 DEF Entry, Unrecoverable
      <3>2. /\ call'[c].req = call[c].req /\ call'[c].entries[f] = NoPreimage
        BY <1>1, <3>1, ListedFacts DEF IInv
      <3>3. first[f] = NoCall => NoPreimage \in Knows(start[f]) /\ Kept(c, f)'
        BY <2>2, <3>2 DEF Knows, Kept, Destructive
      <3>4. blobs' \in [Dir -> [File -> Entry]]
        BY <1>8 DEF IInv, TypeOK
      <3>5. QED
        BY <1>1, <1>8, <3>1, <3>3, <3>4, ListStep
    <2>3. QED
      BY <2>1, <2>2
  <1>9. QED
    BY <1>6, <1>7, <1>8 DEF Snapshot

LEMMA WriteManifestStep ==
    ASSUME IInv, CidsDistinct, NEW c \in Call, WriteManifest(c)
    PROVE  IInv'
  <1> DEFINE m == [session |-> call[c].req.session, entries |-> call[c].entries]
  <1>1. /\ files' = files /\ blobs' = blobs /\ start' = start /\ first' = first
        /\ call[c].pc = "journalling" /\ call[c].todo = {}
    BY DEF WriteManifest, Moves
  <1>2. call[c] \in JournalCall /\ Cid[c] \in Dir
    BY <1>1, KindOfCall DEF IInv
  <1>3. m \in Manifest /\ m # NoManifest /\ m.entries = call[c].entries
    <2>1. call[c].req \in Request /\ call[c].entries \in [File -> Entry]
      BY <1>2 DEF JournalCall
    <2>2. call[c].req.session \in Session
      BY <2>1 DEF Request
    <2>3. QED
      BY <2>1, <2>2, ManifestAssumption DEF Manifest
  <1>4. CASE /\ \A f \in File : call[c].entries[f] = NotListed
             /\ Goto(c, "allowed") /\ UNCHANGED manifests
    BY <1>1, <1>4, AllowStep DEF IInv, TypeOK
  <1> HIDE DEF m
  <1>5. CASE manifests' = [manifests EXCEPT ![Cid[c]] = m] /\ Goto(c, "allowed")
    <2>1. /\ manifests' \in [Dir -> Manifest \cup {NoManifest}]
          /\ manifests'[Cid[c]] = m
          /\ \A d \in Dir : d # Cid[c] => manifests'[d] = manifests[d]
      BY <1>2, <1>3, <1>5 DEF IInv, TypeOK
    <2>2. QED
      BY <1>1, <1>3, <1>5, <2>1, AllowStep
  <1>6. CASE manifests' = [manifests EXCEPT ![Cid[c]] = NoManifest] /\ Goto(c, "held")
    BY <1>1, <1>6, HeldStep
  <1>7. QED
    BY <1>4, <1>5, <1>6 DEF WriteManifest, m

\* A tool that runs: it was allowed, or its hook was killed.
LEMMA ChangeStep ==
    ASSUME IInv, CidsDistinct, NEW c \in Call, NEW req \in Request, Changes(c, req),
           call' \in [Call -> CallRecord], \A b \in Call : b # c => call'[b] = call[b],
           \/ /\ call[c].pc = "allowed" /\ call'[c].pc = "ran"
              /\ call[c].req = req /\ call'[c].req = req
           \/ call[c].pc = "killed" /\ call'[c].pc = "slipped"
    PROVE  IInv'
  <1>1. /\ blobs' = blobs /\ manifests' = manifests /\ start' = start
        /\ files' = [f \in File |-> Effect(req, f)]
        /\ first' = [f \in File |-> IF first[f] = NoCall /\ files'[f] # files[f]
                                    THEN c ELSE first[f]]
    BY DEF Changes
  <1>2. TypeOK'
    <2>1. req.content \in Image
      BY DEF Request, Image
    <2>2. files' \in [File -> Image]
      BY <1>1, <2>1 DEF Effect, IInv, TypeOK
    <2>3. first' \in [File -> Call \cup {NoCall}]
      BY <1>1 DEF IInv, TypeOK
    <2>4. QED
      BY <2>2, <2>3, <1>1 DEF IInv, TypeOK
  <1>3. \A f \in File :
          /\ first'[f] = NoCall => first[f] = NoCall /\ files'[f] = files[f]
          /\ first'[f] # NoCall =>
                \/ first[f] = first'[f]
                \/ first[f] = NoCall /\ first'[f] = c /\ files'[f] # files[f]
    BY <1>1, JournalAssumption
  <1>4. Untouched'
    BY <1>1, <1>3 DEF IInv, Untouched, Knows
  <1>5. JournalHolds'
    BY <1>1, <1>3 DEF IInv, JournalHolds, Journalled, Kept
  <1>6. ManifestHolds'
    BY <1>1 DEF IInv, ManifestHolds
  <1>7. \A f \in File : first[f] # NoCall => first[f] \in Call /\ first[f] # c
    BY DEF IInv, TypeOK, FirstRan
  <1>8. FirstRan'
    BY <1>3, <1>7 DEF IInv, FirstRan
  <1>9. GroundIsJournalled'
    <2> SUFFICES ASSUME NEW f \in File, first'[f] # NoCall
                 PROVE  LET b == first'[f]
                            d == Cid[b]
                            m == manifests[d]
                        IN  \/ /\ m # NoManifest
                               /\ m.entries[f] = start[f]
                               /\ start[f] \in Content => blobs[d][f] = start[f]
                            \/ /\ ~Destructive(call'[b].req)
                               /\ m = NoManifest \/ m.entries[f] \in {NotListed, NoPreimage}
                            \/ call'[b].pc = "slipped" /\ m = NoManifest
      BY <1>1 DEF GroundIsJournalled
    <2>1. CASE first[f] = first'[f]
      BY <2>1, <1>7 DEF IInv, GroundIsJournalled
    <2>2. CASE first'[f] = c /\ call[c].pc = "killed"
      BY <2>2 DEF IInv, ManifestHolds
    <2>3. CASE first[f] = NoCall /\ first'[f] = c /\ files'[f] # files[f] /\ call[c].pc = "allowed"
      <3>1. f \in req.targets /\ files[f] = start[f] /\ (Destructive(req) => start[f] # Absent)
        BY <2>3, <1>1 DEF Effect, Destructive, IInv, Untouched
      <3>2. Kept(c, f)
        BY <2>3, <3>1 DEF IInv, JournalHolds, Journalled
      <3>3. start[f] \notin {NotListed, NoPreimage}
        BY JournalAssumption DEF IInv, TypeOK, Image
      <3>4. \/ manifests[Cid[c]] = NoManifest /\ call[c].entries[f] = NotListed
            \/ manifests[Cid[c]] # NoManifest /\ manifests[Cid[c]].entries = call[c].entries
        BY <2>3 DEF IInv, ManifestHolds
      <3>5. QED
        BY <2>3, <3>1, <3>2, <3>3, <3>4 DEF Kept
    <2>4. QED
      BY <2>1, <2>2, <2>3, <1>3
  <1>10. QED
    BY <1>2, <1>4, <1>5, <1>6, <1>8, <1>9 DEF IInv

LEMMA RunStep ==
    ASSUME IInv, CidsDistinct, NEW c \in Call, Run(c)
    PROVE  IInv'
  <1>1. call[c].pc = "allowed" /\ Goto(c, "ran") /\ Changes(c, call[c].req)
    BY DEF Run
  <1>2. call[c] \in JournalCall
    BY <1>1, KindOfCall DEF IInv
  <1>3. /\ call' \in [Call -> CallRecord] /\ call'[c].pc = "ran" /\ call'[c].req = call[c].req
        /\ \A b \in Call : b # c => call'[b] = call[b]
    BY <1>1, <1>2, GotoFacts DEF IInv
  <1>4. call[c].req \in Request
    BY <1>2 DEF JournalCall
  <1>5. QED
    BY <1>1, <1>3, <1>4, ChangeStep

LEMMA SlipFacts ==
    ASSUME TypeOK, NEW c \in Call, Slip(c)
    PROVE  \E req \in Request :
              /\ Changes(c, req)
              /\ call' \in [Call -> CallRecord]
              /\ call[c].pc = "killed" /\ call'[c].pc = "slipped" /\ call'[c].req = req
              /\ \A b \in Call : b # c => call'[b] = call[b]
  <1>1. call[c].pc = "killed" /\ call[c] \in KilledCall
    BY KindOfCall DEF Slip
  <1>2. PICK req \in call[c].may :
          /\ call' = [call EXCEPT ![c] = [pc |-> "slipped", req |-> req]]
          /\ Changes(c, req)
    BY DEF Slip
  <1>3. req \in Request
    BY <1>1 DEF KilledCall
  <1> DEFINE r == [pc |-> "slipped", req |-> req]
  <1>4. r \in SlippedCall /\ r.pc = "slipped" /\ r.req = req
    BY <1>3 DEF SlippedCall
  <1>5. call' = [call EXCEPT ![c] = r]
    BY <1>2
  <1> HIDE DEF r
  <1>6. /\ call' \in [Call -> CallRecord] /\ call'[c] = r
        /\ \A b \in Call : b # c => call'[b] = call[b]
    BY <1>4, <1>5 DEF TypeOK, CallRecord
  <1>7. QED
    BY <1>1, <1>2, <1>3, <1>4, <1>6

LEMMA SlipStep ==
    ASSUME IInv, CidsDistinct, NEW c \in Call, Slip(c)
    PROVE  IInv'
  BY SlipFacts, ChangeStep DEF IInv

\* What the manifest a rollback takes next does.
LEMMA RestoreFacts ==
    ASSUME TypeOK, NEW c \in Call, RestoreManifest(c)
    PROVE  /\ call[c].pc = "restoring" /\ call'[c].pc = "restoring"
           /\ call' \in [Call -> CallRecord]
           /\ call'[c].session = call[c].session
           /\ \A b \in Call : b # c => call'[b] = call[b]
           /\ UNCHANGED <<blobs, manifests, start, first>>
           /\ alone' # NoCall => alone = c
           /\ \E d \in call[c].todo, skipped \in SUBSET File :
                /\ \A e \in call[c].todo : d <= e
                /\ call'[c].todo = call[c].todo \ {d}
                /\ files' = [f \in File |-> IF OfSession(d, call[c].session) /\ f \notin skipped
                                            THEN Restored(d, f) ELSE files[f]]
                /\ alone' # NoCall => skipped = {}
  <1>1. call[c] \in RestoreCall /\ call[c].pc = "restoring"
    BY KindOfCall DEF RestoreManifest
  <1>2. PICK d \in call[c].todo, skipped \in SUBSET File :
          /\ \A e \in call[c].todo : d <= e
          /\ call' = [call EXCEPT ![c].todo = @ \ {d}]
          /\ files' = [f \in File |-> IF OfSession(d, call[c].session) /\ f \notin skipped
                                      THEN Restored(d, f) ELSE files[f]]
          /\ Alone(c, skipped)
    BY DEF RestoreManifest
  <1> DEFINE r == [call[c] EXCEPT !.todo = call[c].todo \ {d}]
  <1>3. call' = [call EXCEPT ![c] = r]
    BY <1>2
  <1>4. /\ r \in RestoreCall /\ r.pc = "restoring" /\ r.session = call[c].session
        /\ r.todo = call[c].todo \ {d}
    BY <1>1 DEF RestoreCall
  <1> HIDE DEF r
  <1>5. /\ call' \in [Call -> CallRecord] /\ call'[c] = r
        /\ \A b \in Call : b # c => call'[b] = call[b]
    BY <1>3, <1>4 DEF TypeOK, CallRecord
  <1>6. alone' # NoCall => alone = c /\ skipped = {}
    BY <1>2 DEF Alone
  <1>7. UNCHANGED <<blobs, manifests, start, first>>
    BY DEF RestoreManifest
  <1>8. QED
    BY <1>1, <1>2, <1>4, <1>5, <1>6, <1>7

\* A rollback gives a file nobody has changed what it has already.
LEMMA RestoreStep ==
    ASSUME IInv, CidsDistinct, NEW c \in Call, RestoreManifest(c)
    PROVE  IInv'
  <1>1. /\ call[c].pc = "restoring" /\ call'[c].pc = "restoring"
        /\ call' \in [Call -> CallRecord]
        /\ \A b \in Call : b # c => call'[b] = call[b]
        /\ UNCHANGED <<blobs, manifests, start, first>>
    BY RestoreFacts DEF IInv
  <1>2. PICK d \in call[c].todo, skipped \in SUBSET File :
          files' = [f \in File |-> IF OfSession(d, call[c].session) /\ f \notin skipped
                                   THEN Restored(d, f) ELSE files[f]]
    BY RestoreFacts DEF IInv
  <1>3. d \in Dir
    BY <1>1, <1>2, KindOfCall DEF IInv, RestoreCall
  <1>4. ASSUME NEW f \in File, OfSession(d, call[c].session)
        PROVE  Restored(d, f) \in Image /\ (first[f] = NoCall => Restored(d, f) = files[f])
    <2>1. manifests[d] \in Manifest /\ manifests[d] # NoManifest
      BY <1>3, <1>4 DEF OfSession, IInv, TypeOK
    <2>2. Restored(d, f) \in Image
      BY DEF Restored, IInv, TypeOK, Image
    <2>3. first[f] = NoCall => Restored(d, f) = files[f]
      BY <1>3, <2>1, JournalAssumption DEF Restored, IInv, Untouched, Knows, TypeOK, Image
    <2>4. QED
      BY <2>2, <2>3
  <1>5. files' \in [File -> Image] /\ \A f \in File : first[f] = NoCall => files'[f] = files[f]
    BY <1>2, <1>4 DEF IInv, TypeOK
  <1>6. TypeOK' /\ manifests[Cid[c]] = NoManifest
    BY <1>1, <1>5 DEF IInv, TypeOK, ManifestHolds
  <1>7. QED
    BY <1>1, <1>5, <1>6, QuietStep

\* The other steps of a rollback, and a call that is turned down.
LEMMA MoveOnStep ==
    ASSUME IInv, CidsDistinct, NEW c \in Call, NEW p, Goto(c, p),
           \/ call[c].pc \in {"allowed", "killed"} /\ p = "declined"
           \/ call[c].pc \in {"restoring", "restored"} /\ p \in {"restored", "denied"},
           UNCHANGED <<files, blobs, manifests, start, first>>
    PROVE  IInv'
  <1>1. /\ call' \in [Call -> CallRecord]
        /\ call'[c].pc = p
        /\ \A b \in Call : b # c => call'[b] = call[b]
    BY KindOfCall, GotoFacts DEF IInv
  <1>2. TypeOK' /\ (p # "declined" => manifests[Cid[c]] = NoManifest)
    BY <1>1 DEF IInv, TypeOK, ManifestHolds
  <1>3. QED
    BY <1>1, <1>2, QuietStep

\* The record a call gets when it is killed or begins a rollback.
LEMMA NewRecord ==
    ASSUME TypeOK, NEW c \in Call, NEW r \in CallRecord, call' = [call EXCEPT ![c] = r]
    PROVE  /\ call' \in [Call -> CallRecord] /\ call'[c] = r
           /\ \A b \in Call : b # c => call'[b] = call[b]
  BY DEF TypeOK

LEMMA KillFacts ==
    ASSUME TypeOK, NEW c \in Call, Kill(c)
    PROVE  /\ call[c].pc \in {"new", "journalling", "held", "restoring", "restored", "denied"}
           /\ call' \in [Call -> CallRecord] /\ call'[c].pc = "killed" /\ alone' = NoCall
           /\ \A b \in Call : b # c => call'[b] = call[b]
           /\ UNCHANGED <<files, blobs, manifests, start, first>>
  <1> DEFINE r == [pc |-> "killed", may |-> Asked(c)]
  <1>1. /\ call[c].pc \in {"new", "journalling", "held", "restoring", "restored", "denied"}
        /\ call' = [call EXCEPT ![c] = r] /\ alone' = NoCall
        /\ UNCHANGED <<files, blobs, manifests, start, first>>
    BY DEF Kill, Moves
  <1>2. call[c] \in JournalCall => call[c].req \in Request
    BY DEF JournalCall
  <1>3. "req" \in DOMAIN call[c] => call[c] \in JournalCall
    BY <1>1, KindOfCall DEF RestoreCall, NewCall
  <1>4. Asked(c) \subseteq Request
    BY <1>2, <1>3 DEF Asked
  <1>5. r \in KilledCall /\ r.pc = "killed"
    BY <1>4 DEF KilledCall
  <1> HIDE DEF r
  <1>6. r \in CallRecord
    BY <1>5 DEF CallRecord
  <1>7. QED
    BY <1>1, <1>5, <1>6, NewRecord

LEMMA KillStep ==
    ASSUME IInv, CidsDistinct, NEW c \in Call, Kill(c)
    PROVE  IInv'
  <1>1. /\ call[c].pc \in {"new", "journalling", "held", "restoring", "restored", "denied"}
        /\ call' \in [Call -> CallRecord] /\ call'[c].pc = "killed"
        /\ \A b \in Call : b # c => call'[b] = call[b]
        /\ UNCHANGED <<files, blobs, manifests, start, first>>
    BY KillFacts DEF IInv
  <1>2. TypeOK' /\ manifests[Cid[c]] = NoManifest
    BY <1>1 DEF IInv, TypeOK, ManifestHolds
  <1>3. QED
    BY <1>1, <1>2, QuietStep

\* A call that is judged compromised rolls its session back, or that has been done.
LEMMA CompromisedFacts ==
    ASSUME TypeOK, NEW c \in Call, NEW s \in Session, Compromised(c, s)
    PROVE  /\ call[c].pc = "new" /\ UNCHANGED <<files, blobs, manifests, start, first>>
           /\ call' \in [Call -> CallRecord]
           /\ \A b \in Call : b # c => call'[b] = call[b]
           /\ call'[c].pc \in {"denied", "restoring"}
           /\ call'[c].todo = {d \in Dir : manifests[d] # NoManifest} \/ alone' = NoCall
           /\ alone' # NoCall => call'[c].pc = "restoring" /\ UnderWay = {}
  <1> DEFINE dirs == {d \in Dir : manifests[d] # NoManifest}
             r == IF marker[s] THEN [pc |-> "denied", session |-> s, todo |-> {}]
                  ELSE [pc |-> "restoring", session |-> s, todo |-> dirs]
  <1>1. /\ call[c].pc = "new" /\ UNCHANGED <<files, blobs, manifests, start, first>>
        /\ call' = [call EXCEPT ![c] = r]
        /\ alone' # NoCall => ~marker[s] /\ UnderWay = {}
    BY DEF Compromised
  <1>2. /\ r \in RestoreCall /\ r.pc \in {"denied", "restoring"}
        /\ ~marker[s] => r.pc = "restoring" /\ r.todo = dirs
    BY DEF RestoreCall
  <1> HIDE DEF r, dirs
  <1>3. r \in CallRecord
    BY <1>2 DEF CallRecord
  <1>4. /\ call' \in [Call -> CallRecord] /\ call'[c] = r
        /\ \A b \in Call : b # c => call'[b] = call[b]
    BY <1>1, <1>3, NewRecord
  <1>5. QED
    BY <1>1, <1>2, <1>4 DEF dirs

LEMMA CompromisedStep ==
    ASSUME IInv, CidsDistinct, NEW c \in Call, NEW s \in Session, Compromised(c, s)
    PROVE  IInv'
  <1>1. /\ call[c].pc = "new" /\ call'[c].pc \in {"denied", "restoring"}
        /\ UNCHANGED <<files, blobs, manifests, start, first>>
        /\ call' \in [Call -> CallRecord]
        /\ \A b \in Call : b # c => call'[b] = call[b]
    BY CompromisedFacts DEF IInv
  <1>2. TypeOK' /\ manifests[Cid[c]] = NoManifest
    BY <1>1 DEF IInv, TypeOK, ManifestHolds
  <1>3. QED
    BY <1>1, <1>2, QuietStep

LEMMA StepIInv == CidsDistinct /\ IInv /\ [Next]_vars => IInv'
  <1> SUFFICES ASSUME CidsDistinct, IInv, [Next]_vars PROVE IInv'
    OBVIOUS
  <1>1. ASSUME NEW c \in Call, Judge(c) PROVE IInv'
    <2>1. CASE EndRestore(c) \/ Mark(c)
      BY <2>1, MoveOnStep DEF EndRestore, Mark, Moves
    <2>2. QED
      BY <1>1, <2>1, AdmitStep, NoJournalStep, SnapshotStep, WriteManifestStep,
         CompromisedStep, RestoreStep DEF Judge
  <1>2. ASSUME NEW c \in Call, Run(c) \/ Slip(c) PROVE IInv'
    BY <1>2, RunStep, SlipStep
  <1>3. ASSUME NEW c \in Call, Decline(c) PROVE IInv'
    BY <1>3, MoveOnStep DEF Decline, Moves
  <1>4. ASSUME NEW c \in Call, Kill(c) PROVE IInv'
    BY <1>4, KillStep
  <1>5. CASE UNCHANGED vars
    BY <1>5 DEF vars, IInv, TypeOK, Untouched, JournalHolds, Journalled, Kept, ManifestHolds,
       FirstRan, GroundIsJournalled
  <1>6. QED
    BY <1>1, <1>2, <1>3, <1>4, <1>5 DEF Next, Step

\* With correlation ids of their own (_event_correlation_id), whatever calls
\* overlap, fail, are killed or rolled back, _journal_reversible_targets has put
\* the beginning of a file where the call that first changed it can be undone, for
\* a call whose hook answered; of one that ran because its hook was killed first
\* the journal has no manifest at all.
THEOREM GroundJournalled ==
    ASSUME CidsDistinct
    PROVE  Spec => []GroundIsJournalled
  <1>1. IInv /\ [Next]_vars => IInv'
    BY StepIInv
  <1>2. IInv => GroundIsJournalled
    BY DEF IInv
  <1>3. QED
    BY InitIInv, <1>1, <1>2, PTL DEF Spec

-----------------------------------------------------------------------------
(* What a rollback does while nothing else goes on.                        *)

FirstTargets == \A f \in File : first[f] # NoCall => f \in call[first[f]].req.targets

Calm(c) == call[c].pc \in {"restoring", "restored"} /\ alone = c

\* Nobody else can change a file or the journal, but by moving.
Quiet ==
    \A c \in Call : Calm(c) =>
        \A b \in Call \ {c} : call[b].pc \notin {"journalling", "allowed", "restoring", "killed"}

\* The manifests done come before those to do.
Sorted ==
    \A c \in Call : Calm(c) =>
        /\ call[c].pc = "restored" => call[c].todo = {}
        /\ \A d \in Dir \ call[c].todo, e \in call[c].todo :
              manifests[d] # NoManifest => d < e

\* The first change of f is in the journal of s, which has its last pre-image.
Taken(s, f) ==
    /\ first[f] # NoCall
    /\ Cid[first[f]] \in Journals(s, f)
    /\ \A d \in Journals(s, f) : d <= Cid[first[f]]
    /\ Recoverable(s, f)

Retaken ==
    \A c \in Call, f \in File :
        /\ Calm(c) /\ Taken(call[c].session, f)
        /\ Cid[first[f]] \notin call[c].todo
        => files[f] = start[f]

CInv == IInv /\ FirstTargets /\ Quiet /\ Sorted /\ Retaken

\* A call whose tool has run stays as it is, and the others while one moves.
LEMMA CallStep ==
    ASSUME TypeOK, NEW c \in Call, Step(c) \/ Kill(c)
    PROVE  /\ call[c].pc \notin {"ran", "slipped"}
           /\ \A b \in Call : b # c => call'[b] = call[b]
  <1>1. ASSUME NEW r, call' = [call EXCEPT ![c] = r]
        PROVE  \A b \in Call : b # c => call'[b] = call[b]
    BY <1>1 DEF TypeOK
  <1>2. \E r : call' = [call EXCEPT ![c] = r]
    BY DEF Step, Judge, Admit, NoJournal, Snapshot, Listed, Unrecoverable, WriteManifest,
       Compromised, RestoreManifest, EndRestore, Mark, Run, Slip, Decline, Kill, Goto
  <1>3. call[c].pc \notin {"ran", "slipped"}
    BY DEF Step, Judge, Admit, NoJournal, Snapshot, WriteManifest,
       Compromised, RestoreManifest, EndRestore, Mark, Run, Slip, Decline, Kill
  <1>4. QED
    BY <1>1, <1>2, <1>3

\* Only a rollback leaves one alone, its own.
LEMMA AloneStep ==
    ASSUME NEW b \in Call, Step(b) \/ Kill(b), alone' # NoCall
    PROVE  /\ alone' = b
           /\ \/ \E s \in Session : Compromised(b, s)
              \/ RestoreManifest(b) \/ EndRestore(b)
  BY DEF Step, Judge, Admit, NoJournal, Snapshot, WriteManifest, Compromised, RestoreManifest,
     EndRestore, Alone, Mark, Run, Slip, Changes, Decline, Kill, Moves

LEMMA TargetsStep ==
    ASSUME IInv, FirstTargets, [Next]_vars
    PROVE  FirstTargets'
  <1>1. \A f \in File : first[f] # NoCall =>
           first[f] \in Call /\ call[first[f]].pc \in {"ran", "slipped"}
    BY DEF IInv, TypeOK, FirstRan
  <1>2. ASSUME NEW c \in Call, Step(c) \/ Kill(c) PROVE FirstTargets'
    <2>1. \A b \in Call : call[b].pc \in {"ran", "slipped"} => call'[b] = call[b]
      BY <1>2, CallStep DEF IInv
    <2>2. ASSUME NEW req \in Request, Changes(c, req), call'[c].req = req
          PROVE  FirstTargets'
      <3>1. /\ \A f \in File : files'[f] = Effect(req, f)
            /\ \A f \in File : first'[f] = first[f] \/ (first'[f] = c /\ files'[f] # files[f])
        BY <2>2 DEF Changes
      <3>2. \A f \in File : first'[f] = first[f] \/ (first'[f] = c /\ f \in req.targets)
        BY <3>1 DEF Effect
      <3>3. QED
        BY <1>1, <2>1, <2>2, <3>2 DEF FirstTargets
    <2>3. CASE Run(c)
      <3>1. /\ Changes(c, call[c].req) /\ call'[c].req = call[c].req
            /\ call[c] \in JournalCall
        BY <2>3, KindOfCall, GotoFacts DEF IInv, Run
      <3>2. QED
        BY <2>2, <3>1 DEF JournalCall
    <2>4. CASE Slip(c)
      BY <2>2, <2>4, SlipFacts DEF IInv
    <2>5. CASE first' = first
      BY <1>1, <2>1, <2>5 DEF FirstTargets
    <2>6. first' = first \/ Run(c) \/ Slip(c)
      BY <1>2 DEF Step, Judge, Admit, NoJournal, Snapshot, WriteManifest, Decline, Compromised,
         RestoreManifest, EndRestore, Mark, Kill, Moves
    <2>7. QED
      BY <2>3, <2>4, <2>5, <2>6
  <1>3. CASE UNCHANGED vars
    BY <1>3 DEF vars, FirstTargets
  <1>4. QED
    BY <1>2, <1>3 DEF Next

\* A rollback is calm after a step: it has begun, or it went on and was calm.
LEMMA CalmStep ==
    ASSUME IInv, Quiet, NEW b \in Call, Step(b) \/ Kill(b), NEW c \in Call, Calm(c)'
    PROVE  /\ UNCHANGED <<blobs, manifests, start, first>>
           /\ \A x \in Call \ {c} :
                /\ call'[x] = call[x]
                /\ call[x].pc \notin {"journalling", "allowed", "restoring", "killed"}
           /\ \/ /\ call'[c].pc = "restoring"
                 /\ call'[c].todo = {d \in Dir : manifests[d] # NoManifest}
              \/ /\ Calm(c) /\ call[c].pc = "restoring" /\ call'[c].session = call[c].session
                 /\ \/ RestoreManifest(c)
                    \/ /\ call[c].todo = {} /\ call'[c].todo = {} /\ files' = files
                       /\ call'[c].pc = "restored"
  <1>1. /\ alone' = c /\ alone' # NoCall /\ b = c
        /\ \/ \E s \in Session : Compromised(c, s)
           \/ RestoreManifest(c) \/ EndRestore(c)
    BY AloneStep, JournalAssumption DEF Calm
  <1>2. \A x \in Call : x # c => call'[x] = call[x]
    BY <1>1, CallStep DEF IInv
  <1>3. CASE \E s \in Session : Compromised(c, s)
    <2>1. /\ UNCHANGED <<blobs, manifests, start, first>> /\ UnderWay = {}
          /\ call'[c].pc = "restoring" /\ call'[c].todo = {d \in Dir : manifests[d] # NoManifest}
      BY <1>1, <1>3, CompromisedFacts DEF IInv
    <2>2. QED
      BY <1>2, <2>1 DEF UnderWay, At
  <1>4. CASE RestoreManifest(c)
    <2>1. /\ call[c].pc = "restoring" /\ alone = c /\ call'[c].session = call[c].session
          /\ UNCHANGED <<blobs, manifests, start, first>>
      BY <1>1, <1>4, RestoreFacts DEF IInv
    <2>2. QED
      BY <1>2, <1>4, <2>1 DEF Calm, Quiet
  <1>5. CASE EndRestore(c)
    <2>1. /\ call[c].pc = "restoring" /\ alone = c /\ call[c].todo = {} /\ Goto(c, "restored")
          /\ UNCHANGED <<files, blobs, manifests, start, first>>
      BY <1>1, <1>5 DEF EndRestore, Alone
    <2>2. /\ call'[c].session = call[c].session /\ call'[c].todo = call[c].todo
          /\ call'[c].pc = "restored"
      BY <2>1, KindOfCall, GotoFacts DEF IInv
    <2>3. QED
      BY <1>2, <2>1, <2>2 DEF Calm, Quiet
  <1>6. QED
    BY <1>1, <1>3, <1>4, <1>5

LEMMA QuietStays ==
    ASSUME IInv, Quiet, NEW b \in Call, Step(b) \/ Kill(b)
    PROVE  Quiet'
  BY CalmStep DEF Quiet

LEMMA SortedStays ==
    ASSUME IInv, Quiet, Sorted, NEW b \in Call, Step(b) \/ Kill(b)
    PROVE  Sorted'
  <1> SUFFICES ASSUME NEW c \in Call, Calm(c)'
               PROVE  /\ call'[c].pc = "restored" => call'[c].todo = {}
                      /\ \A d \in Dir \ call'[c].todo, e \in call'[c].todo :
                            manifests'[d] # NoManifest => d < e
    BY DEF Sorted
  <1>1. CASE call'[c].pc = "restoring" /\ call'[c].todo = {d \in Dir : manifests[d] # NoManifest}
    BY <1>1, CalmStep
  <1>2. CASE Calm(c) /\ RestoreManifest(c)
    <2>1. /\ call[c].pc = "restoring" /\ call'[c].pc = "restoring" /\ UNCHANGED manifests
      BY <1>2, RestoreFacts DEF IInv
    <2>2. PICK d \in call[c].todo :
             (\A e \in call[c].todo : d <= e) /\ call'[c].todo = call[c].todo \ {d}
      BY <1>2, RestoreFacts DEF IInv
    <2>3. Dir \subseteq Nat /\ call[c].todo \subseteq Dir
      BY <2>1, KindOfCall, JournalAssumption DEF IInv, RestoreCall, Dir
    <2>4. ASSUME NEW e \in Dir \ call'[c].todo, NEW x \in call'[c].todo, manifests[e] # NoManifest
          PROVE  e < x
      <3>1. x \in call[c].todo /\ x # d /\ d <= x /\ x \in Nat /\ d \in Nat
        BY <2>2, <2>3
      <3>2. CASE e = d
        BY <3>1, <3>2
      <3>3. CASE e # d
        BY <1>2, <2>2, <2>4, <3>1, <3>3 DEF Sorted
      <3>4. QED
        BY <3>2, <3>3
    <2>5. QED
      BY <2>1, <2>4
  <1>3. CASE call'[c].todo = {}
    BY <1>3
  <1>4. QED
    BY <1>1, <1>2, <1>3, CalmStep

\* What the session has of f is in the journal of its first change: taking that
\* gives f its beginning, and nothing behind it is about f.
LEMMA TakenEntry ==
    ASSUME IInv, NEW s, NEW f \in File, Taken(s, f)
    PROVE  /\ first[f] \in Call /\ Cid[first[f]] \in Dir
           /\ OfSession(Cid[first[f]], s) /\ Restored(Cid[first[f]], f) = start[f]
           /\ \A d \in Dir : OfSession(d, s) /\ ~(d <= Cid[first[f]]) => Restored(d, f) = files[f]
  <1> DEFINE o == Cid[first[f]]
  <1>1. first[f] \in Call /\ o \in Dir /\ OfSession(o, s)
    BY KindOfCall DEF IInv, TypeOK, Taken, Journals
  <1>2. manifests[o] # NoManifest /\ manifests[o].entries[f] \in Image
    BY <1>1 DEF Taken, Recoverable, OfSession
  <1>3. manifests[o].entries[f] \notin {NotListed, NoPreimage}
    BY <1>2, JournalAssumption DEF Image
  <1>4. /\ manifests[o].entries[f] = start[f]
        /\ start[f] \in Content => blobs[o][f] = start[f]
    BY <1>2, <1>3 DEF IInv, GroundIsJournalled, Taken
  <1>5. Restored(o, f) = start[f]
    BY <1>2, <1>4 DEF Restored, Image
  <1>6. ASSUME NEW d \in Dir, OfSession(d, s), ~(d <= o) PROVE Restored(d, f) = files[f]
    <2>1. manifests[d].entries[f] = NotListed
      BY <1>6 DEF Taken, Journals
    <2>2. QED
      BY <2>1, JournalAssumption DEF Restored, Image
  <1>7. QED
    BY <1>1, <1>5, <1>6

\* A rollback that takes the journal of the first change, or one behind it, leaves
\* f at its beginning.
LEMMA RetakenStays ==
    ASSUME IInv, FirstTargets, Quiet, Sorted, Retaken, NEW b \in Call, Step(b) \/ Kill(b)
    PROVE  Retaken'
  <1> SUFFICES ASSUME NEW c \in Call, NEW f \in File, Calm(c)', Taken(call[c].session, f)',
                      Cid[first'[f]] \notin call'[c].todo
               PROVE  files'[f] = start'[f]
    BY DEF Retaken
  <1>1. UNCHANGED <<blobs, manifests, start, first>>
    BY CalmStep
  <1>2. ASSUME call'[c].session = call[c].session PROVE Taken(call[c].session, f)
    BY <1>1, <1>2 DEF Taken, Journals, OfSession, Recoverable
  <1>3. CASE call'[c].todo = {d \in Dir : manifests[d] # NoManifest}
    <2>1. Cid[first'[f]] \in Dir /\ manifests'[Cid[first'[f]]] # NoManifest
      BY DEF Taken, Journals, OfSession
    <2>2. QED
      BY <1>1, <1>3, <2>1
  <1>4. CASE Calm(c) /\ RestoreManifest(c)
    <2>1. call[c].pc = "restoring" /\ call'[c].session = call[c].session /\ alone' # NoCall
      BY <1>4, RestoreFacts, JournalAssumption DEF IInv, Calm
    <2>2. PICK d \in call[c].todo :
            /\ \A e \in call[c].todo : d <= e
            /\ call'[c].todo = call[c].todo \ {d}
            /\ files' = [g \in File |-> IF OfSession(d, call[c].session)
                                        THEN Restored(d, g) ELSE files[g]]
      BY <1>4, <2>1, RestoreFacts DEF IInv
    <2>3. Taken(call[c].session, f)
      BY <1>2, <2>1
    <2>4. Dir \subseteq Nat /\ call[c].todo \subseteq Dir
      BY <2>1, KindOfCall, JournalAssumption DEF IInv, RestoreCall, Dir
    <2> DEFINE o == Cid[first[f]]
    <2>5. /\ o \in Dir /\ OfSession(o, call[c].session) /\ Restored(o, f) = start[f]
          /\ \A e \in Dir : OfSession(e, call[c].session) /\ ~(e <= o) => Restored(e, f) = files[f]
      BY <2>3, TakenEntry
    <2>6. CASE d = o
      BY <1>1, <2>2, <2>5, <2>6
    <2>7. CASE d # o
      <3>1. o \notin call[c].todo
        BY <1>1, <2>2, <2>7
      <3>2. files[f] = start[f]
        BY <1>4, <2>3, <3>1 DEF Retaken
      <3>3. o < d
        BY <1>4, <2>5, <3>1 DEF Sorted, OfSession
      <3>4. d \in Dir /\ d \in Nat /\ o \in Nat
        BY <2>4, <2>5
      <3> HIDE DEF o
      <3>5. ~(d <= o)
        BY <3>3, <3>4
      <3>6. OfSession(d, call[c].session) => Restored(d, f) = files[f]
        BY <2>5, <3>4, <3>5
      <3>7. files'[f] = files[f]
        BY <2>2, <3>6
      <3>8. QED
        BY <1>1, <3>2, <3>7
    <2>8. QED
      BY <2>6, <2>7
  <1>5. CASE /\ Calm(c) /\ call'[c].session = call[c].session
             /\ call[c].todo = {} /\ files' = files
    BY <1>1, <1>2, <1>5 DEF Retaken
  <1>6. QED
    BY <1>3, <1>4, <1>5, CalmStep

LEMMA StepCInv == CidsDistinct /\ CInv /\ [Next]_vars => CInv'
  <1> SUFFICES ASSUME CidsDistinct, CInv, [Next]_vars PROVE CInv'
    OBVIOUS
  <1>1. IInv' /\ FirstTargets'
    BY StepIInv, TargetsStep DEF CInv
  <1>2. CASE Next
    <2>1. PICK b \in Call : Step(b) \/ Kill(b)
      BY <1>2 DEF Next
    <2>2. Quiet' /\ Sorted' /\ Retaken'
      BY <2>1, QuietStays, SortedStays, RetakenStays DEF CInv
    <2>3. QED
      BY <1>1, <2>2 DEF CInv
  <1>3. CASE UNCHANGED vars
    <2>1. Quiet' /\ Sorted' /\ Retaken'
      BY <1>3 DEF CInv, vars, Quiet, Sorted, Retaken, Calm, Taken, Journals, OfSession, Recoverable
    <2>2. QED
      BY <1>1, <2>1 DEF CInv
  <1>4. QED
    BY <1>2, <1>3

\* A file whose every change is in the journal of its session, with nothing listed
\* behind its first change, is back when a calm rollback has ended.
LEMMA CInvRetakes == CInv => RetakenInOrder
  <1> SUFFICES ASSUME CInv, NEW f \in File,
                      first[f] # NoCall => \A s \in Session : \A d \in Journals(s, f) :
                                               d <= Cid[first[f]],
                      NEW c \in Call, call[c].pc = "restored", alone = c,
                      Retakable(call[c].session, f)
               PROVE  files[f] = start[f]
    BY DEF RetakenInOrder, RolledBack
  <1>1. Calm(c) /\ call[c].session \in Session /\ call[c].todo = {}
    BY KindOfCall DEF CInv, IInv, Sorted, Calm, RestoreCall
  <1>2. /\ first[f] \in Call /\ call[first[f]].pc \in {"ran", "slipped"}
        /\ f \in call[first[f]].req.targets
    BY DEF CInv, IInv, TypeOK, FirstRan, FirstTargets, Retakable
  <1>3. Taken(call[c].session, f)
    BY <1>1, <1>2 DEF Taken, Retakable
  <1>4. QED
    BY <1>1, <1>3 DEF CInv, Retaken

LEMMA InitCInv == Init => CInv
  <1> SUFFICES ASSUME Init PROVE CInv
    OBVIOUS
  <1>1. (\A c \in Call : call[c].pc = "new") /\ \A f \in File : first[f] = NoCall
    BY DEF Init
  <1>2. FirstTargets /\ Quiet /\ Sorted /\ Retaken
    BY <1>1 DEF FirstTargets, Quiet, Sorted, Retaken, Calm
  <1>3. QED
    BY <1>2, InitIInv DEF CInv

\* restore_session_backfill takes the manifests in the order of their ids: what a
\* session did to a file, with a pre-image of every change and nothing else under
\* way, is undone when its first change comes last in that order.
THEOREM RollbackRetakes ==
    ASSUME CidsDistinct
    PROVE  Spec => []RetakenInOrder
  <1>1. CInv /\ [Next]_vars => CInv'
    BY StepCInv
  <1>2. QED
    BY InitCInv, <1>1, CInvRetakes, PTL DEF Spec
=============================================================================
