------------------------ MODULE WitnessLedgerProofs ------------------------
(***************************************************************************)
(* The chain of WitnessLedger stays linked, and without gaps when every    *)
(* event can be hashed; and the ledger implements the log of EventLog, for *)
(* any number of events and any length of the listening queue.             *)
(***************************************************************************)
EXTENDS WitnessLedger, SequenceTheorems, TLAPS

Written(e) == \E i \in 1..Len(rows) : rows[i].event = e

\* A running supervisor holds the end of the chain and a number no row is above,
\* and the hashes of the rows were computed before.
ChainTop ==
    /\ \A i \in 1..Len(rows) : rows[i].row_hash <= hashed
    /\ up => /\ prev_hash = LastHash
             /\ Len(rows) <= seq /\ seq <= Len(rows) + skipped
             /\ \A i \in 1..Len(rows) : rows[i].seq <= seq

\* An event has at most one connection, and a stopped supervisor has none.
Sockets ==
    /\ ~up => backlog = <<>> /\ serving = NoEvent
    /\ \A i \in 1..Len(backlog) : status[backlog[i]] # "new" /\ backlog[i] # serving
    /\ \A i, j \in 1..Len(backlog) : backlog[i] = backlog[j] => i = j
    /\ serving # NoEvent => status[serving] # "new"
    /\ acking => serving # NoEvent /\ Written(serving)

\* What is on record will not be read again, and is acknowledged or given up.
WrittenOnce(e) ==
    /\ status[e] \in {"sent", "recorded", "unavailable"}
    /\ ~Queued(e)
    /\ serving = e => acking
    /\ status[e] = "sent" => serving = e

Records ==
    \A e \in Event :
        /\ status[e] = "recorded" => Written(e)
        /\ Written(e) => WrittenOnce(e)

IInv == TypeOK /\ ChainHolds /\ ChainTop /\ Sockets /\ Records

-----------------------------------------------------------------------------
(* Initial states and steps *)

LEMMA InitIInv == Init => IInv
  <1>1. ASSUME NEW S PROVE <<>> \in Seq(S) /\ Len(<<>>) = 0
    BY EmptySeq
  <1> SUFFICES ASSUME Init PROVE IInv
    OBVIOUS
  <1>2. TypeOK
    <2>1. rows \in Seq(Row) /\ backlog \in Seq(Event)
      BY <1>1 DEF Init
    <2>2. QED
      BY <2>1 DEF Init, TypeOK, LineEnd, Status, Genesis
  <1>3. Len(rows) = 0 /\ Len(backlog) = 0 /\ ~up /\ ~acking /\ serving = NoEvent /\ backlog = <<>>
        /\ \A e \in Event : status[e] = "new"
    BY <1>1 DEF Init
  <1>4. \A i : i \notin 1..0
    OBVIOUS
  <1>5. ChainHolds /\ ChainTop
    BY <1>3, <1>4 DEF ChainHolds, ChainTop
  <1>6. Sockets
    BY <1>3, <1>4 DEF Sockets
  <1>7. Records
    BY <1>3, <1>4 DEF Records, Written
  <1>8. QED
    BY <1>2, <1>5, <1>6, <1>7 DEF IInv

\* A death takes no hook out of Status, and no hook to "recorded" or "new".
LEMMA DieFacts ==
    ASSUME TypeOK, NEW wasRead, Die(wasRead)
    PROVE  /\ ~up' /\ up' \in BOOLEAN /\ ~acking' /\ acking' \in BOOLEAN
           /\ backlog' = <<>> /\ backlog' \in Seq(Event)
           /\ Len(backlog') = 0 /\ serving' = NoEvent
           /\ status' \in [Event -> Status]
           /\ \A e \in Event :
                 \/ ~(status[e] = "sent" /\ e \in wasRead) /\ status'[e] = status[e]
                 \/ status[e] = "sent" /\ e \in wasRead /\ status'[e] = "unavailable"
                 \/ status[e] = "sent" /\ e \notin wasRead /\ status'[e] = "error"
  <1>1. <<>> \in Seq(Event) /\ Len(<<>>) = 0
    BY EmptySeq
  <1>2. \A e \in Event : status'[e] = IF status[e] = "sent" /\ e \in wasRead THEN "unavailable"
                                      ELSE IF status[e] = "sent" /\ Alive(e) THEN "error"
                                      ELSE status[e]
    BY DEF Die
  <1>3. \A e \in Event : status'[e] \in Status
    BY <1>2 DEF TypeOK, Status, Final
  <1>4. status' \in [Event -> Status]
    BY <1>3 DEF Die
  <1>5. QED
    BY <1>1, <1>2, <1>4 DEF Die

\* A row is written: the chain grows by one link.
LEMMA AppendKeepsChain ==
    ASSUME TypeOK, ChainHolds, ChainTop, up, NEW e \in Event,
           rows' = Append(rows, NextRow(e)), Advance
    PROVE  /\ rows' \in Seq(Row) /\ ChainHolds'
           /\ \A i \in 1..Len(rows') : rows'[i].row_hash <= hashed'
           /\ seq' \in Nat /\ Len(rows') <= seq' /\ seq' <= Len(rows') + skipped'
           /\ \A i \in 1..Len(rows') : rows'[i].seq <= seq'
           /\ prev_hash' = LastHash'
           /\ \A f \in Event : Written(f)' <=> Written(f) \/ f = e
  <1> DEFINE n == Len(rows)
             r == NextRow(e)
  <1>1. r \in Row
    BY DEF TypeOK, NextRow, Row
  <1>2. /\ rows' \in Seq(Row) /\ Len(rows') = n + 1 /\ n \in Nat
        /\ \A i \in 1..n : rows'[i] = rows[i]
        /\ rows'[n + 1] = r /\ rows' # <<>>
    BY <1>1, AppendProperties, LenProperties DEF TypeOK
  <1>3. /\ r.seq = seq + 1 /\ r.event = e /\ r.row_hash = hashed + 1
        /\ r.prev_hash = LastHash
    BY DEF NextRow, ChainTop
  <1>4. /\ hashed' = hashed + 1 /\ hashed \in Nat /\ prev_hash' = hashed + 1
        /\ seq' = seq + 1 /\ seq \in Nat /\ n <= seq
        /\ skipped' = skipped /\ skipped \in Nat /\ seq <= n + skipped
    BY DEF Advance, TypeOK, ChainTop
  <1>5. \A i \in 1..n : /\ rows[i].row_hash \in Nat /\ rows[i].row_hash <= hashed
                      /\ rows[i].seq \in Nat /\ rows[i].seq <= seq
    <2>1. ASSUME NEW i \in 1..n PROVE rows[i] \in Row
      BY ElementOfSeq DEF TypeOK
    <2>2. QED
      BY <2>1 DEF Row, ChainTop
  <1>6. LastHash = IF n = 0 THEN Genesis ELSE rows[n].row_hash
    BY EmptySeq DEF LastHash, TypeOK
  <1> HIDE DEF n, r
  <1>7. ChainHolds'
    <2> SUFFICES ASSUME NEW i \in 1..(n + 1)
                 PROVE  /\ rows'[i].prev_hash = IF i = 1 THEN Genesis ELSE rows'[i-1].row_hash
                        /\ \A j \in 1..(i-1) : /\ rows'[j].row_hash < rows'[i].row_hash
                                                /\ rows'[j].seq < rows'[i].seq
                        /\ i <= rows'[i].seq /\ rows'[i].seq <= i + skipped'
      BY <1>2 DEF ChainHolds, Linked
    <2>1. CASE i \in 1..n
      <3>1. i = 1 \/ i - 1 \in 1..n
        BY <2>1, <1>2
      <3>2. \A j \in 1..(i-1) : j \in 1..n
        BY <2>1, <1>2
      <3>3. QED
        BY <2>1, <3>1, <3>2, <1>2, <1>4 DEF ChainHolds, Linked, n
    <2>2. CASE i = n + 1
      <3>1. n = 0 \/ (n \in 1..n /\ n + 1 # 1)
        BY <1>2
      <3>2. \A j \in 1..n : rows'[j].row_hash < r.row_hash /\ rows'[j].seq < r.seq
        BY <1>2, <1>3, <1>4, <1>5
      <3>3. r.prev_hash = IF n + 1 = 1 THEN Genesis ELSE rows'[n].row_hash
        BY <3>1, <1>2, <1>3, <1>6
      <3>4. n + 1 <= r.seq /\ r.seq <= (n + 1) + skipped'
        BY <1>2, <1>3, <1>4
      <3>5. QED
        BY <2>2, <3>2, <3>3, <3>4, <1>2
    <2>3. QED
      BY <2>1, <2>2, <1>2
  <1>8. \A i \in 1..(n + 1) : rows'[i].row_hash <= hashed' /\ rows'[i].seq <= seq'
    <2>1. \A i : i \in 1..(n + 1) => i \in 1..n \/ i = n + 1
      BY <1>2
    <2>2. QED
      BY <2>1, <1>2, <1>3, <1>4, <1>5
  <1>9. prev_hash' = LastHash'
    BY <1>2, <1>3, <1>4 DEF LastHash
  <1>10. ASSUME NEW f \in Event PROVE Written(f)' <=> Written(f) \/ f = e
    <2>1. Written(f)' <=> \E i \in 1..(n + 1) : rows'[i].event = f
      BY <1>2 DEF Written
    <2>2. Written(f) <=> \E i \in 1..n : rows'[i].event = f
      BY <1>2 DEF Written, n
    <2>3. (\E i \in 1..(n + 1) : rows'[i].event = f)
             <=> (\E i \in 1..n : rows'[i].event = f) \/ f = e
      <3>1. \A i : i \in 1..(n + 1) <=> i \in 1..n \/ i = n + 1
        BY <1>2
      <3>2. QED
        BY <3>1, <1>2, <1>3
    <2>4. QED
      BY <2>1, <2>2, <2>3
  <1>11. QED
    BY <1>2, <1>4, <1>7, <1>8, <1>9, <1>10

\* The file stays, and at most a number is given to no row.
Moves ==
    /\ rows' = rows /\ prev_hash' = prev_hash /\ hashed' = hashed
    /\ \/ seq' = seq /\ skipped' = skipped
       \/ seq' = seq + 1 /\ skipped' = skipped + 1

LEMMA ChainFrame ==
    ASSUME TypeOK, ChainHolds, ChainTop, Moves, up' => up
    PROVE  /\ seq' \in Nat /\ skipped' \in Nat /\ prev_hash' \in Nat /\ hashed' \in Nat
           /\ ChainHolds' /\ ChainTop'
           /\ \A e \in Event : Written(e)' <=> Written(e)
  <1>1. /\ rows' = rows /\ prev_hash' = prev_hash /\ hashed' = hashed
        /\ seq' \in Nat /\ skipped' \in Nat /\ seq \in Nat /\ skipped \in Nat
        /\ seq <= seq' /\ skipped <= skipped'
        /\ seq' - skipped' = seq - skipped
    BY DEF Moves, TypeOK
  <1>2. LastHash' = LastHash
    BY <1>1 DEF LastHash
  <1>3. Len(rows) \in Nat /\ \A i \in 1..Len(rows) : rows[i].seq \in Nat
    <2>1. \A i \in 1..Len(rows) : rows[i] \in Row
      BY ElementOfSeq DEF TypeOK
    <2>2. QED
      BY <2>1, LenProperties DEF TypeOK, Row
  <1>4. ChainHolds'
    BY <1>1, <1>3 DEF ChainHolds, Linked
  <1>5. ChainTop'
    BY <1>1, <1>2, <1>3 DEF ChainTop
  <1>6. QED
    BY <1>1, <1>4, <1>5 DEF Written, TypeOK

\* Steps of a hook that only move its own status.
LEMMA StatusStep ==
    ASSUME IInv, NEW e \in Event, NEW s \in Status, SetStatus(e, s),
           UNCHANGED <<ledgerVars, up, chainVars, socketVars>>,
           s # "new", s # "recorded",
           Written(e) => s = "unavailable"
    PROVE  IInv'
  <1>1. /\ rows' = rows /\ tail' = tail /\ up' = up /\ serving' = serving
        /\ backlog' = backlog /\ acking' = acking
    BY DEF ledgerVars, socketVars
  <1>2. ChainHolds' /\ ChainTop' /\ \A f \in Event : Written(f)' <=> Written(f)
    BY <1>1, ChainFrame DEF IInv, Moves, chainVars
  <1>3. /\ status' \in [Event -> Status] /\ status'[e] = s
        /\ \A f \in Event : f # e => status'[f] = status[f]
    BY DEF IInv, TypeOK, SetStatus
  <1>4. TypeOK'
    BY <1>1, <1>3 DEF IInv, TypeOK, chainVars
  <1>5. Sockets'
    <2>1. \A i \in 1..Len(backlog) : backlog[i] \in Event
      BY ElementOfSeq DEF IInv, TypeOK
    <2>2. serving \in Event \cup {NoEvent}
      BY DEF IInv, TypeOK
    <2>3. QED
      BY <1>1, <1>2, <1>3, <2>1, <2>2 DEF IInv, Sockets
  <1>6. Records'
    <2> SUFFICES ASSUME NEW f \in Event
                 PROVE  /\ status'[f] = "recorded" => Written(f)
                        /\ Written(f) => WrittenOnce(f)'
      BY <1>2 DEF Records
    <2>1. Queued(f)' <=> Queued(f)
      BY <1>1 DEF Queued
    <2>2. CASE f = e
      BY <2>1, <2>2, <1>1, <1>3 DEF IInv, Records, WrittenOnce
    <2>3. CASE f # e
      BY <2>1, <2>3, <1>1, <1>3 DEF IInv, Records, WrittenOnce
    <2>4. QED
      BY <2>2, <2>3
  <1>7. QED
    BY <1>2, <1>4, <1>5, <1>6 DEF IInv

\* The process dies and the file is as the invariant wants it.
LEMMA DieStep ==
    ASSUME TypeOK, Records, NEW wasRead, Die(wasRead),
           rows' \in Seq(Row), tail' \in LineEnd,
           seq' \in Nat, prev_hash' \in Nat, hashed' \in Nat, skipped' \in Nat,
           ChainHolds', \A i \in 1..Len(rows') : rows'[i].row_hash <= hashed',
           \A f \in Event : Written(f) => Written(f)',
           \A f \in Event : Written(f)' /\ ~Written(f) => f \in wasRead /\ HasSent(f),
           \A f \in Event : Written(f) /\ status[f] = "sent" => f \in wasRead
    PROVE  IInv'
  <1>1. TypeOK'
    BY DieFacts DEF TypeOK
  <1>2. ChainTop'
    BY DieFacts DEF ChainTop
  <1>3. \A i : i \notin 1..0
    OBVIOUS
  <1>4. Sockets'
    BY DieFacts, <1>3 DEF Sockets
  <1>5. Records'
    <2> SUFFICES ASSUME NEW f \in Event
                 PROVE  /\ status'[f] = "recorded" => Written(f)'
                        /\ Written(f)' => WrittenOnce(f)'
      BY DEF Records
    <2>1. ~Queued(f)' /\ serving' # f
      BY DieFacts, <1>3, WitnessAssumption DEF Queued
    <2>2. status'[f] = "recorded" => Written(f)'
      BY DieFacts DEF Records
    <2>3. Written(f)' => status'[f] \in {"recorded", "unavailable"}
      BY DieFacts DEF Records, WrittenOnce, HasSent
    <2>4. QED
      BY <2>1, <2>2, <2>3 DEF WrittenOnce
  <1>6. QED
    BY <1>1, <1>2, <1>4, <1>5 DEF IInv

\* Steps between the listening queue and _handle.
LEMMA AcceptStep ==
    ASSUME IInv, Accept
    PROVE  IInv'
  <1>1. /\ rows' = rows /\ tail' = tail /\ up' = up /\ status' = status /\ acking' = acking
        /\ serving' = Head(backlog) /\ backlog' = Tail(backlog) /\ up
        /\ serving = NoEvent /\ backlog # <<>>
    BY DEF Accept, ledgerVars
  <1>2. ChainHolds' /\ ChainTop' /\ \A f \in Event : Written(f)' <=> Written(f)
    BY <1>1, ChainFrame DEF IInv, Moves, chainVars, Accept
  <1>3. /\ serving' \in Event /\ backlog' \in Seq(Event)
        /\ Len(backlog') = Len(backlog) - 1 /\ Len(backlog) \in Nat \ {0}
        /\ \A i \in 1..Len(backlog') : backlog'[i] = backlog[i + 1]
        /\ serving' = backlog[1]
    BY <1>1, HeadTailProperties, EmptySeq DEF IInv, TypeOK
  <1>4. TypeOK'
    BY <1>1, <1>3 DEF IInv, TypeOK, Accept, chainVars
  <1>5. ~acking
    BY <1>1 DEF IInv, Sockets
  <1>6. \A i \in 1..Len(backlog') : i + 1 \in 1..Len(backlog) /\ i + 1 # 1
    BY <1>3
  <1>7. 1 \in 1..Len(backlog)
    BY <1>3
  <1>8. Sockets'
    <2>1. \A i \in 1..Len(backlog') : backlog'[i] # serving' /\ status[backlog'[i]] # "new"
      BY <1>3, <1>6, <1>7 DEF IInv, Sockets
    <2>2. \A i, j \in 1..Len(backlog') : backlog'[i] = backlog'[j] => i = j
      <3> TAKE i, j \in 1..Len(backlog')
      <3>1. i + 1 = j + 1 => i = j
        BY <1>3
      <3>2. QED
        BY <1>3, <1>6, <3>1 DEF IInv, Sockets
    <2>3. status[serving'] # "new"
      BY <1>3, <1>7 DEF IInv, Sockets
    <2>4. QED
      BY <2>1, <2>2, <2>3, <1>1, <1>5 DEF Sockets
  <1>9. Records'
    <2> SUFFICES ASSUME NEW f \in Event, Written(f)
                 PROVE  WrittenOnce(f)'
      BY <1>1, <1>2 DEF Records, IInv
    <2>1. ~Queued(f) /\ status[f] \in {"recorded", "unavailable"}
      BY <1>1, WitnessAssumption DEF IInv, Records, WrittenOnce
    <2>2. ~Queued(f)' /\ serving' # f
      BY <2>1, <1>3, <1>6, <1>7 DEF Queued
    <2>3. QED
      BY <2>1, <2>2, <1>1 DEF WrittenOnce
  <1>10. QED
    BY <1>2, <1>4, <1>8, <1>9 DEF IInv

LEMMA ConnectStep ==
    ASSUME IInv, NEW e \in Event, Connect(e)
    PROVE  IInv'
  <1>1. /\ rows' = rows /\ tail' = tail /\ up' = up /\ acking' = acking
        /\ serving' = serving /\ backlog' = Append(backlog, e) /\ up
        /\ status[e] = "new"
    BY DEF Connect, ledgerVars
  <1>2. ChainHolds' /\ ChainTop' /\ \A f \in Event : Written(f)' <=> Written(f)
    BY <1>1, ChainFrame DEF IInv, Moves, chainVars, Connect
  <1>3. /\ backlog' \in Seq(Event) /\ Len(backlog) \in Nat
        /\ Len(backlog') = Len(backlog) + 1
        /\ \A i \in 1..Len(backlog) : backlog'[i] = backlog[i]
        /\ backlog'[Len(backlog) + 1] = e
    BY <1>1, AppendProperties, LenProperties DEF IInv, TypeOK
  <1>4. \A i \in 1..Len(backlog') : i \in 1..Len(backlog) \/ i = Len(backlog) + 1
    BY <1>3
  <1>5. \A i \in 1..Len(backlog) : backlog[i] \in Event
    BY ElementOfSeq DEF IInv, TypeOK
  <1>6. /\ status' \in [Event -> Status] /\ status'[e] = "connected"
        /\ \A f \in Event : f # e => status'[f] = status[f]
    BY DEF IInv, TypeOK, Connect, SetStatus, Status
  <1>7. TypeOK'
    BY <1>1, <1>3, <1>6 DEF IInv, TypeOK, Connect, chainVars
  <1>8. serving # e /\ \A i \in 1..Len(backlog) : backlog[i] # e
    BY <1>1, WitnessAssumption DEF IInv, Sockets
  <1>9. Sockets'
    <2>1. \A i \in 1..Len(backlog') : backlog'[i] # serving' /\ status'[backlog'[i]] # "new"
      BY <1>1, <1>3, <1>4, <1>5, <1>6, <1>8 DEF IInv, Sockets
    <2>2. \A i, j \in 1..Len(backlog') : backlog'[i] = backlog'[j] => i = j
      BY <1>3, <1>4, <1>8 DEF IInv, Sockets
    <2>3. serving' # NoEvent => status'[serving'] # "new"
      BY <1>1, <1>6, <1>8 DEF IInv, Sockets, TypeOK
    <2>4. QED
      BY <2>1, <2>2, <2>3, <1>1, <1>2 DEF IInv, Sockets, TypeOK
  <1>10. Records'
    <2> SUFFICES ASSUME NEW f \in Event
                 PROVE  /\ status'[f] = "recorded" => Written(f)
                        /\ Written(f) => WrittenOnce(f)'
      BY <1>2 DEF Records
    <2>1. CASE f = e
      BY <2>1, <1>1, <1>6 DEF IInv, Records, WrittenOnce
    <2>2. CASE f # e
      <3>1. Queued(f)' => Queued(f)
        BY <2>2, <1>3, <1>4 DEF Queued
      <3>2. QED
        BY <2>2, <3>1, <1>1, <1>6 DEF IInv, Records, WrittenOnce
    <2>3. QED
      BY <2>1, <2>2
  <1>11. QED
    BY <1>2, <1>7, <1>9, <1>10 DEF IInv

\* The connection in _handle is let go, with or without an answer.
LEMMA LeaveStep ==
    ASSUME IInv, up, serving # NoEvent, NEW s \in Status,
           SetStatus(serving, s), s # "new", serving' = NoEvent, acking' = FALSE,
           Moves, UNCHANGED <<tail, up, backlog>>,
           IF s = "recorded" THEN Written(serving) ELSE ~Written(serving)
    PROVE  IInv'
  <1>1. rows' = rows /\ tail' = tail /\ up' = up /\ backlog' = backlog
    BY DEF Moves
  <1>2. /\ ChainHolds' /\ ChainTop' /\ \A f \in Event : Written(f)' <=> Written(f)
        /\ seq' \in Nat /\ skipped' \in Nat /\ prev_hash' \in Nat /\ hashed' \in Nat
    BY <1>1, ChainFrame DEF IInv
  <1>3. serving \in Event
    BY DEF IInv, TypeOK
  <1>4. /\ status' \in [Event -> Status] /\ status'[serving] = s
        /\ \A f \in Event : f # serving => status'[f] = status[f]
    BY <1>3 DEF IInv, TypeOK, SetStatus
  <1>5. TypeOK'
    BY <1>1, <1>2, <1>4 DEF IInv, TypeOK
  <1>6. \A i \in 1..Len(backlog) : backlog[i] \in Event
    BY ElementOfSeq DEF IInv, TypeOK
  <1>7. Sockets'
    BY <1>1, <1>4, <1>6, WitnessAssumption DEF IInv, Sockets
  <1>8. Records'
    <2> SUFFICES ASSUME NEW f \in Event
                 PROVE  /\ status'[f] = "recorded" => Written(f)
                        /\ Written(f) => WrittenOnce(f)'
      BY <1>2 DEF Records
    <2>1. Queued(f)' <=> Queued(f)
      BY <1>1 DEF Queued
    <2>2. CASE f = serving
      BY <2>1, <2>2, <1>3, <1>4, WitnessAssumption DEF IInv, Records, WrittenOnce
    <2>3. CASE f # serving
      BY <2>1, <2>3, <1>3, <1>4, WitnessAssumption DEF IInv, Records, WrittenOnce
    <2>4. QED
      BY <2>2, <2>3
  <1>9. QED
    BY <1>2, <1>5, <1>7, <1>8 DEF IInv

\* The event that is being read is not on record yet.
LEMMA ReadingIsNew ==
    ASSUME IInv, NEW e \in Event, Reading(e)
    PROVE  ~Written(e) /\ ~acking /\ up /\ serving = e /\ ~Queued(e)
  <1>1. serving = e /\ ~acking /\ up
    BY DEF Reading
  <1>2. ~Written(e)
    BY <1>1 DEF IInv, Records, WrittenOnce
  <1>3. ~Queued(e)
    BY <1>1 DEF IInv, Sockets, Queued
  <1>4. QED
    BY <1>1, <1>2, <1>3

LEMMA StartStep ==
    ASSUME IInv, Start
    PROVE  IInv'
  <1>1. /\ rows' = rows /\ tail' = tail /\ backlog' = backlog /\ serving' = serving
        /\ acking' = acking /\ hashed' = hashed /\ skipped' = skipped /\ status' = status /\ ~up /\ up'
        /\ prev_hash' = LastHash
        /\ seq' = IF rows = <<>> THEN 0 ELSE rows[Len(rows)].seq
    BY DEF Start, ledgerVars, socketVars
  <1>2. /\ LastHash \in Nat /\ seq' \in Nat /\ Len(rows) \in Nat
        /\ Len(rows) <= seq' /\ seq' <= Len(rows) + skipped
        /\ \A i \in 1..Len(rows) : rows[i].seq <= seq'
    <2>1. CASE rows = <<>>
      <3>1. Len(rows) = 0 /\ \A i : i \notin 1..0
        BY <2>1, EmptySeq
      <3>2. QED
        BY <2>1, <3>1, <1>1 DEF LastHash, Genesis, IInv, TypeOK
    <2>2. CASE rows # <<>>
      <3>1. Len(rows) \in Nat /\ Len(rows) \in 1..Len(rows)
        BY <2>2, EmptySeq DEF IInv, TypeOK
      <3>2. \A i \in 1..Len(rows) : rows[i] \in Row
        BY ElementOfSeq DEF IInv, TypeOK
      <3>3. /\ Len(rows) <= rows[Len(rows)].seq /\ rows[Len(rows)].seq <= Len(rows) + skipped
            /\ \A j \in 1..(Len(rows)-1) : rows[j].seq < rows[Len(rows)].seq
        BY <3>1 DEF IInv, ChainHolds
      <3>4. \A i \in 1..Len(rows) : i = Len(rows) \/ i \in 1..(Len(rows)-1)
        BY <3>1
      <3>5. seq' = rows[Len(rows)].seq /\ LastHash = rows[Len(rows)].row_hash
        BY <2>2, <1>1 DEF LastHash
      <3> DEFINE m == Len(rows)
      <3>6. \A i \in 1..m : rows[i].seq \in Nat /\ rows[i].row_hash \in Nat
        BY <3>2 DEF Row
      <3>7. \A i \in 1..m : rows[i].seq <= rows[m].seq
        BY <3>1, <3>3, <3>4, <3>6
      <3>8. QED
        BY <3>1, <3>3, <3>5, <3>6, <3>7
    <2>3. QED
      BY <2>1, <2>2
  <1>3. TypeOK'
    BY <1>1, <1>2 DEF IInv, TypeOK, Start
  <1>4. ChainHolds' /\ LastHash' = LastHash /\ \A f \in Event : Written(f)' <=> Written(f)
    BY <1>1 DEF IInv, ChainHolds, Linked, LastHash, Written
  <1>5. ChainTop'
    BY <1>1, <1>2, <1>4 DEF IInv, ChainTop
  <1>6. Sockets'
    BY <1>1, <1>4 DEF IInv, Sockets, TypeOK
  <1>7. Records'
    BY <1>1, <1>4 DEF IInv, Records, WrittenOnce, Queued
  <1>8. QED
    BY <1>3, <1>4, <1>5, <1>6, <1>7 DEF IInv

LEMMA RecordStep ==
    ASSUME IInv, NEW e \in Event, Record(e)
    PROVE  IInv'
  <1>1. /\ Reading(e) /\ Advance /\ rows' = Append(rows, NextRow(e)) /\ acking'
        /\ up' = up /\ backlog' = backlog /\ serving' = serving /\ status' = status
        /\ tail' \in LineEnd
    BY DEF Record, LineEnd
  <1>2. ~Written(e) /\ ~acking /\ up /\ serving = e /\ ~Queued(e)
    BY <1>1, ReadingIsNew
  <1>3. /\ rows' \in Seq(Row) /\ ChainHolds'
        /\ \A i \in 1..Len(rows') : rows'[i].row_hash <= hashed'
        /\ Len(rows') <= seq' /\ seq' <= Len(rows') + skipped'
        /\ \A i \in 1..Len(rows') : rows'[i].seq <= seq'
        /\ prev_hash' = LastHash'
        /\ \A f \in Event : Written(f)' <=> Written(f) \/ f = e
    BY <1>1, <1>2, AppendKeepsChain DEF IInv
  <1>4. TypeOK'
    BY <1>1, <1>3 DEF IInv, TypeOK, Advance, Record
  <1>5. ChainTop'
    BY <1>3 DEF ChainTop
  <1>6. Sockets'
    BY <1>1, <1>2, <1>3, WitnessAssumption DEF IInv, Sockets
  <1>7. Records'
    <2> SUFFICES ASSUME NEW f \in Event
                 PROVE  /\ status'[f] = "recorded" => Written(f)'
                        /\ Written(f)' => WrittenOnce(f)'
      BY DEF Records
    <2>1. Queued(f)' <=> Queued(f)
      BY <1>1 DEF Queued
    <2>2. CASE f = e
      BY <2>1, <2>2, <1>1, <1>2, <1>3 DEF Reading, HasSent, WrittenOnce
    <2>3. CASE f # e
      BY <2>1, <2>3, <1>1, <1>2, <1>3 DEF IInv, Records, WrittenOnce
    <2>4. QED
      BY <2>2, <2>3
  <1>8. QED
    BY <1>3, <1>4, <1>5, <1>6, <1>7 DEF IInv

LEMMA RecordFailsStep ==
    ASSUME IInv, NEW e \in Event, RecordFails(e)
    PROVE  IInv'
  <1>1. Reading(e) /\ Advance /\ Die({e})
    BY DEF RecordFails
  <1>2. ~Written(e) /\ ~acking /\ up /\ serving = e /\ HasSent(e)
    BY <1>1, ReadingIsNew DEF Reading
  <1>3. /\ seq' \in Nat /\ hashed' \in Nat /\ hashed' = hashed + 1 /\ prev_hash' \in Nat
        /\ skipped' \in Nat /\ skipped' = skipped
    BY <1>1 DEF IInv, TypeOK, Advance
  <1>4. \A f \in Event : Written(f) /\ status[f] = "sent" => f \in {e}
    BY <1>2 DEF IInv, Records, WrittenOnce
  <1>5. CASE rows' = Append(rows, NextRow(e)) /\ tail' \in LineEnd
    <2>1. /\ rows' \in Seq(Row) /\ ChainHolds'
          /\ \A i \in 1..Len(rows') : rows'[i].row_hash <= hashed'
          /\ \A f \in Event : Written(f)' <=> Written(f) \/ f = e
      BY <1>1, <1>2, <1>5, AppendKeepsChain DEF IInv
    <2>2. QED
      BY <1>1, <1>2, <1>3, <1>4, <1>5, <2>1, DieStep DEF IInv
  <1>6. CASE rows' = rows /\ tail' \in LineEnd
    <2>1. rows' \in Seq(Row) /\ ChainHolds' /\ \A f \in Event : Written(f)' <=> Written(f)
      BY <1>3, <1>6 DEF IInv, TypeOK, ChainHolds, Linked, Written
    <2>2. \A i \in 1..Len(rows') : rows'[i].row_hash <= hashed'
      <3>1. \A i \in 1..Len(rows) : rows[i] \in Row
        BY ElementOfSeq DEF IInv, TypeOK
      <3>2. QED
        BY <1>3, <1>6, <3>1 DEF IInv, TypeOK, ChainTop, Row
    <2>3. QED
      BY <1>1, <1>2, <1>3, <1>4, <1>6, <2>1, <2>2, DieStep DEF IInv
  <1>7. QED
    BY <1>5, <1>6 DEF RecordFails, LineEnd, ledgerVars, IInv, TypeOK

\* A death that leaves the file alone.
LEMMA PlainDeath ==
    ASSUME IInv, NEW wasRead, Die(wasRead), Moves, tail' = tail,
           acking => serving \in wasRead
    PROVE  IInv'
  <1>1. rows' = rows /\ hashed' = hashed /\ ~up'
    BY DieFacts DEF Moves, IInv
  <1>2. /\ ChainHolds' /\ \A f \in Event : Written(f)' <=> Written(f)
        /\ seq' \in Nat /\ skipped' \in Nat /\ prev_hash' \in Nat /\ hashed' \in Nat
    BY <1>1, ChainFrame DEF IInv
  <1>3. \A f \in Event : Written(f) /\ status[f] = "sent" => f \in wasRead
    BY DEF IInv, Records, WrittenOnce
  <1>4. QED
    BY <1>1, <1>2, <1>3, DieStep DEF IInv, TypeOK, ChainTop

LEMMA StepIInv == IInv /\ [Next]_vars => IInv'
  <1> SUFFICES ASSUME IInv, [Next]_vars PROVE IInv'
    OBVIOUS
  <1>1. ASSUME NEW e \in Event, Connect(e) PROVE IInv'
    BY <1>1, ConnectStep
  <1>2. ASSUME NEW e \in Event, Refused(e) PROVE IInv'
    BY <1>2, StatusStep DEF Refused, Status, Final
  <1>3. ASSUME NEW e \in Event, Send(e) PROVE IInv'
    <2>1. ~Written(e)
      BY <1>3 DEF Send, IInv, Records, WrittenOnce
    <2>2. QED
      BY <1>3, <2>1, StatusStep DEF Send, Status, Final
  <1>4. ASSUME NEW e \in Event, Timeout(e) PROVE IInv'
    BY <1>4, StatusStep DEF Timeout, Status, Final
  <1>5. CASE Start
    BY <1>5, StartStep
  <1>6. CASE Accept
    BY <1>6, AcceptStep
  <1>7. CASE GiveUp
    <2>1. SetStatus(serving, "connected") /\ serving \in Event
      BY <1>7 DEF GiveUp, SetStatus, IInv, TypeOK
    <2>2. ~Written(serving)
      BY <1>7, <2>1 DEF GiveUp, IInv, Records, WrittenOnce
    <2>3. acking' = FALSE
      BY <1>7 DEF GiveUp, IInv, TypeOK
    <2>4. QED
      BY <1>7, <2>1, <2>2, <2>3, LeaveStep DEF GiveUp, Status, Moves, ledgerVars, chainVars
  <1>8. ASSUME NEW e \in Event, Reject(e) \/ RejectNumbered(e) PROVE IInv'
    <2>1. ~Written(e) /\ ~acking /\ up /\ serving = e /\ e # NoEvent
      BY <1>8, ReadingIsNew DEF Reject, RejectNumbered, Reading
    <2>2. Reply(e, "rejected") /\ Moves /\ tail' = tail
      BY <1>8 DEF Reject, RejectNumbered, Moves, ledgerVars, chainVars
    <2>3. CASE status[e] = "sent"
      BY <2>1, <2>2, <2>3, LeaveStep DEF Reply, Status, Final
    <2>4. CASE status[e] # "sent"
      BY <2>1, <2>2, <2>4, PlainDeath DEF Reply
    <2>5. QED
      BY <2>3, <2>4
  <1>9. ASSUME NEW e \in Event, Record(e) PROVE IInv'
    BY <1>9, RecordStep
  <1>10. ASSUME NEW e \in Event, RecordFails(e) PROVE IInv'
    BY <1>10, RecordFailsStep
  <1>11. CASE Ack
    <2>1. /\ acking /\ up /\ serving # NoEvent /\ Written(serving)
          /\ Reply(serving, "recorded") /\ Moves /\ tail' = tail
      BY <1>11 DEF Ack, IInv, Sockets, Moves, ledgerVars, chainVars
    <2>2. CASE status[serving] = "sent"
      BY <2>1, <2>2, LeaveStep DEF Reply, Status, Final
    <2>3. CASE status[serving] # "sent"
      BY <2>1, <2>3, PlainDeath DEF Reply
    <2>4. QED
      BY <2>2, <2>3
  <1>12. CASE Crash
    <2>1. PICK wasRead \in {{serving}} \cup {none \in {{}} : ~acking} : Die(wasRead)
      BY <1>12 DEF Crash
    <2>2. acking => serving \in wasRead
      BY <2>1
    <2>3. QED
      BY <1>12, <2>1, <2>2, PlainDeath DEF Crash, Moves, ledgerVars, chainVars
  <1>13. CASE UNCHANGED vars
    <2>1. /\ rows' = rows /\ tail' = tail /\ up' = up /\ seq' = seq /\ prev_hash' = prev_hash
          /\ hashed' = hashed /\ skipped' = skipped /\ backlog' = backlog /\ serving' = serving /\ acking' = acking
          /\ status' = status
      BY <1>13 DEF vars, ledgerVars, chainVars, socketVars
    <2>2. ChainHolds' /\ ChainTop' /\ \A f \in Event : Written(f)' <=> Written(f)
      BY <2>1, ChainFrame DEF IInv, Moves
    <2>3. TypeOK'
      BY <2>1 DEF IInv, TypeOK
    <2>4. Sockets'
      BY <2>1, <2>2 DEF IInv, Sockets, TypeOK
    <2>5. Records'
      BY <2>1, <2>2 DEF IInv, Records, WrittenOnce, Queued
    <2>6. QED
      BY <2>2, <2>3, <2>4, <2>5 DEF IInv
  <1>14. QED
    BY <1>1, <1>2, <1>3, <1>4, <1>5, <1>6, <1>7, <1>8, <1>9, <1>10, <1>11, <1>12, <1>13
       DEF Next, Emit, Serve

\* The invariant of every behaviour.
THEOREM Invariant == Spec => []IInv
  BY InitIInv, StepIInv, PTL DEF Spec

\* The chain of record (pub_os_ledger.py) is linked and numbered upwards whatever
\* hooks, failures, kills and restarts did, and has no more gaps than events were
\* refused after they had got a number.
THEOREM Chain == Spec => []ChainHolds
  <1>1. IInv => ChainHolds
    BY DEF IInv
  <1>2. QED
    BY Invariant, <1>1, PTL

NoneSkipped == skipped = 0

\* Without an event that cannot be hashed no number is given to no row.
LEMMA NothingSkipped ==
    ASSUME Garbled = {}
    PROVE  Spec => []NoneSkipped
  <1>1. Init => NoneSkipped
    BY DEF Init, NoneSkipped
  <1>2. NoneSkipped /\ [Next]_vars => NoneSkipped'
    BY DEF NoneSkipped, Next, Emit, Serve, Connect, Refused, Send, Timeout, Start, Accept, GiveUp,
           Ack, Reject, RejectNumbered, Record, RecordFails, Crash, Advance, vars, chainVars
  <1>3. QED
    BY <1>1, <1>2, PTL DEF Spec

\* verify_chain accepts the file, as long as every event that is not refused for
\* its fields has a hash.
THEOREM ChainVerifies ==
    ASSUME Garbled = {}
    PROVE  Spec => []ChainIntact
  <1>1. IInv /\ NoneSkipped => ChainIntact
    <2> SUFFICES ASSUME IInv, skipped = 0, NEW i \in 1..Len(rows)
                 PROVE  rows[i].seq = i /\ Linked(i)
      BY DEF ChainIntact, NoneSkipped
    <2>1. rows[i] \in Row
      BY ElementOfSeq DEF IInv, TypeOK
    <2>2. Linked(i) /\ i <= rows[i].seq /\ rows[i].seq <= i + 0
      BY DEF IInv, ChainHolds
    <2>3. QED
      BY <2>1, <2>2 DEF Row
  <1>2. QED
    BY Invariant, NothingSkipped, <1>1, PTL

-----------------------------------------------------------------------------
(* The ledger implements the log *)

EventsOf(r) == [i \in 1..Len(r) |-> r[i].event]

AnswerOf(st) ==
    [e \in Event |-> CASE st[e] \in {"recorded", "rejected"} -> st[e]
                       [] st[e] \in {"unavailable", "error"} -> "lost"
                       [] OTHER -> "none"]

LEMMA EventsFacts ==
    ASSUME NEW r \in Seq(Row)
    PROVE  /\ EventsOf(r) \in Seq(Event) /\ Len(EventsOf(r)) = Len(r)
           /\ \A i \in 1..Len(r) : EventsOf(r)[i] = r[i].event
  <1>1. Len(r) \in Nat /\ \A i \in 1..Len(r) : r[i] \in Row
    BY LenProperties, ElementOfSeq
  <1>2. \A i \in 1..Len(r) : r[i].event \in Event
    BY <1>1 DEF Row
  <1>3. EventsOf(r) \in [1..Len(r) -> Event]
    BY <1>2 DEF EventsOf
  <1>4. EventsOf(r) \in Seq(Event)
    BY <1>1, <1>3, SeqDef
  <1>5. Len(EventsOf(r)) = Len(r)
    <2>1. DOMAIN EventsOf(r) = 1..Len(r)
      BY DEF EventsOf
    <2>2. QED
      BY <2>1, <1>1, <1>4, LenProperties
  <1>6. QED
    BY <1>4, <1>5 DEF EventsOf

LEMMA EventsAppend ==
    ASSUME NEW r \in Seq(Row), NEW x \in Row
    PROVE  EventsOf(Append(r, x)) = Append(EventsOf(r), x.event)
  <1> DEFINE s == Append(r, x)
             a == EventsOf(s)
             b == Append(EventsOf(r), x.event)
  <1>1. /\ s \in Seq(Row) /\ Len(s) = Len(r) + 1 /\ s[Len(r) + 1] = x
        /\ \A i \in 1..Len(r) : s[i] = r[i]
    BY AppendProperties
  <1>2. /\ EventsOf(r) \in Seq(Event) /\ Len(EventsOf(r)) = Len(r)
        /\ \A i \in 1..Len(r) : EventsOf(r)[i] = r[i].event
    BY EventsFacts
  <1>3. a \in Seq(Event) /\ Len(a) = Len(r) + 1
        /\ \A i \in 1..(Len(r) + 1) : a[i] = s[i].event
    BY <1>1, EventsFacts
  <1>4. x.event \in Event /\ Len(r) \in Nat
    BY LenProperties DEF Row
  <1>5. /\ b \in Seq(Event) /\ Len(b) = Len(r) + 1 /\ b[Len(r) + 1] = x.event
        /\ \A i \in 1..Len(r) : b[i] = EventsOf(r)[i]
    BY <1>2, <1>4, AppendProperties
  <1>6. \A i \in 1..(Len(r) + 1) : i \in 1..Len(r) \/ i = Len(r) + 1
    BY <1>4
  <1> HIDE DEF a, b, s
  <1>7. \A i \in 1..Len(a) : a[i] = b[i]
    BY <1>1, <1>2, <1>3, <1>5, <1>6
  <1>8. a = b
    BY <1>3, <1>5, <1>7, SeqEqual
  <1>9. QED
    BY <1>8 DEF a, b, s

\* On the mapped variables the actions of the log read as follows.
Loses == \A e \in Event : \/ AnswerOf(status)'[e] = AnswerOf(status)[e]
                          \/ AnswerOf(status)[e] = "none" /\ AnswerOf(status)'[e] = "lost"

Answers == {"none", "recorded", "rejected", "lost"}

LEMMA AnswerFacts ==
    ASSUME NEW st \in [Event -> Status]
    PROVE  /\ AnswerOf(st) \in [Event -> Answers]
           /\ \A e \in Event :
                /\ st[e] \in {"recorded", "rejected"} => AnswerOf(st)[e] = st[e]
                /\ st[e] \in {"unavailable", "error"} => AnswerOf(st)[e] = "lost"
                /\ st[e] \in {"new", "connected", "sent"} => AnswerOf(st)[e] = "none"
  BY DEF AnswerOf, Answers, Status, Final

LEMMA OnRecordIsWritten ==
    ASSUME TypeOK, NEW e \in Event
    PROVE  Log!OnRecord(e) <=> Written(e)
  <1>1. Log!OnRecord(e) <=> \E i \in 1..Len(EventsOf(rows)) : EventsOf(rows)[i] = e
    BY DEF Log!OnRecord, EventsOf
  <1>2. QED
    BY <1>1, EventsFacts DEF TypeOK, Written

LEMMA SightLostIsLoses ==
    ASSUME TypeOK, TypeOK', Loses
    PROVE  Log!SightLost
  <1>1. AnswerOf(status)' \in [Event -> Answers]
    BY AnswerFacts DEF TypeOK
  <1>2. QED
    BY <1>1 DEF Loses, Log!SightLost, AnswerOf, Told, Answers

\* A death takes answers away from hooks that had none.
LEMMA DieLoses ==
    ASSUME TypeOK, TypeOK', NEW wasRead, Die(wasRead)
    PROVE  Loses
  <1> SUFFICES ASSUME NEW e \in Event
               PROVE  \/ AnswerOf(status)'[e] = AnswerOf(status)[e]
                      \/ AnswerOf(status)[e] = "none" /\ AnswerOf(status)'[e] = "lost"
    BY DEF Loses
  <1>1. CASE status'[e] = status[e]
    BY <1>1 DEF AnswerOf
  <1>2. CASE status[e] = "sent" /\ status'[e] \in {"unavailable", "error"}
    BY <1>2, AnswerFacts DEF TypeOK
  <1>3. QED
    BY <1>1, <1>2, DieFacts

\* Steps that leave the file alone and at most take answers away.
LEMMA LosesStep ==
    ASSUME TypeOK, TypeOK', Loses, rows' = rows
    PROVE  [Log!LogNext]_(Log!logVars)
  BY SightLostIsLoses DEF Log!LogNext, Log!LoseSight

\* Steps of one hook.
LEMMA OneAnswer ==
    ASSUME TypeOK, NEW e \in Event, NEW s \in Status, SetStatus(e, s)
    PROVE  /\ AnswerOf(status)'[e] = CASE s \in {"recorded", "rejected"} -> s
                                       [] s \in {"unavailable", "error"} -> "lost"
                                       [] OTHER -> "none"
           /\ AnswerOf(status)' = [AnswerOf(status) EXCEPT ![e] = AnswerOf(status)'[e]]
           /\ \A f \in Event : f # e => AnswerOf(status)'[f] = AnswerOf(status)[f]
  <1>1. /\ status' \in [Event -> Status] /\ status'[e] = s
        /\ \A f \in Event : f # e => status'[f] = status[f]
    BY DEF TypeOK, SetStatus
  <1>2. QED
    BY <1>1 DEF AnswerOf

LEMMA OneLoses ==
    ASSUME TypeOK, NEW e \in Event, NEW s \in Status, SetStatus(e, s),
           status[e] \in {"new", "connected", "sent"},
           s \notin {"recorded", "rejected"}
    PROVE  Loses
  BY OneAnswer, AnswerFacts DEF Loses, TypeOK, Status, Final

LEMMA SameStatusLoses ==
    ASSUME status' = status
    PROVE  Loses
  BY DEF Loses, AnswerOf

\* A row is appended and answers are at most taken away.
LEMMA WriteStep ==
    ASSUME TypeOK, TypeOK', Loses, NEW e \in Event, ~Written(e), HasSent(e),
           rows' = Append(rows, NextRow(e))
    PROVE  Log!Write(e)
  <1>1. NextRow(e) \in Row /\ NextRow(e).event = e
    BY DEF TypeOK, NextRow, Row
  <1>2. EventsOf(rows)' = Append(EventsOf(rows), e)
    BY <1>1, EventsAppend DEF TypeOK
  <1>3. AnswerOf(status)[e] \notin {"recorded", "rejected"}
    BY AnswerFacts DEF TypeOK, HasSent
  <1>4. Log!SightLost
    BY SightLostIsLoses
  <1>5. ~Log!OnRecord(e)
    BY OnRecordIsWritten
  <1>6. QED
    BY <1>2, <1>3, <1>4, <1>5 DEF Log!Write, EventsOf, AnswerOf, Told

LEMMA StepIsLogStep == IInv /\ IInv' /\ [Next]_vars => [Log!LogNext]_(Log!logVars)
  <1> SUFFICES ASSUME IInv, IInv', [Next]_vars PROVE [Log!LogNext]_(Log!logVars)
    OBVIOUS
  <1>1. TypeOK /\ TypeOK'
    BY DEF IInv
  <1>2. ASSUME NEW e \in Event, Connect(e) PROVE Loses /\ rows' = rows
    BY <1>1, <1>2, OneLoses DEF Connect, ledgerVars, Status
  <1>3. ASSUME NEW e \in Event, Refused(e) PROVE Loses /\ rows' = rows
    BY <1>1, <1>3, OneLoses DEF Refused, ledgerVars, Status, Final
  <1>4. ASSUME NEW e \in Event, Send(e) PROVE Loses /\ rows' = rows
    BY <1>1, <1>4, OneLoses DEF Send, ledgerVars, Status, Final
  <1>5. ASSUME NEW e \in Event, Timeout(e) PROVE Loses /\ rows' = rows
    BY <1>1, <1>5, OneLoses DEF Timeout, ledgerVars, Status, Final
  <1>6. CASE Start \/ Accept \/ GiveUp
    <2>1. rows' = rows /\ status' = status
      BY <1>6 DEF Start, Accept, GiveUp, ledgerVars
    <2>2. QED
      BY <1>1, <2>1, SameStatusLoses, LosesStep
  <1>7. ASSUME NEW e \in Event, Reject(e) \/ RejectNumbered(e) PROVE [Log!LogNext]_(Log!logVars)
    <2>1. ~Written(e)
      BY <1>7, ReadingIsNew DEF Reject, RejectNumbered
    <2>2. rows' = rows /\ Reply(e, "rejected")
      BY <1>7 DEF Reject, RejectNumbered, ledgerVars
    <2>3. CASE status[e] = "sent"
      <3>1. SetStatus(e, "rejected")
        BY <2>2, <2>3 DEF Reply
      <3>2. /\ AnswerOf(status)' = [AnswerOf(status) EXCEPT ![e] = "rejected"]
            /\ AnswerOf(status)[e] = "none"
        BY <1>1, <2>3, <3>1, OneAnswer, AnswerFacts DEF TypeOK, Status, Final
      <3>3. Log!Reject(e)
        BY <1>1, <2>1, <2>2, <3>2, OnRecordIsWritten DEF Log!Reject, AnswerOf, Told
      <3>4. QED
        BY <3>3 DEF Log!LogNext
    <2>4. CASE status[e] # "sent"
      BY <1>1, <2>2, <2>4, DieLoses, LosesStep DEF Reply
    <2>5. QED
      BY <2>3, <2>4
  <1>8. ASSUME NEW e \in Event, Record(e) PROVE [Log!LogNext]_(Log!logVars)
    <2>1. ~Written(e) /\ HasSent(e)
      BY <1>8, ReadingIsNew DEF Record, Reading
    <2>2. Loses
      BY <1>8, SameStatusLoses DEF Record
    <2>3. Log!Write(e)
      BY <1>1, <1>8, <2>1, <2>2, WriteStep DEF Record
    <2>4. QED
      BY <2>3 DEF Log!LogNext
  <1>9. ASSUME NEW e \in Event, RecordFails(e) PROVE [Log!LogNext]_(Log!logVars)
    <2>1. ~Written(e) /\ HasSent(e)
      BY <1>9, ReadingIsNew DEF RecordFails, Reading
    <2>2. Loses
      BY <1>1, <1>9, DieLoses DEF RecordFails
    <2>3. CASE rows' = Append(rows, NextRow(e))
      <3>1. Log!Write(e)
        BY <1>1, <2>1, <2>2, <2>3, WriteStep
      <3>2. QED
        BY <3>1 DEF Log!LogNext
    <2>4. CASE rows' = rows
      BY <1>1, <2>2, <2>4, LosesStep
    <2>5. QED
      BY <1>9, <2>3, <2>4 DEF RecordFails, ledgerVars
  <1>10. CASE Ack
    <2>1. serving \in Event /\ Written(serving) /\ rows' = rows
      BY <1>10, <1>1 DEF Ack, IInv, Sockets, TypeOK, ledgerVars
    <2>2. PICK e \in Event : e = serving
      BY <2>1
    <2>3. CASE status[e] = "sent"
      <3>1. SetStatus(e, "recorded")
        BY <1>10, <2>2, <2>3 DEF Ack, Reply
      <3>2. /\ AnswerOf(status)' = [AnswerOf(status) EXCEPT ![e] = "recorded"]
            /\ AnswerOf(status)[e] = "none"
        BY <1>1, <2>3, <3>1, OneAnswer, AnswerFacts DEF TypeOK, Status, Final
      <3>3. Log!Acknowledge(e)
        BY <1>1, <2>1, <2>2, <3>2, OnRecordIsWritten DEF Log!Acknowledge, AnswerOf, Told
      <3>4. QED
        BY <3>3 DEF Log!LogNext
    <2>4. CASE status[e] # "sent"
      BY <1>1, <1>10, <2>1, <2>2, <2>4, DieLoses, LosesStep DEF Ack, Reply
    <2>5. QED
      BY <2>3, <2>4
  <1>11. CASE Crash
    BY <1>1, <1>11, DieLoses, LosesStep DEF Crash, ledgerVars
  <1>12. CASE UNCHANGED vars
    BY <1>1, <1>12, SameStatusLoses, LosesStep DEF vars, ledgerVars
  <1>13. QED
    BY <1>1, <1>2, <1>3, <1>4, <1>5, <1>6, <1>7, <1>8, <1>9, <1>10, <1>11, <1>12, LosesStep
       DEF Next, Emit, Serve

LEMMA InitIsLogInit == Init => Log!LogInit
  <1> SUFFICES ASSUME Init PROVE Log!LogInit
    OBVIOUS
  <1>1. rows = <<>> /\ \A e \in Event : status[e] = "new"
    BY DEF Init
  <1>2. EventsOf(rows) = <<>>
    <2>1. rows \in Seq(Row) /\ Len(rows) = 0
      BY <1>1, EmptySeq
    <2>2. QED
      BY <2>1, EventsFacts, EmptySeq
  <1>3. QED
    BY <1>1, <1>2 DEF Log!LogInit, EventsOf, Told

\* The supervisor and its emitters (record, _handle, emit_event) implement the
\* append-only log: no event twice, none removed, and "recorded" is the truth.
THEOREM LedgerIsALog == Spec => LogSpec
  BY Invariant, InitIsLogInit, StepIsLogStep, PTL DEF Spec, LogSpec, Log!LogSpec
=============================================================================
