---------------------------- MODULE PrisonProofs ----------------------------
(***************************************************************************)
(* Type correctness of the prison, that the warden acts on the record and  *)
(* that the agent sees a Mediation, for any number of streams and frames.  *)
(***************************************************************************)
EXTENDS Prison, TLAPS

InService(s) == serving = s /\ step \in {"reading", "ordered", "answering", "blocked"}

\* The core owes stream s the reply to the frame it has just judged.
Owing(s) == IF serving = s /\ step \in {"ordered", "answering"} THEN 1 ELSE 0

\* A reader is never ahead of its writer.
InStep(s) ==
    /\ delivered[s] <= Len(replies[s])
    /\ Len(replies[s]) <= Len(record[s])
    /\ Len(record[s]) <= forwarded[s]
    /\ forwarded[s] <= Len(sent[s])
    /\ InService(s) => Len(record[s]) = Len(replies[s]) + Owing(s)

\* The n-th verdict is about the n-th frame, and the n-th reply about both.
Paired(s) ==
    /\ \A n \in 1..Len(record[s]) : /\ sent[s][n] \in Request
                                    /\ record[s][n] = Verdict(sent[s][n])
    /\ \A n \in 1..Len(replies[s]) : replies[s][n] \in {AgentReply(record[s][n]), "oversized"}
    /\ \A n \in 1..delivered[s] : replies[s][n] # "oversized"
    /\ \A n \in 1..forwarded[s] : sent[s][n] # Malformed

\* What the core holds between two steps belongs to the stream it serves.
InHand ==
    /\ step \in {"reading", "ordered", "answering", "blocked"} => serving \in Stream
    /\ step = "ordered" =>
        /\ house = "mediate" /\ record[serving] # <<>>
        /\ record[serving][Len(record[serving])] = "PASS"
    /\ step = "answering" =>
        /\ record[serving] # <<>>
        /\ pending \in {AgentReply(record[serving][Len(record[serving])]), "oversized"}

\* The core's end of a stream tells how far the stream has come.
Place(s) ==
    /\ box[s] = "new" => core[s] = "none" /\ window[s] = "none"
    /\ core[s] \in {"none", "waiting"} => record[s] = <<>>
    /\ InService(s) => core[s] = "served"

Knocks(s) == box[s] # "new" /\ core[s] = "none" /\ window[s] = "none"

\* A stream waits in one line at most, and the core has judged none of those.
Lines ==
    /\ \A i \in 1..Len(knocking) : Knocks(knocking[i])
    /\ \A i, j \in 1..Len(knocking) : knocking[i] = knocking[j] => i = j
    /\ \A i \in 1..Len(backlog) : core[backlog[i]] = "waiting"
    /\ \A i, j \in 1..Len(backlog) : backlog[i] = backlog[j] => i = j
    /\ \A s \in Stream : Place(s)

Queues == \A s \in Stream : InStep(s) /\ Paired(s)

IInv == TypeOK /\ Lines /\ Queues /\ InHand /\ WardenActsOnRecord

-----------------------------------------------------------------------------
(* Sequences *)

LEMMA AppendFacts ==
    ASSUME NEW S, NEW q \in Seq(S), NEW e \in S
    PROVE  /\ Append(q, e) \in Seq(S) /\ Len(q) \in Nat
           /\ Len(Append(q, e)) = Len(q) + 1 /\ DOMAIN q = 1..Len(q)
           /\ \A n \in 1..Len(q) : Append(q, e)[n] = q[n]
           /\ Append(q, e)[Len(q) + 1] = e
           /\ Append(q, e) # <<>>
  OBVIOUS

\* Extending a sequence leaves its first elements as they were.
LEMMA PrefixKept ==
    ASSUME NEW S, NEW q \in Seq(S), NEW e \in S, NEW n \in Nat, n <= Len(q)
    PROVE  SubSeq(Append(q, e), 1, n) = SubSeq(q, 1, n)
  OBVIOUS

\* One more element of a sequence extends its prefix by that element.
LEMMA PrefixGrows ==
    ASSUME NEW S, NEW q \in Seq(S), NEW n \in Nat, n < Len(q)
    PROVE  /\ SubSeq(q, 1, n + 1) = Append(SubSeq(q, 1, n), q[n + 1])
           /\ Len(SubSeq(q, 1, n)) = n
  OBVIOUS

-----------------------------------------------------------------------------
(* Type correctness *)

LEMMA VerdictType ==
    ASSUME NEW r \in Request, house \in {"core", "mediate"}
    PROVE  Verdict(r) \in Disposition /\ AgentReply(Verdict(r)) \in {"ok", "deny"}
  BY RequestAssumption DEF Verdict, JudgeOperation, RequestType, Disposition, AgentReply

\* The frame the core reads is whole: the window has dropped what is malformed.
LEMMA NextFrame ==
    ASSUME IInv, NEW s \in Stream, Len(record[s]) < forwarded[s]
    PROVE  /\ Len(record[s]) + 1 \in 1..Len(sent[s])
           /\ sent[s][Len(record[s]) + 1] \in Request \cup {Junk}
  BY DEF IInv, TypeOK, Queues, InStep, Paired, Frame

LEMMA TypeInit == Init => TypeOK
  BY DEF Init, TypeOK

LEMMA TypeOutside ==
    ASSUME TypeOK, NEW s \in Stream,
           \/ Connect(s) \/ Close(s) \/ Seal(s) \/ PumpIn(s) \/ PumpOut(s)
           \/ \E f \in Frame : Send(s, f)
    PROVE  TypeOK'
  <1> USE DEF TypeOK, boxVars, windowVars, coreVars
  <1>1. CASE Connect(s)
    <2>1. knocking' \in Seq(Stream)
      BY <1>1, AppendFacts DEF Connect
    <2>2. QED
      BY <1>1, <2>1 DEF Connect
  <1>2. CASE Close(s) \/ Seal(s)
    BY <1>2 DEF Close, Seal
  <1>3. CASE PumpIn(s) \/ PumpOut(s)
    <2>1. /\ pumps' \in [Stream -> SUBSET {"in", "out"}]
          /\ forwarded' \in [Stream -> Nat] /\ delivered' \in [Stream -> Nat]
      <3>1. \/ \E pump : Stops(s, pump)
            \/ /\ forwarded' = [forwarded EXCEPT ![s] = @ + 1]
               /\ UNCHANGED <<pumps, delivered>>
            \/ /\ delivered' = [delivered EXCEPT ![s] = @ + 1]
               /\ UNCHANGED <<pumps, forwarded>>
        BY <1>3 DEF PumpIn, PumpOut
      <3>2. CASE \E pump : Stops(s, pump)
        BY <3>2 DEF Stops
      <3>3. CASE forwarded' = [forwarded EXCEPT ![s] = @ + 1] /\ UNCHANGED <<pumps, delivered>>
        <4>1. [forwarded EXCEPT ![s] = @ + 1] \in [Stream -> Nat]
          BY DEF TypeOK
        <4>2. pumps' = pumps /\ delivered' = delivered
          BY <3>3
        <4>3. QED
          BY <3>3, <4>1, <4>2
      <3>4. CASE delivered' = [delivered EXCEPT ![s] = @ + 1] /\ UNCHANGED <<pumps, forwarded>>
        <4>1. [delivered EXCEPT ![s] = @ + 1] \in [Stream -> Nat]
          BY DEF TypeOK
        <4>2. pumps' = pumps /\ forwarded' = forwarded
          BY <3>4
        <4>3. QED
          BY <3>4, <4>1, <4>2
      <3>5. QED
        BY <3>1, <3>2, <3>3, <3>4
    <2>2. UNCHANGED <<house, listening, boxVars, knocking, window, backlog, coreVars>>
      BY <1>3 DEF PumpIn, PumpOut
    <2>3. QED
      BY <2>1, <2>2
  <1>5. CASE \E f \in Frame : Send(s, f)
    <2>1. sent' \in [Stream -> Seq(Frame)]
      BY <1>5, AppendFacts DEF Send
    <2>2. UNCHANGED <<house, listening, box, windowVars, backlog, coreVars>>
      BY <1>5 DEF Send
    <2>3. QED
      BY <2>1, <2>2
  <1>6. QED
    BY <1>1, <1>2, <1>3, <1>5

LEMMA TypeAdmit == ASSUME TypeOK, Admit PROVE TypeOK'
  <1> USE DEF TypeOK
  <1>1. Head(knocking) \in Stream /\ Tail(knocking) \in Seq(Stream)
    BY DEF Admit
  <1>2. backlog' \in Seq(Stream)
    <2>1. Append(backlog, Head(knocking)) \in Seq(Stream)
      BY <1>1, AppendFacts
    <2>2. backlog' = backlog \/ backlog' = Append(backlog, Head(knocking))
      BY DEF Admit
    <2>3. QED
      BY <2>1, <2>2
  <1>3. window' \in [Stream -> {"none", "relaying", "sealed"}]
    BY <1>1 DEF Admit
  <1>4. pumps' \in [Stream -> SUBSET {"in", "out"}]
    BY <1>1 DEF Admit
  <1>5. QED
    BY <1>1, <1>2, <1>3, <1>4 DEF Admit, boxVars

LEMMA TypeServe ==
    ASSUME IInv, TypeOK, NEW s \in Stream, Accept \/ Judge(s) \/ Execute(s) \/ Reply(s) \/ Ended(s)
    PROVE  TypeOK'
  <1> USE DEF TypeOK, boxVars, windowVars
  <1>1. CASE Accept
    <2>1. Head(backlog) \in Stream /\ Tail(backlog) \in Seq(Stream)
      BY <1>1 DEF Accept
    <2>2. QED
      BY <1>1, <2>1 DEF Accept
  <1>2. CASE Judge(s)
    <2> DEFINE f == sent[s][Len(record[s]) + 1]
    <2>1. CASE f = Junk
      BY <1>2, <2>1 DEF Judge, HangUp
    <2>2. CASE f # Junk
      <3>1. Verdict(f) \in Disposition /\ AgentReply(Verdict(f)) \in {"ok", "deny"}
        BY <1>2, <2>2, NextFrame, VerdictType DEF Judge
      <3>2. record' \in [Stream -> Seq(Disposition)]
        <4>1. Append(record[s], Verdict(f)) \in Seq(Disposition)
          BY <3>1, AppendFacts
        <4>2. record' = [record EXCEPT ![s] = Append(record[s], Verdict(f))]
          BY <1>2, <2>2 DEF Judge
        <4>3. QED
          BY <4>1, <4>2
      <3>3. step' \in {"ordered", "answering"} /\ pending' \in {pending, AgentReply(Verdict(f))}
        BY <1>2, <2>2 DEF Judge
      <3>4. UNCHANGED <<house, listening, boxVars, windowVars, backlog, acted, replies, core, serving>>
        BY <1>2, <2>2 DEF Judge
      <3>5. QED
        BY <3>1, <3>2, <3>3, <3>4
    <2>3. QED
      BY <2>1, <2>2
  <1>3. CASE Execute(s)
    <2>1. acted' \in [Stream -> Seq(Nat)]
      <3>1. Len(record[s]) \in Nat
        OBVIOUS
      <3>2. QED
        BY <1>3, <3>1 DEF Execute
    <2>2. QED
      BY <1>3, <2>1 DEF Execute
  <1>4. CASE Reply(s)
    <2>1. pending \in {"ok", "deny", "oversized"}
      BY <1>4 DEF Reply, IInv, InHand, AgentReply
    <2>2. replies' \in [Stream -> Seq({"ok", "deny", "oversized"})]
      <3>1. Append(replies[s], pending) \in Seq({"ok", "deny", "oversized"})
        BY <2>1, AppendFacts
      <3>2. replies' = replies \/ replies' = [replies EXCEPT ![s] = Append(replies[s], pending)]
        BY <1>4 DEF Reply
      <3>3. QED
        BY <3>1, <3>2
    <2>3. QED
      BY <1>4, <2>2 DEF Reply, HangUp
  <1>5. CASE Ended(s)
    BY <1>5 DEF Ended, HangUp
  <1>6. QED
    BY <1>1, <1>2, <1>3, <1>4, <1>5

LEMMA TypeStep == ASSUME IInv, [Next]_vars PROVE TypeOK'
  <1>1. TypeOK
    BY DEF IInv
  <1>2. CASE UNCHANGED vars
    BY <1>1, <1>2 DEF TypeOK, vars, boxVars, windowVars, coreVars
  <1>3. CASE Accept
    <2>1. Head(backlog) \in Stream
      BY <1>1, <1>3 DEF Accept, TypeOK
    <2>2. QED
      BY <1>1, <1>3, <2>1, TypeServe
  <1>4. QED
    BY <1>1, <1>2, <1>3, TypeOutside, TypeAdmit, TypeServe DEF Next, Serve

-----------------------------------------------------------------------------
(* The invariant *)

LEMMA InvInit == Init => IInv
  <1> SUFFICES ASSUME Init PROVE IInv
    OBVIOUS
  <1>1. TypeOK
    BY TypeInit
  <1>2. Queues /\ InHand
    BY DEF Init, Queues, InStep, Paired, InHand, Owing, InService
  <1>3. WardenActsOnRecord
    BY DEF Init, WardenActsOnRecord, Range, Ordered
  <1>4. Lines
    BY DEF Init, Lines, Knocks, Place, InService
  <1>5. QED
    BY <1>1, <1>2, <1>3, <1>4 DEF IInv

LEMMA Lengths ==
    ASSUME TypeOK, NEW s \in Stream
    PROVE  /\ Len(sent[s]) \in Nat /\ Len(record[s]) \in Nat /\ Len(replies[s]) \in Nat
           /\ forwarded[s] \in Nat /\ delivered[s] \in Nat
  BY DEF TypeOK

\* Writing at one end of a queue, or reading on, keeps the stream paired.
LEMMA StillPaired ==
    ASSUME TypeOK, NEW s \in Stream, InStep(s), Paired(s), house' = house,
           record'[s] = record[s], replies'[s] = replies[s],
           Len(sent'[s]) \in Nat, Len(sent'[s]) >= Len(sent[s]),
           \A n \in 1..Len(sent[s]) : sent'[s][n] = sent[s][n],
           \/ forwarded'[s] = forwarded[s]
           \/ /\ forwarded[s] < Len(sent[s]) /\ sent[s][forwarded[s] + 1] # Malformed
              /\ forwarded'[s] = forwarded[s] + 1,
           \/ delivered'[s] = delivered[s]
           \/ /\ delivered[s] < Len(replies[s]) /\ replies[s][delivered[s] + 1] # "oversized"
              /\ delivered'[s] = delivered[s] + 1,
           InService(s)' => Len(record[s]) = Len(replies[s]) + Owing(s)'
    PROVE  InStep(s)' /\ Paired(s)'
  <1>1. /\ Len(sent[s]) \in Nat /\ Len(record[s]) \in Nat /\ Len(replies[s]) \in Nat
        /\ forwarded[s] \in Nat /\ delivered[s] \in Nat
    BY Lengths
  <1>2. InStep(s)'
    BY <1>1 DEF InStep
  <1>3. \A n \in 1..forwarded'[s] : sent'[s][n] # Malformed
    <2>1. ASSUME NEW n \in 1..forwarded'[s]
          PROVE  n \in 1..Len(sent[s]) /\ (n \in 1..forwarded[s] \/ n = forwarded[s] + 1)
      BY <1>1 DEF InStep
    <2>2. \A n \in 1..forwarded[s] : sent[s][n] # Malformed
      BY DEF Paired
    <2>3. ASSUME NEW n \in 1..forwarded'[s], n \notin 1..forwarded[s]
          PROVE  sent[s][n] # Malformed
      BY <1>1, <2>1, <2>3
    <2>4. QED
      BY <2>1, <2>2, <2>3
  <1>4. \A n \in 1..delivered'[s] : replies'[s][n] # "oversized"
    BY <1>1 DEF InStep, Paired
  <1>5. (\A n \in 1..Len(record[s]) : /\ sent[s][n] \in Request
                                     /\ record[s][n] = Verdict(sent[s][n]))'
    <2>1. ASSUME NEW n \in 1..Len(record[s])
          PROVE  sent'[s][n] = sent[s][n] /\ n \in 1..Len(sent[s])
      BY <1>1 DEF InStep
    <2>2. QED
      BY <1>1, <2>1 DEF Paired, Verdict
  <1>6. \A n \in 1..Len(replies'[s]) :
            replies'[s][n] \in {AgentReply(record'[s][n]), "oversized"}
    BY <1>1 DEF InStep, Paired
  <1>7. QED
    BY <1>2, <1>3, <1>4, <1>5, <1>6 DEF Paired

\* Nothing changes what the core holds or has done.
LEMMA InvOutside ==
    ASSUME IInv, TypeOK', Lines',
           UNCHANGED <<house, step, serving, pending, record, acted, replies>>,
           \A s \in Stream : InStep(s)' /\ Paired(s)'
    PROVE  IInv'
  <1>1. Queues' /\ InHand'
    BY DEF IInv, Queues, InHand
  <1>2. WardenActsOnRecord'
    BY DEF IInv, WardenActsOnRecord, Ordered
  <1>3. QED
    BY <1>1, <1>2 DEF IInv

LEMMA InvSend ==
    ASSUME IInv, TypeOK', NEW s \in Stream, NEW f \in Frame, Send(s, f)
    PROVE  IInv'
  <1>1. UNCHANGED <<house, listening, box, knocking, window, pumps, forwarded, delivered,
                    backlog, core, step, serving, pending, record, acted, replies>>
    BY DEF Send, windowVars, coreVars
  <1>2. Lines'
    BY <1>1 DEF IInv, Lines, Knocks, Place, InService
  <1>3. ASSUME NEW t \in Stream PROVE InStep(t)' /\ Paired(t)'
    <2>1. /\ Len(sent'[t]) \in Nat /\ Len(sent'[t]) >= Len(sent[t])
          /\ \A n \in 1..Len(sent[t]) : sent'[t][n] = sent[t][n]
      <3>1. sent[t] \in Seq(Frame) /\ (sent'[t] = sent[t] \/ sent'[t] = Append(sent[t], f))
        BY DEF Send, TypeOK, IInv
      <3>2. QED
        BY <3>1, AppendFacts
    <2>2. InStep(t) /\ Paired(t) /\ TypeOK
      BY DEF IInv, Queues
    <2>3. InService(t)' => Len(record[t]) = Len(replies[t]) + Owing(t)'
      BY <1>1, <2>2 DEF InStep, Owing, InService
    <2>4. QED
      BY <1>1, <2>1, <2>2, <2>3, StillPaired
  <1>4. QED
    BY <1>1, <1>2, <1>3, InvOutside

LEMMA InvPump ==
    ASSUME IInv, TypeOK', NEW s \in Stream, PumpIn(s) \/ PumpOut(s)
    PROVE  IInv'
  <1>1. UNCHANGED <<house, listening, box, sent, knocking, window, backlog, core, step,
                    serving, pending, record, acted, replies>>
    BY DEF PumpIn, PumpOut, boxVars, coreVars
  <1>2. Lines'
    BY <1>1 DEF IInv, Lines, Knocks, Place, InService
  <1>3. \/ UNCHANGED <<forwarded, delivered>>
        \/ /\ forwarded[s] < Len(sent[s]) /\ sent[s][forwarded[s] + 1] # Malformed
           /\ forwarded' = [forwarded EXCEPT ![s] = @ + 1] /\ UNCHANGED delivered
        \/ /\ delivered[s] < Len(replies[s]) /\ replies[s][delivered[s] + 1] # "oversized"
           /\ delivered' = [delivered EXCEPT ![s] = @ + 1] /\ UNCHANGED forwarded
    BY DEF PumpIn, PumpOut, Stops
  <1>4. ASSUME NEW t \in Stream PROVE InStep(t)' /\ Paired(t)'
    <2>1. InStep(t) /\ Paired(t) /\ TypeOK
      BY DEF IInv, Queues
    <2>7. forwarded \in [Stream -> Nat] /\ delivered \in [Stream -> Nat]
      BY <2>1 DEF TypeOK
    <2>2. \/ forwarded'[t] = forwarded[t]
          \/ /\ forwarded[t] < Len(sent[t]) /\ sent[t][forwarded[t] + 1] # Malformed
             /\ forwarded'[t] = forwarded[t] + 1
      BY <1>3, <2>7
    <2>3. \/ delivered'[t] = delivered[t]
          \/ /\ delivered[t] < Len(replies[t]) /\ replies[t][delivered[t] + 1] # "oversized"
             /\ delivered'[t] = delivered[t] + 1
      BY <1>3, <2>7
    <2>4. InService(t)' => Len(record[t]) = Len(replies[t]) + Owing(t)'
      BY <1>1, <2>1 DEF InStep, Owing, InService
    <2>5. Len(sent'[t]) \in Nat /\ Len(sent'[t]) >= Len(sent[t])
      BY <1>1, <2>1, Lengths
    <2>6. QED
      BY <1>1, <2>1, <2>2, <2>3, <2>4, <2>5, StillPaired
  <1>5. QED
    BY <1>1, <1>2, <1>4, InvOutside

\* The other steps outside the core move no frame.
LEMMA InvOpenClose ==
    ASSUME IInv, TypeOK', Lines',
           UNCHANGED <<house, sent, forwarded, delivered, step, serving, pending, record,
                       acted, replies>>
    PROVE  IInv'
  <1>1. ASSUME NEW t \in Stream PROVE InStep(t)' /\ Paired(t)'
    <2>1. InStep(t) /\ Paired(t)
      BY DEF IInv, Queues
    <2>2. InStep(t)'
      BY <2>1 DEF InStep, Owing, InService
    <2>3. Paired(t)'
      BY <2>1 DEF Paired, Verdict
    <2>4. QED
      BY <2>2, <2>3
  <1>2. QED
    BY <1>1, InvOutside

LEMMA InvConnect ==
    ASSUME IInv, TypeOK', NEW s \in Stream, Connect(s)
    PROVE  IInv'
  <1>1. UNCHANGED <<house, sent, window, forwarded, delivered, backlog, core, step, serving, pending,
                    record, acted, replies>>
    BY DEF Connect, coreVars
  <1>2. /\ knocking \in Seq(Stream) /\ knocking' = Append(knocking, s)
        /\ box[s] = "new" /\ box' = [box EXCEPT ![s] = "open"]
        /\ box \in [Stream -> {"new", "open", "closed"}]
    BY DEF Connect, IInv, TypeOK
  <1>3. /\ Len(knocking) \in Nat /\ Len(knocking') = Len(knocking) + 1
        /\ \A n \in 1..Len(knocking) : knocking'[n] = knocking[n]
        /\ knocking'[Len(knocking) + 1] = s
        /\ \A n \in 1..Len(knocking) : knocking[n] \in Stream
    BY <1>2, AppendFacts
  <1>4. (\A i \in 1..Len(knocking) : Knocks(knocking[i]))'
    <2>1. core[s] = "none" /\ window[s] = "none"
      BY <1>2 DEF IInv, Lines, Place
    <2>2. box'[s] = "open" /\ \A t \in Stream \ {s} : box'[t] = box[t]
      BY <1>2
    <2>3. ASSUME NEW i \in 1..Len(knocking')
          PROVE  Knocks(knocking[i])'
      <3>1. CASE i \in 1..Len(knocking)
        BY <1>1, <1>3, <2>2, <3>1 DEF IInv, Lines, Knocks
      <3>2. CASE i = Len(knocking) + 1
        BY <1>1, <1>3, <2>1, <2>2, <3>2 DEF Knocks
      <3>3. QED
        BY <1>3, <3>1, <3>2
    <2>4. QED
      BY <1>1, <2>3
  <1>5. (\A i, j \in 1..Len(knocking) : knocking[i] = knocking[j] => i = j)'
    <2>1. \A i \in 1..Len(knocking) : knocking[i] # s
      BY <1>2 DEF IInv, Lines, Knocks
    <2>2. QED
      BY <1>3, <2>1 DEF IInv, Lines
  <1>6. \A t \in Stream : Place(t)'
    BY <1>1, <1>2 DEF IInv, Lines, Knocks, Place, InService
  <1>7. Lines'
    BY <1>1, <1>4, <1>5, <1>6 DEF IInv, Lines
  <1>8. QED
    BY <1>1, <1>7, InvOpenClose

LEMMA InvAdmit ==
    ASSUME IInv, TypeOK', Admit
    PROVE  IInv'
  <1>13. Head(knocking) \in Stream
    BY DEF Admit, IInv, TypeOK
  <1>14. PICK s \in Stream : s = Head(knocking)
    BY <1>13
  <1>1. UNCHANGED <<house, listening, box, sent, forwarded, delivered, step, serving, pending,
                    record, acted, replies>>
    BY DEF Admit, boxVars
  <1>2. /\ knocking \in Seq(Stream) /\ knocking # <<>> /\ knocking' = Tail(knocking)
        /\ backlog \in Seq(Stream)
        /\ core \in [Stream -> {"none", "waiting", "served", "closed"}]
    BY DEF Admit, IInv, TypeOK
  <1>3. /\ s = knocking[1] /\ s \in Stream /\ Len(knocking) \in Nat \ {0}
        /\ Len(knocking') = Len(knocking) - 1
        /\ \A n \in 1..Len(knocking') : knocking'[n] = knocking[n + 1]
        /\ \A n \in 1..Len(knocking) : knocking[n] \in Stream
    BY <1>2, <1>14
  <1>4. \/ UNCHANGED <<backlog, core>>
        \/ backlog' = Append(backlog, s) /\ core' = [core EXCEPT ![s] = "waiting"]
    BY <1>14 DEF Admit
  <1>5. /\ core[s] = "none" /\ box[s] # "new"
        /\ \A n \in 1..Len(knocking') : knocking'[n] # s
    BY <1>3 DEF IInv, Lines, Knocks
  <1>15. \A t \in Stream \ {s} : window'[t] = window[t]
    BY <1>14 DEF Admit, IInv, TypeOK
  <1>6. core'[s] \in {"none", "waiting"} /\ \A t \in Stream \ {s} : core'[t] = core[t]
    BY <1>2, <1>4, <1>5
  <1>7. (\A i \in 1..Len(knocking) : Knocks(knocking[i]))'
    BY <1>1, <1>3, <1>5, <1>6, <1>15 DEF IInv, Lines, Knocks
  <1>8. (\A i, j \in 1..Len(knocking) : knocking[i] = knocking[j] => i = j)'
    <2>1. \A i \in 1..Len(knocking') : i + 1 \in 1..Len(knocking)
      BY <1>3
    <2>2. ASSUME NEW i \in 1..Len(knocking'), NEW j \in 1..Len(knocking'),
                 knocking'[i] = knocking'[j]
          PROVE  i = j
      <3>1. i + 1 = j + 1
        BY <1>3, <2>1, <2>2 DEF IInv, Lines
      <3>2. QED
        BY <3>1
    <2>3. QED
      BY <2>2
  <1>9. /\ (\A i \in 1..Len(backlog) : core[backlog[i]] = "waiting")'
        /\ (\A i, j \in 1..Len(backlog) : backlog[i] = backlog[j] => i = j)'
    <2>1. CASE UNCHANGED <<backlog, core>>
      BY <2>1 DEF IInv, Lines
    <2>2. CASE backlog' = Append(backlog, s) /\ core' = [core EXCEPT ![s] = "waiting"]
      <3>1. /\ Len(backlog) \in Nat /\ Len(backlog') = Len(backlog) + 1
            /\ \A n \in 1..Len(backlog) : backlog'[n] = backlog[n] /\ backlog[n] \in Stream
            /\ backlog'[Len(backlog) + 1] = s
        BY <1>2, <1>3, <2>2, AppendFacts
      <3>2. \A n \in 1..Len(backlog) : backlog[n] # s
        BY <1>5 DEF IInv, Lines
      <3>3. core'[s] = "waiting"
        BY <1>2, <1>3, <2>2
      <3>4. QED
        BY <1>6, <3>1, <3>2, <3>3 DEF IInv, Lines
    <2>3. QED
      BY <1>4, <2>1, <2>2
  <1>10. \A t \in Stream : Place(t)'
    <2>1. Place(s)'
      <3>1. Place(s) /\ core[s] = "none"
        BY <1>3, <1>5 DEF IInv, Lines
      <3>2. QED
        BY <1>1, <1>5, <1>6, <3>1 DEF Place, InService
    <2>2. ASSUME NEW t \in Stream \ {s} PROVE Place(t)'
      <3>1. Place(t) /\ core'[t] = core[t] /\ window'[t] = window[t]
        BY <1>6, <1>15 DEF IInv, Lines
      <3>2. QED
        BY <1>1, <3>1 DEF Place, InService
    <2>3. QED
      BY <2>1, <2>2
  <1>11. Lines'
    BY <1>7, <1>8, <1>9, <1>10 DEF Lines
  <1>12. QED
    BY <1>1, <1>11, InvOpenClose

LEMMA InvEnd ==
    ASSUME IInv, TypeOK', NEW s \in Stream, Close(s) \/ Seal(s)
    PROVE  IInv'
  <1>1. UNCHANGED <<house, sent, knocking, forwarded, delivered, backlog, core, step, serving,
                    pending, record, acted, replies>>
    BY DEF Close, Seal, boxVars, windowVars, coreVars
  <1>2. \A t \in Stream : /\ box'[t] = "new" <=> box[t] = "new"
                          /\ window'[t] = "none" <=> window[t] = "none"
    BY DEF Close, Seal, boxVars, windowVars, IInv, TypeOK
  <1>3. Lines'
    <2>1. knocking \in Seq(Stream)
      BY DEF IInv, TypeOK
    <2>2. \A i \in 1..Len(knocking) : knocking[i] \in Stream
      BY <2>1
    <2>3. \A i \in 1..Len(knocking) : Knocks(knocking[i])'
      BY <1>1, <1>2, <2>2 DEF IInv, Lines, Knocks
    <2>4. \A t \in Stream : Place(t)'
      BY <1>1, <1>2 DEF IInv, Lines, Place, InService
    <2>5. QED
      BY <1>1, <2>3, <2>4 DEF IInv, Lines
  <1>4. QED
    BY <1>1, <1>3, InvOpenClose

\* The core turns to another stream, or to none.
LEMMA InvTurn ==
    ASSUME IInv, TypeOK', Lines',
           UNCHANGED <<house, sent, forwarded, delivered, record, acted, replies>>,
           step' \in {"idle", "reading"}, step # "ordered",
           step' = "reading" => /\ serving' \in Stream
                                /\ Len(record[serving']) = Len(replies[serving'])
    PROVE  IInv'
  <1>1. ASSUME NEW t \in Stream PROVE InStep(t)' /\ Paired(t)'
    <2>1. InStep(t) /\ Paired(t) /\ TypeOK
      BY DEF IInv, Queues
    <2>2. Owing(t)' = 0
      BY DEF Owing
    <2>3. InService(t)' => Len(record[t]) = Len(replies[t])
      BY DEF InService
    <2>4. Len(replies[t]) \in Nat
      BY <2>1, Lengths
    <2>5. InStep(t)'
      BY <2>1, <2>2, <2>3, <2>4 DEF InStep
    <2>6. Paired(t)'
      BY <2>1 DEF Paired, Verdict
    <2>7. QED
      BY <2>5, <2>6
  <1>2. InHand'
    BY DEF InHand
  <1>3. WardenActsOnRecord'
    BY DEF IInv, WardenActsOnRecord, Ordered
  <1>4. QED
    BY <1>1, <1>2, <1>3 DEF IInv, Queues

LEMMA InvAccept ==
    ASSUME IInv, TypeOK', Accept
    PROVE  IInv'
  <1> DEFINE s == Head(backlog)
  <1>1. /\ UNCHANGED <<house, box, sent, window, knocking, forwarded, delivered, record, acted, replies>>
        /\ step = "idle" /\ step' = "reading" /\ serving' = s
    BY DEF Accept, boxVars, windowVars
  <1>2. /\ backlog \in Seq(Stream) /\ backlog # <<>> /\ backlog' = Tail(backlog)
        /\ core \in [Stream -> {"none", "waiting", "served", "closed"}]
        /\ core' = [core EXCEPT ![s] = "served"]
        /\ knocking \in Seq(Stream)
    BY DEF Accept, IInv, TypeOK
  <1>3. /\ s = backlog[1] /\ s \in Stream /\ Len(backlog) \in Nat \ {0}
        /\ Len(backlog') = Len(backlog) - 1
        /\ \A n \in 1..Len(backlog') : backlog'[n] = backlog[n + 1] /\ backlog'[n] \in Stream
        /\ \A n \in 1..Len(knocking) : knocking[n] \in Stream
    BY <1>2
  <1>4. core[s] = "waiting" /\ core'[s] = "served" /\ \A t \in Stream \ {s} : core'[t] = core[t]
    BY <1>2, <1>3 DEF IInv, Lines
  <1>5. \A n \in 1..Len(backlog') : n + 1 \in 1..Len(backlog) /\ n + 1 # 1
    BY <1>3
  <1>6. (\A i \in 1..Len(backlog) : core[backlog[i]] = "waiting")'
    BY <1>3, <1>4, <1>5 DEF IInv, Lines
  <1>7. (\A i, j \in 1..Len(backlog) : backlog[i] = backlog[j] => i = j)'
    <2>1. ASSUME NEW i \in 1..Len(backlog'), NEW j \in 1..Len(backlog'),
                 backlog'[i] = backlog'[j]
          PROVE  i = j
      <3>1. i + 1 = j + 1
        BY <1>3, <1>5, <2>1 DEF IInv, Lines
      <3>2. QED
        BY <3>1
    <2>2. QED
      BY <2>1
  <1>8. (\A i \in 1..Len(knocking) : Knocks(knocking[i]))'
    BY <1>1, <1>3, <1>4 DEF IInv, Lines, Knocks
  <1>9. \A t \in Stream : Place(t)'
    BY <1>1, <1>3, <1>4 DEF IInv, Lines, Knocks, Place, InService
  <1>10. Lines'
    BY <1>1, <1>6, <1>7, <1>8, <1>9 DEF IInv, Lines
  <1>11. Len(record[s]) = Len(replies[s])
    <2>1. record[s] = <<>> /\ InStep(s) /\ TypeOK
      BY <1>3, <1>4 DEF IInv, Lines, Place, Queues
    <2>2. Len(replies[s]) \in Nat /\ Len(record[s]) = 0
      BY <1>3, <2>1, Lengths
    <2>3. QED
      BY <2>1, <2>2 DEF InStep
  <1>12. QED
    BY <1>1, <1>3, <1>10, <1>11, InvTurn

LEMMA HungUp ==
    ASSUME IInv, NEW s \in Stream, InService(s), HangUp(s),
           UNCHANGED <<box, window, knocking, backlog, record>>
    PROVE  Lines'
  <1>1. /\ core \in [Stream -> {"none", "waiting", "served", "closed"}]
        /\ \A n \in 1..Len(knocking) : knocking[n] \in Stream
        /\ \A n \in 1..Len(backlog) : backlog[n] \in Stream
    <2>1. /\ core \in [Stream -> {"none", "waiting", "served", "closed"}]
          /\ knocking \in Seq(Stream) /\ backlog \in Seq(Stream)
      BY DEF IInv, TypeOK
    <2>2. QED
      BY <2>1
  <1>2. /\ core[s] = "served" /\ core'[s] = "closed" /\ step' = "idle"
        /\ \A t \in Stream \ {s} : core'[t] = core[t]
    BY <1>1 DEF HangUp, IInv, Lines, Place
  <1>3. \A n \in 1..Len(knocking) : Knocks(knocking[n])'
    BY <1>1, <1>2 DEF IInv, Lines, Knocks
  <1>4. \A n \in 1..Len(backlog) : core'[backlog[n]] = "waiting"
    BY <1>1, <1>2 DEF IInv, Lines
  <1>5. \A t \in Stream : Place(t)'
    BY <1>2 DEF IInv, Lines, Knocks, Place, InService
  <1>6. QED
    BY <1>3, <1>4, <1>5 DEF IInv, Lines

LEMMA InvHangUp ==
    ASSUME IInv, TypeOK', NEW s \in Stream,
           Ended(s) \/ (Judge(s) /\ UNCHANGED record) \/ (Reply(s) /\ UNCHANGED replies)
    PROVE  IInv'
  <1>1. /\ UNCHANGED <<house, box, sent, window, knocking, forwarded, delivered, backlog, record, acted,
                      replies>>
        /\ HangUp(s) /\ InService(s) /\ step # "ordered"
    <2>1. CASE Ended(s)
      BY <2>1 DEF Ended, InService, boxVars, windowVars
    <2>2. CASE Judge(s) /\ UNCHANGED record
      <3>1. record[s] # Append(record[s], Verdict(sent[s][Len(record[s]) + 1]))
        BY DEF IInv, TypeOK
      <3>2. record' # [record EXCEPT ![s] = Append(@, Verdict(sent[s][Len(record[s]) + 1]))]
        BY <2>2, <3>1 DEF IInv, TypeOK
      <3>3. QED
        BY <2>2, <3>2 DEF Judge, InService, boxVars, windowVars
    <2>3. CASE Reply(s) /\ UNCHANGED replies
      <3>1. replies[s] # Append(replies[s], pending)
        BY DEF IInv, TypeOK
      <3>2. replies' # [replies EXCEPT ![s] = Append(@, pending)]
        BY <2>3, <3>1 DEF IInv, TypeOK
      <3>3. QED
        BY <2>3, <3>2 DEF Reply, InService, boxVars, windowVars
    <2>4. QED
      BY <2>1, <2>2, <2>3
  <1>2. Lines'
    BY <1>1, HungUp
  <1>3. QED
    BY <1>1, <1>2, InvTurn DEF HangUp

\* A verdict is recorded.
LEMMA InvJudge ==
    ASSUME IInv, TypeOK', NEW s \in Stream, Judge(s), ~UNCHANGED record
    PROVE  IInv'
  <1> DEFINE f == sent[s][Len(record[s]) + 1]
             n == Len(record[s])
  <1>1. /\ UNCHANGED <<house, box, sent, window, knocking, forwarded, delivered, backlog, core, serving,
                      acted, replies>>
        /\ step = "reading" /\ serving = s /\ n < forwarded[s]
        /\ record' = [record EXCEPT ![s] = Append(record[s], Verdict(f))]
        /\ IF house = "mediate" /\ Verdict(f) = "PASS"
           THEN step' = "ordered"
           ELSE step' = "answering" /\ pending' = AgentReply(Verdict(f))
    BY DEF Judge, boxVars, windowVars
  <1>2. f \in Request /\ n + 1 \in 1..Len(sent[s]) /\ Verdict(f) \in Disposition
    <2>1. f # Junk
      BY DEF Judge
    <2>2. house \in {"core", "mediate"}
      BY DEF IInv, TypeOK
    <2>3. QED
      BY <1>1, <2>1, <2>2, NextFrame, VerdictType
  <1>3. /\ InStep(s) /\ Paired(s) /\ TypeOK /\ InService(s) /\ Len(replies[s]) = n
        /\ n \in Nat /\ forwarded[s] \in Nat
    BY <1>1, Lengths DEF IInv, Queues, InStep, InService, Owing
  <1>4. /\ Len(record'[s]) = n + 1 /\ record'[s][n + 1] = Verdict(f)
        /\ \A i \in 1..n : record'[s][i] = record[s][i]
        /\ \A t \in Stream \ {s} : record'[t] = record[t]
        /\ record'[s] # <<>> /\ record[s] \in Seq(Disposition)
    <2>1. record \in [Stream -> Seq(Disposition)]
      BY <1>3 DEF TypeOK
    <2>2. QED
      BY <1>1, <1>2, <2>1, AppendFacts
  <1> HIDE DEF f, n
  <1>5. InService(s)' /\ Owing(s)' = 1
    BY <1>1 DEF InService, Owing
  <1>6. InStep(s)'
    BY <1>1, <1>3, <1>4, <1>5 DEF InStep
  <1>7. Paired(s)'
    <2>1. (\A i \in 1..Len(record[s]) : /\ sent[s][i] \in Request
                                       /\ record[s][i] = Verdict(sent[s][i]))'
      BY <1>1, <1>2, <1>3, <1>4 DEF Paired, Verdict, f, n
    <2>2. \A i \in 1..Len(replies[s]) : replies[s][i] \in {AgentReply(record'[s][i]), "oversized"}
      BY <1>3, <1>4 DEF Paired
    <2>3. QED
      BY <1>1, <1>3, <2>1, <2>2 DEF Paired
  <1>8. ASSUME NEW t \in Stream \ {s} PROVE InStep(t)' /\ Paired(t)'
    <2>1. InStep(t) /\ Paired(t)
      BY DEF IInv, Queues
    <2>2. ~InService(t)'
      BY <1>1 DEF InService
    <2>3. InStep(t)'
      BY <1>1, <1>4, <2>1, <2>2 DEF InStep
    <2>4. Paired(t)'
      BY <1>1, <1>4, <2>1 DEF Paired, Verdict
    <2>5. QED
      BY <2>3, <2>4
  <1>9. InHand'
    BY <1>1, <1>4 DEF InHand
  <1>10. Lines'
    <2>1. core[s] = "served"
      BY <1>3 DEF IInv, Lines, Place
    <2>2. \A t \in Stream : Place(t)'
      BY <1>1, <1>4, <1>5, <2>1 DEF IInv, Lines, Knocks, Place, InService
    <2>3. QED
      BY <1>1, <2>2 DEF IInv, Lines, Knocks
  <1>11. WardenActsOnRecord'
    <2>1. ASSUME NEW t \in Stream
          PROVE  Range(acted[t]) = {i \in DOMAIN record'[t] :
                            house = "mediate" /\ record'[t][i] = "PASS"} \ Ordered(t)'
      <3>1. Range(acted[t]) = {i \in DOMAIN record[t] :
                            house = "mediate" /\ record[t][i] = "PASS"}
        BY <1>1 DEF IInv, WardenActsOnRecord, Ordered
      <3>2. CASE t = s
        <4>1. DOMAIN record[s] = 1..n /\ DOMAIN record'[s] = 1..(n + 1)
          BY <1>2, <1>3, <1>4, AppendFacts DEF n, TypeOK
        <4>2. Ordered(s)' = IF house = "mediate" /\ Verdict(f) = "PASS" THEN {n + 1} ELSE {}
          BY <1>1, <1>4 DEF Ordered
        <4>3. QED
          BY <1>3, <1>4, <3>1, <3>2, <4>1, <4>2
      <3>3. CASE t # s
        BY <1>1, <1>4, <3>1, <3>3 DEF Ordered
      <3>4. QED
        BY <3>2, <3>3
    <2>2. QED
      BY <1>1, <2>1 DEF IInv, WardenActsOnRecord
  <1>12. QED
    BY <1>6, <1>7, <1>8, <1>9, <1>10, <1>11 DEF IInv, Queues

\* The warden acts on the frame ordered, and on no other.
LEMMA InvExecute ==
    ASSUME IInv, TypeOK', NEW s \in Stream, Execute(s)
    PROVE  IInv'
  <1>1. /\ UNCHANGED <<house, box, sent, window, knocking, forwarded, delivered, backlog, record, replies>>
        /\ step = "ordered" /\ serving = s
        /\ acted' = [acted EXCEPT ![s] = Append(acted[s], Len(record[s]))]
        /\ \/ /\ step' = "answering" /\ pending' \in {"ok", "oversized"}
              /\ UNCHANGED <<core, serving>>
           \/ step' = "dead" /\ core' = [core EXCEPT ![s] = "closed"]
    BY DEF Execute, boxVars, windowVars
  <1>2. /\ house = "mediate" /\ record[s] # <<>> /\ record[s][Len(record[s])] = "PASS"
        /\ TypeOK /\ InService(s) /\ core[s] = "served"
        /\ acted \in [Stream -> Seq(Nat)] /\ record[s] \in Seq(Disposition)
        /\ core \in [Stream -> {"none", "waiting", "served", "closed"}]
    BY <1>1 DEF IInv, InHand, TypeOK, InService, Lines, Place
  <1>3. Len(record[s]) \in Nat /\ Len(record[s]) \in DOMAIN record[s]
    BY <1>2
  <1>4. ASSUME NEW t \in Stream PROVE InStep(t)' /\ Paired(t)'
    <2>1. InStep(t) /\ Paired(t)
      BY DEF IInv, Queues
    <2>2. InService(t)' => InService(t) /\ Owing(t)' = 1 /\ Owing(t) = 1
      BY <1>1 DEF InService, Owing
    <2>3. InStep(t)'
      BY <1>1, <2>1, <2>2 DEF InStep
    <2>4. Paired(t)'
      BY <1>1, <2>1 DEF Paired, Verdict
    <2>5. QED
      BY <2>3, <2>4
  <1>5. InHand'
    BY <1>1, <1>2 DEF InHand, AgentReply
  <1>6. Lines'
    <2>1. CASE UNCHANGED core /\ step' = "answering" /\ UNCHANGED serving
      BY <1>1, <2>1 DEF IInv, Lines, Knocks, Place, InService
    <2>2. CASE step' = "dead" /\ core' = [core EXCEPT ![s] = "closed"]
      <3>1. /\ \A n \in 1..Len(knocking) : knocking[n] \in Stream
            /\ \A n \in 1..Len(backlog) : backlog[n] \in Stream
        <4>1. knocking \in Seq(Stream) /\ backlog \in Seq(Stream)
          BY <1>2 DEF TypeOK
        <4>2. QED
          BY <4>1
      <3>2. core'[s] = "closed" /\ \A t \in Stream \ {s} : core'[t] = core[t]
        BY <1>2, <2>2
      <3>3. \A t \in Stream : Place(t)'
        BY <1>1, <2>2, <3>2 DEF IInv, Lines, Knocks, Place, InService
      <3>4. /\ \A n \in 1..Len(knocking) : Knocks(knocking[n])'
            /\ \A n \in 1..Len(backlog) : core'[backlog[n]] = "waiting"
        BY <1>1, <1>2, <3>1, <3>2 DEF IInv, Lines, Knocks
      <3>5. QED
        BY <1>1, <3>3, <3>4 DEF IInv, Lines
    <2>3. QED
      BY <1>1, <2>1, <2>2
  <1>7. ASSUME NEW t \in Stream
        PROVE  /\ Range(acted'[t]) = {n \in DOMAIN record[t] :
                                 house = "mediate" /\ record[t][n] = "PASS"}
               /\ \A i, j \in DOMAIN acted'[t] : i < j => acted'[t][i] < acted'[t][j]
    <2> DEFINE passed == {n \in DOMAIN record[t] : house = "mediate" /\ record[t][n] = "PASS"}
               a == acted[t]
               last == Len(record[t])
    <2>1. /\ Range(a) = passed \ Ordered(t)
          /\ \A i, j \in DOMAIN a : i < j => a[i] < a[j]
      BY DEF IInv, WardenActsOnRecord
    <2>2. CASE t # s
      BY <1>1, <1>2, <2>1, <2>2 DEF Ordered
    <2>3. CASE t = s
      <3>1. /\ acted'[t] = Append(a, last) /\ a \in Seq(Nat) /\ last \in Nat
            /\ Ordered(t) = {last} /\ last \in passed
        BY <1>1, <1>2, <1>3, <2>3 DEF Ordered
      <3>2. /\ Len(a) \in Nat /\ DOMAIN a = 1..Len(a) /\ DOMAIN acted'[t] = 1..(Len(a) + 1)
            /\ acted'[t][Len(a) + 1] = last
            /\ \A i \in 1..Len(a) : acted'[t][i] = a[i]
        BY <3>1, AppendFacts
      <3>3. passed \subseteq 1..last
        BY <1>2, <2>3
      <3> HIDE DEF passed, a, last
      <3>4. Range(acted'[t]) = Range(a) \cup {last}
        BY <3>1, <3>2 DEF Range
      <3>5. \A i \in DOMAIN a : a[i] \in 1..last /\ a[i] # last
        BY <2>1, <3>1, <3>3 DEF Range
      <3>6. \A i, j \in DOMAIN acted'[t] : i < j => acted'[t][i] < acted'[t][j]
        BY <2>1, <3>1, <3>2, <3>5
      <3>7. QED
        BY <2>1, <3>1, <3>4, <3>6 DEF passed
    <2>4. QED
      BY <2>2, <2>3
  <1>8. WardenActsOnRecord'
    BY <1>1, <1>7 DEF WardenActsOnRecord, Ordered
  <1>9. QED
    BY <1>4, <1>5, <1>6, <1>8 DEF IInv, Queues

\* A reply follows the verdict it is about.
LEMMA InvReply ==
    ASSUME IInv, TypeOK', NEW s \in Stream, Reply(s), ~UNCHANGED replies
    PROVE  IInv'
  <1>1. /\ UNCHANGED <<house, box, sent, window, knocking, forwarded, delivered, backlog, record, acted,
                      core, serving>>
        /\ step = "answering" /\ serving = s /\ step' \in {"blocked", "reading"}
        /\ replies' = [replies EXCEPT ![s] = Append(replies[s], pending)]
    BY DEF Reply, boxVars, windowVars
  <1>2. /\ TypeOK /\ InService(s) /\ InStep(s) /\ Paired(s)
        /\ record[s] # <<>> /\ pending \in {AgentReply(record[s][Len(record[s])]), "oversized"}
        /\ Len(record[s]) = Len(replies[s]) + 1
    BY <1>1 DEF IInv, InHand, Queues, InService, InStep, Owing
  <1>3. /\ Len(replies[s]) \in Nat /\ delivered[s] \in Nat
        /\ Len(replies'[s]) = Len(replies[s]) + 1
        /\ replies'[s][Len(replies[s]) + 1] = pending
        /\ \A i \in 1..Len(replies[s]) : replies'[s][i] = replies[s][i]
        /\ \A t \in Stream \ {s} : replies'[t] = replies[t]
    <2>1. /\ replies \in [Stream -> Seq({"ok", "deny", "oversized"})]
          /\ pending \in {"ok", "deny", "oversized"} /\ delivered[s] \in Nat
      BY <1>2 DEF TypeOK, AgentReply
    <2>2. QED
      BY <1>1, <2>1, AppendFacts
  <1>4. InStep(s)' /\ Paired(s)'
    <2>1. InStep(s)'
      <3>1. Owing(s)' = 0 /\ Len(record[s]) = Len(replies'[s]) /\ delivered[s] <= Len(replies[s])
        BY <1>1, <1>2, <1>3 DEF InStep, Owing
      <3>2. QED
        BY <1>1, <1>2, <1>3, <3>1 DEF InStep
    <2>2. (\A n \in 1..Len(replies[s]) : replies[s][n] \in {AgentReply(record[s][n]), "oversized"})'
      <3>1. ASSUME NEW n \in 1..Len(replies'[s])
            PROVE  replies'[s][n] \in {AgentReply(record[s][n]), "oversized"}
        <4>1. CASE n \in 1..Len(replies[s])
          BY <1>2, <1>3, <4>1 DEF Paired
        <4>2. CASE n = Len(replies[s]) + 1
          BY <1>2, <1>3, <4>2
        <4>3. QED
          BY <1>3, <4>1, <4>2
      <3>2. QED
        BY <1>1, <3>1
    <2>3. \A n \in 1..delivered[s] : replies'[s][n] # "oversized"
      BY <1>2, <1>3 DEF Paired, InStep
    <2>4. Paired(s)'
      BY <1>1, <1>2, <2>2, <2>3 DEF Paired, Verdict
    <2>5. QED
      BY <2>1, <2>4
  <1>5. ASSUME NEW t \in Stream \ {s} PROVE InStep(t)' /\ Paired(t)'
    <2>1. InStep(t) /\ Paired(t) /\ ~InService(t)'
      BY <1>1 DEF IInv, Queues, InService
    <2>2. InStep(t)'
      BY <1>1, <1>3, <2>1 DEF InStep
    <2>3. Paired(t)'
      BY <1>1, <1>3, <2>1 DEF Paired, Verdict
    <2>4. QED
      BY <2>2, <2>3
  <1>6. InHand'
    BY <1>1 DEF InHand
  <1>7. Lines'
    BY <1>1 DEF IInv, Lines, Knocks, Place, InService
  <1>8. WardenActsOnRecord'
    BY <1>1 DEF IInv, WardenActsOnRecord, Ordered
  <1>9. QED
    BY <1>4, <1>5, <1>6, <1>7, <1>8 DEF IInv, Queues

LEMMA InvStep == IInv /\ [Next]_vars => IInv'
  <1> SUFFICES ASSUME IInv, [Next]_vars PROVE IInv'
    OBVIOUS
  <1>1. TypeOK'
    BY TypeStep
  <1>2. CASE UNCHANGED vars
    <2>1. UNCHANGED <<house, box, sent, window, knocking, forwarded, delivered, backlog, core, step,
                      serving, pending, record, acted, replies>>
      BY <1>2 DEF vars, boxVars, windowVars, coreVars
    <2>2. Lines'
      BY <2>1 DEF IInv, Lines, Knocks, Place, InService
    <2>3. QED
      BY <1>1, <2>1, <2>2, InvOpenClose
  <1>3. ASSUME NEW s \in Stream, Judge(s) PROVE IInv'
    BY <1>1, <1>3, InvJudge, InvHangUp
  <1>4. ASSUME NEW s \in Stream, Reply(s) PROVE IInv'
    BY <1>1, <1>4, InvReply, InvHangUp
  <1>5. QED
    BY <1>1, <1>2, <1>3, <1>4, InvAdmit, InvAccept, InvConnect, InvSend, InvPump, InvEnd,
       InvExecute, InvHangUp DEF Next, Serve

LEMMA InvAlways == Spec => []IInv
  BY InvInit, InvStep, PTL DEF Spec

\* Every variable keeps its type.
THEOREM TypeCorrect == Spec => []TypeOK
  <1>1. IInv => TypeOK
    BY DEF IInv
  <1>2. QED
    BY <1>1, InvAlways, PTL

\* The warden acts on what is recorded as passed, once each and in order, for
\* any number of streams and whatever the agent sends.
THEOREM WardenObeys == Spec => []WardenActsOnRecord
  <1>1. IInv => WardenActsOnRecord
    BY DEF IInv
  <1>2. QED
    BY <1>1, InvAlways, PTL

-----------------------------------------------------------------------------
(* What the agent sees *)

answered == [s \in Stream |-> SubSeq(replies[s], 1, delivered[s])]
unsealed == [s \in Stream |-> box[s] # "closed" /\ window[s] # "sealed"]
dueTo == [f \in Frame |-> IF f \in Request THEN {AgentReply(Verdict(f))} ELSE {}]

LEMMA MirrorInit == Init => Mirror!Init
  <1> SUFFICES ASSUME Init PROVE Mirror!Init
    OBVIOUS
  <1>1. dueTo \in [Frame -> SUBSET {"ok", "deny"}]
    BY DEF dueTo, AgentReply
  <1>2. answered = [s \in Stream |-> <<>>]
    BY DEF Init, answered
  <1>3. unsealed = [s \in Stream |-> TRUE]
    BY DEF Init, unsealed
  <1>4. sent = [s \in Stream |-> <<>>]
    BY DEF Init
  <1>5. QED
    BY <1>1, <1>2, <1>3, <1>4 DEF Mirror!Init, dueTo, answered, unsealed

\* A step of the core that the agent does not see.
LEMMA MirrorHidden ==
    ASSUME IInv, UNCHANGED <<house, sent, delivered, box, window>>,
           \A s \in Stream : SubSeq(replies'[s], 1, delivered[s]) = SubSeq(replies[s], 1, delivered[s])
    PROVE  UNCHANGED <<dueTo, sent, answered, unsealed>>
  BY DEF dueTo, answered, unsealed, Verdict

LEMMA MirrorReply ==
    ASSUME IInv, NEW s \in Stream, Reply(s)
    PROVE  UNCHANGED <<dueTo, sent, answered, unsealed>>
  <1>1. UNCHANGED <<house, sent, delivered, box, window>>
    BY DEF Reply, boxVars, windowVars
  <1>2. ASSUME NEW t \in Stream
        PROVE  SubSeq(replies'[t], 1, delivered[t]) = SubSeq(replies[t], 1, delivered[t])
    <2>1. /\ replies \in [Stream -> Seq({"ok", "deny", "oversized"})]
          /\ delivered[t] \in Nat /\ delivered[t] <= Len(replies[t])
      BY DEF IInv, TypeOK, Queues, InStep
    <2>2. pending \in {"ok", "deny", "oversized"}
      BY DEF Reply, IInv, InHand, AgentReply
    <2>3. replies'[t] = replies[t] \/ replies'[t] = Append(replies[t], pending)
      BY <2>1 DEF Reply
    <2>4. replies[t] \in Seq({"ok", "deny", "oversized"})
      BY <2>1
    <2>5. SubSeq(Append(replies[t], pending), 1, delivered[t]) = SubSeq(replies[t], 1, delivered[t])
      BY <2>1, <2>2, <2>4, PrefixKept
    <2>6. QED
      BY <2>3, <2>5
  <1>3. QED
    BY <1>1, <1>2, MirrorHidden

LEMMA MirrorStep == IInv /\ [Next]_vars => [Mirror!Next]_<<dueTo, sent, answered, unsealed>>
  <1> SUFFICES ASSUME IInv, [Next]_vars
               PROVE  Mirror!Next \/ UNCHANGED <<dueTo, sent, answered, unsealed>>
    OBVIOUS
  <1>1. CASE UNCHANGED vars
    BY <1>1 DEF vars, boxVars, windowVars, coreVars, dueTo, answered, unsealed, Verdict
  <1>2. ASSUME NEW s \in Stream, NEW f \in Frame, Send(s, f) PROVE Mirror!Next
    <2>1. UNCHANGED <<house, replies, delivered, box, window>>
      BY <1>2 DEF Send, windowVars, coreVars
    <2>2. UNCHANGED <<dueTo, answered, unsealed>>
      BY <2>1 DEF dueTo, answered, unsealed, Verdict
    <2>3. unsealed[s] /\ sent' = [sent EXCEPT ![s] = Append(@, f)]
      BY <1>2 DEF Send, unsealed
    <2>4. Mirror!Ask(s, f)
      BY <2>2, <2>3 DEF Mirror!Ask, dueTo, answered, unsealed
    <2>5. QED
      BY <2>4 DEF Mirror!Next
  <1>3. ASSUME NEW s \in Stream, PumpOut(s)
        PROVE  Mirror!Next \/ UNCHANGED <<dueTo, sent, answered, unsealed>>
    <2>1. UNCHANGED <<house, sent, replies, box, window>> /\ window[s] = "relaying"
      BY <1>3 DEF PumpOut, Running, boxVars, coreVars
    <2>2. UNCHANGED <<dueTo, sent, unsealed>>
      BY <2>1 DEF dueTo, unsealed, Verdict
    <2>3. CASE UNCHANGED delivered
      BY <2>1, <2>2, <2>3 DEF answered
    <2>4. CASE ~UNCHANGED delivered
      <3> DEFINE n == delivered[s]
                 r == replies[s][n + 1]
      <3>1. /\ n < Len(replies[s]) /\ r # "oversized" /\ box[s] # "closed"
            /\ delivered' = [delivered EXCEPT ![s] = n + 1]
        BY <1>3, <2>4 DEF PumpOut, Stops
      <3>2. /\ InStep(s) /\ Paired(s) /\ n \in Nat /\ Len(replies[s]) \in Nat
            /\ Len(record[s]) \in Nat /\ Len(sent[s]) \in Nat /\ forwarded[s] \in Nat
            /\ replies[s] \in Seq({"ok", "deny", "oversized"})
            /\ delivered \in [Stream -> Nat] /\ sent[s] \in Seq(Frame)
        BY DEF IInv, Queues, TypeOK
      <3>3. /\ n + 1 \in 1..Len(record[s]) /\ n + 1 \in 1..Len(replies[s]) /\ n < Len(sent[s])
            /\ n + 1 \in 1..Len(sent[s])
        BY <3>1, <3>2 DEF InStep
      <3>4. sent[s][n + 1] \in Request /\ r = AgentReply(Verdict(sent[s][n + 1]))
        BY <3>1, <3>2, <3>3 DEF Paired
      <3>5. r \in dueTo[sent[s][n + 1]] /\ r \in {"ok", "deny"}
        BY <3>4 DEF dueTo, Frame, AgentReply
      <3>10. PICK reply \in {"ok", "deny"} : reply = r
        BY <3>5
      <3>6. answered' = [answered EXCEPT ![s] = Append(@, reply)]
        <4>1. SubSeq(replies[s], 1, n + 1) = Append(SubSeq(replies[s], 1, n), reply)
          BY <3>1, <3>2, <3>10, PrefixGrows
        <4>2. delivered'[s] = n + 1 /\ \A t \in Stream \ {s} : delivered'[t] = delivered[t]
          BY <3>1, <3>2
        <4>3. QED
          BY <2>1, <4>1, <4>2 DEF answered
      <3>7. Len(answered[s]) = n /\ unsealed[s]
        BY <2>1, <3>1, <3>2, PrefixGrows DEF answered, unsealed
      <3>8. Mirror!Answer(s, reply)
        <4>1. /\ unsealed[s] /\ Len(answered[s]) < Len(sent[s])
              /\ reply \in dueTo[sent[s][Len(answered[s]) + 1]]
          BY <3>3, <3>5, <3>7, <3>10
        <4>2. QED
          <5>1. Mirror!Answer(s, reply)
                <=> /\ unsealed[s] /\ Len(answered[s]) < Len(sent[s])
                    /\ reply \in dueTo[sent[s][Len(answered[s]) + 1]]
                    /\ answered' = [answered EXCEPT ![s] = Append(@, reply)]
                    /\ UNCHANGED <<dueTo, sent, unsealed>>
            BY DEF Mirror!Answer, dueTo, answered, unsealed
          <5>2. QED
            BY <2>2, <3>6, <4>1, <5>1
      <3>9. QED
        BY <3>8 DEF Mirror!Next
    <2>5. QED
      BY <2>3, <2>4
  <1>4. ASSUME NEW s \in Stream, Close(s) \/ Seal(s) PROVE Mirror!Next
    <2>1. UNCHANGED <<house, sent, replies, delivered>>
      BY <1>4 DEF Close, Seal, boxVars, windowVars, coreVars
    <2>2. UNCHANGED <<dueTo, answered>>
      BY <2>1 DEF dueTo, answered, Verdict
    <2>3. unsealed' = [unsealed EXCEPT ![s] = FALSE]
      BY <1>4 DEF Close, Seal, boxVars, windowVars, unsealed, IInv, TypeOK
    <2>4. Mirror!End(s)
      BY <2>1, <2>2, <2>3 DEF Mirror!End, dueTo, answered, unsealed
    <2>5. QED
      BY <2>4 DEF Mirror!Next
  <1>5. CASE Admit
    <2>1. Head(knocking) \in Stream
      BY <1>5 DEF Admit, IInv, TypeOK
    <2>2. PICK s \in Stream : s = Head(knocking)
      BY <2>1
    <2>3. UNCHANGED <<house, sent, box, replies, delivered>>
      BY <1>5 DEF Admit, boxVars
    <2>4. UNCHANGED <<dueTo, answered>>
      BY <2>3 DEF dueTo, answered, Verdict
    <2>5. CASE window' = [window EXCEPT ![s] = "sealed"]
      <3>1. unsealed' = [unsealed EXCEPT ![s] = FALSE]
        BY <2>3, <2>5 DEF unsealed, IInv, TypeOK
      <3>2. Mirror!End(s)
        BY <2>3, <2>4, <3>1 DEF Mirror!End, dueTo, answered, unsealed
      <3>3. QED
        BY <3>2 DEF Mirror!Next
    <2>6. CASE window' = [window EXCEPT ![s] = "relaying"]
      <3>1. window'[s] # "sealed" /\ \A t \in Stream \ {s} : window'[t] = window[t]
        BY <2>6 DEF IInv, TypeOK
      <3>2. window[s] = "none"
        <4>1. knocking \in Seq(Stream) /\ knocking # <<>>
          BY <1>5 DEF Admit, IInv, TypeOK
        <4>2. 1 \in 1..Len(knocking) /\ s = knocking[1]
          BY <2>2, <4>1
        <4>3. QED
          BY <4>2 DEF IInv, Lines, Knocks
      <3>3. QED
        BY <2>3, <2>4, <3>1, <3>2 DEF unsealed
    <2>7. QED
      BY <1>5, <2>2, <2>5, <2>6 DEF Admit
  <1>6. ASSUME NEW s \in Stream, Connect(s)
        PROVE  UNCHANGED <<dueTo, sent, answered, unsealed>>
    <2>1. /\ UNCHANGED <<house, sent, replies, delivered, window>>
          /\ \A t \in Stream : box'[t] = "closed" <=> box[t] = "closed"
      BY <1>6 DEF Connect, coreVars, IInv, TypeOK
    <2>2. QED
      BY <2>1 DEF dueTo, answered, unsealed, Verdict
  <1>7. ASSUME NEW s \in Stream, PumpIn(s) PROVE UNCHANGED <<dueTo, sent, answered, unsealed>>
    <2>1. UNCHANGED <<house, sent, replies, delivered, box, window>>
      BY <1>7 DEF PumpIn, Stops, boxVars, coreVars
    <2>2. QED
      BY <2>1, MirrorHidden
  <1>8. ASSUME NEW s \in Stream, Judge(s) \/ Execute(s) \/ Ended(s)
        PROVE  UNCHANGED <<dueTo, sent, answered, unsealed>>
    <2>1. UNCHANGED <<house, sent, replies, delivered, box, window>>
      BY <1>8 DEF Judge, Execute, Ended, boxVars, windowVars
    <2>2. QED
      BY <2>1, MirrorHidden
  <1>9. CASE Accept
    <2>1. UNCHANGED <<house, sent, replies, delivered, box, window>>
      BY <1>9 DEF Accept, boxVars, windowVars
    <2>2. QED
      BY <2>1, MirrorHidden
  <1>10. QED
    BY <1>1, <1>2, <1>3, <1>4, <1>5, <1>6, <1>7, <1>8, <1>9, MirrorReply DEF Next, Serve

\* Through queues, pumps and the core's loop, the agent sees a Mediation.
THEOREM AgentSeesMediation == Spec => MirrorSpec
  <1>1. IInv /\ [Next]_vars => [Mirror!Next]_<<[f \in Frame |-> IF f \in Request
            THEN {AgentReply(Verdict(f))} ELSE {}], sent,
            [s \in Stream |-> SubSeq(replies[s], 1, delivered[s])],
            [s \in Stream |-> box[s] # "closed" /\ window[s] # "sealed"]>>
    BY MirrorStep DEF dueTo, answered, unsealed
  <1>2. QED
    BY <1>1, MirrorInit, InvAlways, PTL DEF Spec, MirrorSpec, Mirror!MediationSpec
=============================================================================
