------------------------- MODULE HookAdmissionProofs -------------------------
(***************************************************************************)
(* That the dual court loses no word, for every evidence, and that the     *)
(* hooks keep their records of what they allow, for any number of calls,   *)
(* sessions and files.                                                     *)
(***************************************************************************)
EXTENDS HookAdmission, TLAPS

(* The dual court *)

\* d is among ds, and none of ds is stronger.
Tops(ds, d) == d \in ds /\ \A e \in ds : Rank[e] <= Rank[d]

Dispositions(ts) == {t.disposition : t \in ts}

\* The five dispositions are told apart by their ranks.
LEMMA Ranks ==
    /\ Rank["PASS"] = 1 /\ Rank["HOLD"] = 2 /\ Rank["QUARANTINE"] = 3
    /\ Rank["KILL"] = 4 /\ Rank["REJECT"] = 5
    /\ \A d, e \in Disposition : Rank[d] \in Nat /\ (Rank[d] = Rank[e] => d = e)
  <1>1. /\ Rank["PASS"] = 1 /\ Rank["HOLD"] = 2 /\ Rank["QUARANTINE"] = 3
        /\ Rank["KILL"] = 4 /\ Rank["REJECT"] = 5
    BY DEF Rank
  <1>2. QED
    BY <1>1 DEF Disposition

\* What Strongest chooses tops the words it is chosen from.
LEMMA StrongestIsTop ==
    ASSUME NEW ds \in SUBSET Disposition, ds # {}
    PROVE  Tops(ds, Strongest(ds))
  <1>1. \E d \in ds : \A e \in ds : Rank[e] <= Rank[d]
    <2>1. CASE "REJECT" \in ds
      BY <2>1, Ranks DEF Disposition
    <2>2. CASE "REJECT" \notin ds /\ "KILL" \in ds
      BY <2>2, Ranks DEF Disposition
    <2>3. CASE "REJECT" \notin ds /\ "KILL" \notin ds /\ "QUARANTINE" \in ds
      BY <2>3, Ranks DEF Disposition
    <2>4. CASE ds \subseteq {"PASS", "HOLD"} /\ "HOLD" \in ds
      BY <2>4, Ranks
    <2>5. CASE ds = {"PASS"}
      BY <2>5, Ranks
    <2>6. QED
      BY <2>1, <2>2, <2>3, <2>4, <2>5 DEF Disposition
  <1>2. QED
    BY <1>1, Zenon DEF Strongest, Tops

\* No two words top the same words.
LEMMA TopIsStrongest ==
    ASSUME NEW ds \in SUBSET Disposition, NEW d, Tops(ds, d)
    PROVE  Strongest(ds) = d
  <1>1. Tops(ds, Strongest(ds))
    BY StrongestIsTop DEF Tops
  <1>2. QED
    BY <1>1, Ranks DEF Tops

\* A primary testimony says the strongest of the words, whatever its stage.
LEMMA PrimarySpeaks ==
    ASSUME NEW ts
    PROVE  Primary(ts).disposition = Strongest(Dispositions(ts))
  BY Zenon DEF Primary, Says, Dispositions

\* d is the strongest word in ts, a court has heard it, and each court has heard
\* something unless d is at least what an empty court says.
Sound(ts, d) ==
    /\ ts \subseteq Testimony
    /\ d \in Disposition
    /\ \E t \in ts : t.stage # "AGGREGATOR" /\ t.disposition = d
    /\ \A t \in ts : Rank[t.disposition] <= Rank[d]
    /\ d = "PASS" => /\ \E t \in ts : t.stage \in OTCourtStages
                     /\ \E t \in ts : t.stage \in DecodeCourtStages

\* A court says nothing beyond d, and d when it has heard it.
LEMMA CourtFacts ==
    ASSUME NEW ts, NEW d, Sound(ts, d), NEW stages \in {OTCourtStages, DecodeCourtStages}
    PROVE  LET court == Court(stages, ts)
           IN  /\ court \subseteq Testimony /\ court # {}
               /\ \A t \in court : Rank[t.disposition] <= Rank[d]
               /\ Tops(Dispositions(court), Verdict(court))
               /\ Verdict(court) \in Disposition
               /\ Rank[Verdict(court)] <= Rank[d]
               /\ (\E t \in ts : t.stage \in stages /\ t.disposition = d) => Verdict(court) = d
  <1> DEFINE court == Court(stages, ts)
             own   == {t \in ts : t.stage \in stages}
  <1>1. court \subseteq Testimony /\ court # {} /\ (own # {} => court = own)
    <2>1. Missing \in Testimony
      BY DEF Missing, Says, Testimony, Stage, Disposition
    <2>2. QED
      BY <2>1 DEF Court, Sound
  <1>2. \A t \in court : Rank[t.disposition] <= Rank[d]
    <2>1. CASE own # {}
      BY <2>1 DEF Court, Sound
    <2>2. CASE own = {}
      <3>1. d # "PASS"
        BY <2>2 DEF Sound
      <3>2. court = {Missing} /\ Missing.disposition = "HOLD"
        BY <2>2 DEF Court, Missing, Says
      <3>3. QED
        BY <3>1, <3>2, Ranks DEF Sound, Disposition
    <2>3. QED
      BY <2>1, <2>2
  <1>3. Dispositions(court) \in SUBSET Disposition /\ Dispositions(court) # {}
    BY <1>1 DEF Dispositions, Testimony
  <1>4. Tops(Dispositions(court), Verdict(court))
    BY <1>3, StrongestIsTop, PrimarySpeaks DEF Verdict
  <1>5. Verdict(court) \in Disposition /\ Rank[Verdict(court)] <= Rank[d]
    BY <1>2, <1>3, <1>4 DEF Tops, Dispositions
  <1>6. ASSUME NEW t \in ts, t.stage \in stages, t.disposition = d
        PROVE  Verdict(court) = d
    <2>1. d \in Dispositions(court)
      BY <1>1, <1>6 DEF Dispositions
    <2>2. Rank[d] <= Rank[Verdict(court)] /\ d \in Disposition
      BY <2>1, <1>4 DEF Tops, Sound
    <2>3. QED
      BY <2>2, <1>5, Ranks
  <1>7. QED
    BY <1>1, <1>2, <1>4, <1>5, <1>6

\* The courts that decide, and what they decide on.
LEMMA SpeakingCourts ==
    ASSUME NEW ts, NEW d, Sound(ts, d)
    PROVE  LET ot       == Court(OTCourtStages, ts)
               decode   == Court(DecodeCourtStages, ts)
               deciding == UNION {c \in {ot, decode} : Verdict(c) = d}
               speaking == {t \in deciding : t.disposition = d}
           IN  /\ Dispositions(speaking) = {d} /\ speaking \in SUBSET Testimony
               /\ DecisionFrom(ts).disposition = d
               /\ DecisionFrom(ts).primary_stage = Primary(speaking).stage
               /\ \A t \in ts : t.disposition = d /\ t.stage # "AGGREGATOR" => t \in speaking
               /\ \A t \in speaking : t \in ts \/ t = Missing
               /\ Verdict(ot) \in Disposition /\ Verdict(decode) \in Disposition
               /\ Rank[Verdict(ot)] <= Rank[d] /\ Rank[Verdict(decode)] <= Rank[d]
               /\ d \in {Verdict(ot), Verdict(decode)}
  <1> DEFINE ot       == Court(OTCourtStages, ts)
             decode   == Court(DecodeCourtStages, ts)
             both     == {Verdict(ot), Verdict(decode)}
             deciding == UNION {c \in {ot, decode} : Verdict(c) = d}
             speaking == {t \in deciding : t.disposition = d}
  <1>1. /\ Verdict(ot) \in Disposition /\ Rank[Verdict(ot)] <= Rank[d]
        /\ Verdict(decode) \in Disposition /\ Rank[Verdict(decode)] <= Rank[d]
        /\ Tops(Dispositions(ot), Verdict(ot)) /\ Tops(Dispositions(decode), Verdict(decode))
        /\ ot \subseteq Testimony /\ decode \subseteq Testimony
    BY CourtFacts
  <1>2. ASSUME NEW t \in ts, t.stage # "AGGREGATOR", t.disposition = d
        PROVE  d \in both /\ t \in speaking
    <2>1. CASE t.stage \in OTCourtStages
      <3>1. Verdict(ot) = d
        BY <1>2, <2>1, CourtFacts
      <3>2. t \in ot
        BY <2>1 DEF Court
      <3>3. QED
        BY <3>1, <3>2, <1>2
    <2>2. CASE t.stage \in DecodeCourtStages
      <3>1. Verdict(decode) = d
        BY <1>2, <2>2, CourtFacts
      <3>2. t \in decode
        BY <2>2 DEF Court
      <3>3. QED
        BY <3>1, <3>2, <1>2
    <2>3. QED
      BY <1>2, <2>1, <2>2 DEF Sound, Testimony, Stage
  <1>3. d \in both /\ \E t \in speaking : t.disposition = d
    <2>1. PICK t \in ts : t.stage # "AGGREGATOR" /\ t.disposition = d
      BY DEF Sound
    <2>2. QED
      BY <2>1, <1>2
  <1>4. Strongest(both) = d
    BY <1>1, <1>3, TopIsStrongest DEF Tops
  <1>5. Dispositions(speaking) = {d} /\ speaking \in SUBSET Testimony
    BY <1>1, <1>3 DEF Dispositions
  <1>6. Primary(speaking).disposition = d
    <2>1. Tops({d}, d) /\ {d} \in SUBSET Disposition
      BY <1>1, <1>3, Ranks DEF Tops
    <2>2. QED
      BY <2>1, <1>5, PrimarySpeaks, TopIsStrongest
  <1>7. /\ DecisionFrom(ts).disposition = Primary(speaking).disposition
        /\ DecisionFrom(ts).primary_stage = Primary(speaking).stage
    BY <1>4, Zenon DEF DecisionFrom
  <1>8. \A t \in speaking : t \in ts \/ t = Missing
    BY DEF Court
  <1>9. QED
    BY <1>1, <1>2, <1>3, <1>5, <1>6, <1>7, <1>8

\* A decision is the strongest word, and its testimonies still say so.
LEMMA DecisionIsStrongest ==
    ASSUME NEW ts, NEW d, Sound(ts, d)
    PROVE  /\ DecisionFrom(ts).disposition = d
           /\ Sound(DecisionFrom(ts).testimonies, d)
  <1> DEFINE ot     == Court(OTCourtStages, ts)
             decode == Court(DecodeCourtStages, ts)
             both   == {Verdict(ot), Verdict(decode)}
  <1>1. /\ Verdict(ot) \in Disposition /\ Rank[Verdict(ot)] <= Rank[d]
        /\ Verdict(decode) \in Disposition /\ Rank[Verdict(decode)] <= Rank[d]
        /\ d \in both /\ DecisionFrom(ts).disposition = d
    BY SpeakingCourts
  <1>2. DecisionFrom(ts).testimonies = ts \cup Conflict(ot, decode)
    BY Zenon DEF DecisionFrom
  <1>3. \A t \in Conflict(ot, decode) : t = Says("AGGREGATOR", d)
    <2>1. CASE Verdict(ot) = Verdict(decode)
      BY <2>1 DEF Conflict
    <2>2. CASE Verdict(ot) # Verdict(decode)
      <3>1. d # "PASS"
        BY <2>2, <1>1, Ranks DEF Disposition
      <3>2. Tops(both \cup {"HOLD"}, d) /\ both \cup {"HOLD"} \in SUBSET Disposition
        BY <3>1, <1>1, Ranks DEF Tops, Disposition
      <3>3. Strongest({Verdict(ot), Verdict(decode), "HOLD"}) = d
        <4>1. {Verdict(ot), Verdict(decode), "HOLD"} = both \cup {"HOLD"}
          OBVIOUS
        <4>2. QED
          BY <4>1, <3>2, TopIsStrongest
      <3>4. QED
        BY <3>3 DEF Conflict
    <2>3. QED
      BY <2>1, <2>2
  <1>4. Says("AGGREGATOR", d) \in Testimony /\ Says("AGGREGATOR", d).disposition = d
    BY DEF Sound, Says, Testimony, Stage
  <1>5. QED
    BY <1>1, <1>2, <1>3, <1>4, Ranks DEF Sound

\* The review of a set of signals is one of three words.
LEMMA ReviewType ==
    ASSUME NEW axes
    PROVE  Review(axes) \in {"PASS", "HOLD", "QUARANTINE"}
  BY DEF Review

\* The eight arms testify.
LEMMA BundleTyped ==
    ASSUME NEW ev \in Evidence
    PROVE  Bundle(ev) \subseteq Testimony
  <1>1. /\ SurfaceDisposition(ev) \in Disposition
        /\ GateDisposition(ev.gate) \in Disposition
        /\ ev.channel \in Disposition /\ ev.capability \in Disposition
        /\ ev.path \in Disposition /\ ev.network \in Disposition
        /\ ev.patch \in Disposition /\ ev.protect \in Disposition
    BY DEF Evidence, SurfaceDisposition, GateDisposition, Disposition
  <1>2. QED
    BY <1>1 DEF Bundle, Says, Testimony, Stage, OTCourtStages, DecodeCourtStages

\* Each court hears somebody, unless the action is not admitted.
LEMMA HeardTyped ==
    ASSUME NEW ev \in Evidence
    PROVE  /\ Heard(ev) \subseteq Testimony /\ Heard(ev) # {}
           /\ \A t \in Heard(ev) : t.stage # "AGGREGATOR"
           /\ \E t \in Heard(ev) : t.stage \in OTCourtStages
           /\ (\E t \in Heard(ev) : t.stage \in DecodeCourtStages)
                \/ (\A t \in Heard(ev) : t.disposition # "PASS")
  <1> DEFINE ticket == Says("ADMISSION", AdmissionDisposition(ev.ticket))
  <1>1. /\ ticket \in Heard(ev) /\ ticket \in Testimony /\ ticket.stage = "ADMISSION"
        /\ ev.ticket # "ADMIT" => ticket.disposition # "PASS"
    BY DEF Heard, Evidence, AdmissionDisposition, Says, Testimony, Stage, OTCourtStages,
           Disposition
  <1>2. /\ \A t \in Bundle(ev) : t.stage # "AGGREGATOR"
        /\ \E t \in Bundle(ev) : t.stage \in DecodeCourtStages
    BY DEF Bundle, Says, DecodeCourtStages
  <1>3. CASE ev.ticket = "ADMIT"
    BY <1>1, <1>2, <1>3, BundleTyped DEF Heard, OTCourtStages
  <1>4. CASE ev.ticket # "ADMIT"
    <2>1. Heard(ev) = {ticket}
      BY <1>4 DEF Heard
    <2>2. QED
      BY <2>1, <1>1, <1>4 DEF OTCourtStages
  <1>5. QED
    BY <1>3, <1>4

\* What one more testimony of a court makes of the strongest word.
LEMMA SoundGrows ==
    ASSUME NEW ts, NEW d, Sound(ts, d), NEW more \in SUBSET Testimony,
           \A t \in more : t.stage = "DECODE_REVIEW",
           NEW e, Tops({d} \cup Dispositions(more), e)
    PROVE  Sound(ts \cup more, e)
  <1>1. {d} \cup Dispositions(more) \subseteq Disposition
    BY DEF Dispositions, Testimony, Sound
  <1>2. e \in Disposition /\ Rank[d] <= Rank[e]
    BY <1>1 DEF Tops
  <1>3. \A t \in ts \cup more : Rank[t.disposition] <= Rank[e]
    <2>1. \A t \in ts : Rank[t.disposition] <= Rank[e]
      <3>1. \A t \in ts : t.disposition \in Disposition
        BY DEF Sound, Testimony
      <3>2. QED
        BY <3>1, <1>2, Ranks DEF Sound
    <2>2. QED
      BY <2>1 DEF Tops, Dispositions
  <1>4. \E t \in ts \cup more : t.stage # "AGGREGATOR" /\ t.disposition = e
    BY DEF Tops, Dispositions, Sound
  <1>5. e = "PASS" => d = "PASS"
    BY <1>2, Ranks DEF Sound, Disposition
  <1>6. QED
    BY <1>2, <1>3, <1>4, <1>5 DEF Sound

\* The words of all voices, arm by arm.
LEMMA VoicesSay ==
    ASSUME NEW ev
    PROVE  Dispositions(Voices(ev))
             = Dispositions(Heard(ev)) \cup {ReviewOf(ev)} \cup Dispositions(Equations(ev))
  <1> DEFINE said == Says("DECODE_REVIEW", ReviewOf(ev))
  <1>1. said.disposition = ReviewOf(ev)
    BY DEF Says
  <1>2. Voices(ev) = Heard(ev) \cup Equations(ev) \cup {said}
    BY DEF Voices
  <1> HIDE DEF said
  <1>3. Dispositions(Heard(ev) \cup Equations(ev) \cup {said})
          = Dispositions(Heard(ev)) \cup {said.disposition} \cup Dispositions(Equations(ev))
    BY DEF Dispositions
  <1>4. QED
    BY <1>1, <1>2, <1>3

\* ts holds what the arms said of ev, and beyond it only words of the review and
\* of the aggregation.
Carries(ts, ev) ==
    /\ Heard(ev) \subseteq ts
    /\ \A t \in ts : t \in Heard(ev) \/ t.stage \in {"AGGREGATOR", "DECODE_REVIEW"}

\* A decision keeps what the arms said.
LEMMA DecisionCarries ==
    ASSUME NEW ev, NEW ts, Carries(ts, ev)
    PROVE  Carries(DecisionFrom(ts).testimonies, ev)
  <1> DEFINE conflict == Conflict(Court(OTCourtStages, ts), Court(DecodeCourtStages, ts))
  <1>1. DecisionFrom(ts).testimonies = ts \cup conflict
    BY Zenon DEF DecisionFrom
  <1>2. \A t \in conflict : t.stage = "AGGREGATOR"
    BY DEF Conflict, Says
  <1>3. QED
    BY <1>1, <1>2 DEF Carries

\* The words of the arms, before the review.
LEMMA HeardIsSound ==
    ASSUME NEW ev \in Evidence
    PROVE  LET heard == Strongest(Dispositions(Heard(ev)))
           IN  /\ heard \in Disposition
               /\ Tops(Dispositions(Heard(ev)), heard)
               /\ Sound(Heard(ev), heard)
  <1> DEFINE heard == Strongest(Dispositions(Heard(ev)))
  <1>1. Dispositions(Heard(ev)) \in SUBSET Disposition /\ Dispositions(Heard(ev)) # {}
    BY HeardTyped DEF Dispositions, Testimony
  <1>2. Tops(Dispositions(Heard(ev)), heard) /\ heard \in Disposition
    BY <1>1, StrongestIsTop DEF Tops
  <1>3. QED
    BY <1>2, HeardTyped DEF Sound, Tops, Dispositions

\* Both witnesses testify in the decode court.
LEMMA EquationsTyped ==
    ASSUME NEW ev \in Evidence
    PROVE  /\ Equations(ev) \in SUBSET Testimony
           /\ Dispositions(Equations(ev)) \subseteq Disposition
           /\ \A t \in Equations(ev) : t.stage = "DECODE_REVIEW"
  <1>1. /\ Equations(ev) \in SUBSET Testimony
        /\ \A t \in Equations(ev) : t.stage = "DECODE_REVIEW"
    BY DEF Equations, Evidence, Says, Testimony, Stage, DecodeCourtStages, Disposition
  <1>2. QED
    BY <1>1 DEF Dispositions, Testimony

\* The review overlay decides on all that was said, or leaves the decision.
LEMMA ReviewedDecision ==
    ASSUME NEW ev \in Evidence
    PROVE  LET second == Strongest({Strongest(Dispositions(Heard(ev))), ReviewOf(ev)})
           IN  /\ Tops({Strongest(Dispositions(Heard(ev))), ReviewOf(ev)}, second)
               /\ second \in Disposition
               /\ \E ts : /\ EscalateDecision(RunParallelAudit(ev), ReviewOf(ev)) = DecisionFrom(ts)
                         /\ Sound(ts, second) /\ Carries(ts, ev)
  <1> DEFINE heard    == Strongest(Dispositions(Heard(ev)))
             review   == ReviewOf(ev)
             verdict  == RunParallelAudit(ev)
             second   == Strongest({heard, review})
  <1>1. verdict.disposition = heard /\ Sound(verdict.testimonies, heard)
    BY HeardIsSound, DecisionIsStrongest DEF RunParallelAudit
  <1>2. Carries(Heard(ev), ev) /\ Carries(verdict.testimonies, ev)
    <2>1. Carries(Heard(ev), ev)
      BY DEF Carries
    <2>2. QED
      BY <2>1, DecisionCarries DEF RunParallelAudit
  <1>3. review \in {"PASS", "HOLD", "QUARANTINE"}
    BY ReviewType DEF ReviewOf
  <1>4. second \in Disposition /\ Tops({heard, review}, second)
    BY HeardIsSound, <1>3, StrongestIsTop DEF Tops, Disposition
  <1>5. CASE Rank[review] <= Rank[heard] \/ review = "PASS"
    <2>1. second = heard
      BY <1>5, HeardIsSound, <1>3, <1>4, Ranks DEF Tops, Disposition
    <2>2. EscalateDecision(verdict, review) = DecisionFrom(Heard(ev))
      BY <1>5, <1>1 DEF EscalateDecision, RunParallelAudit
    <2>3. QED
      BY <2>1, <2>2, <1>2, <1>4, HeardIsSound
  <1>6. CASE ~(Rank[review] <= Rank[heard] \/ review = "PASS")
    <2> DEFINE word == Says("DECODE_REVIEW", review)
    <2>1. word \in Testimony /\ word.stage = "DECODE_REVIEW"
      BY <1>3 DEF Says, Testimony, Stage, DecodeCourtStages, Disposition
    <2>2. {heard} \cup Dispositions({word}) = {heard, review}
      BY DEF Dispositions, Says
    <2>3. Sound(verdict.testimonies \cup {word}, second)
      BY <2>1, <2>2, <1>1, <1>4, SoundGrows
    <2>4. EscalateDecision(verdict, review) = DecisionFrom(verdict.testimonies \cup {word})
      BY <1>6, <1>1 DEF EscalateDecision
    <2>5. Carries(verdict.testimonies \cup {word}, ev)
      BY <2>1, <1>2 DEF Carries
    <2>6. QED
      BY <2>3, <2>4, <2>5, <1>4
  <1>7. QED
    BY <1>5, <1>6

\* The verdict is a decision of the two courts on all that was said.
LEMMA VerdictIsADecision ==
    ASSUME NEW ev \in Evidence
    PROVE  \E ts, d : /\ AuditWithXrayReview(ev) = DecisionFrom(ts)
                      /\ Sound(ts, d) /\ Carries(ts, ev)
                      /\ Tops(Dispositions(Voices(ev)), d)
  <1> DEFINE heard    == Strongest(Dispositions(Heard(ev)))
             review   == ReviewOf(ev)
             reviewed == EscalateDecision(RunParallelAudit(ev), review)
             second   == Strongest({heard, review})
             words    == {second} \cup Dispositions(Equations(ev))
             final    == Strongest(words)
  <1>1. /\ Tops({heard, review}, second) /\ second \in Disposition
        /\ \E ts : reviewed = DecisionFrom(ts) /\ Sound(ts, second) /\ Carries(ts, ev)
    BY ReviewedDecision
  <1>2. PICK ts : reviewed = DecisionFrom(ts) /\ Sound(ts, second) /\ Carries(ts, ev)
    BY <1>1
  <1>3. Tops(words, final) /\ final \in Disposition
    BY <1>1, EquationsTyped, StrongestIsTop DEF Tops
  <1>4. Tops(Dispositions(Voices(ev)), final)
    <2>1. final \in Dispositions(Voices(ev))
      BY <1>1, <1>3, VoicesSay, HeardIsSound DEF Tops
    <2>2. /\ Rank[heard] <= Rank[second] /\ Rank[review] <= Rank[second]
          /\ Rank[second] <= Rank[final]
          /\ \A e \in Dispositions(Equations(ev)) : Rank[e] <= Rank[final]
      BY <1>1, <1>3 DEF Tops
    <2>3. \A e \in Dispositions(Heard(ev)) : Rank[e] <= Rank[heard] /\ e \in Disposition
      BY HeardIsSound, HeardTyped DEF Tops, Dispositions, Testimony
    <2>4. review \in Disposition
      BY ReviewType DEF ReviewOf, Disposition
    <2>5. \A e \in Dispositions(Heard(ev)) : Rank[e] <= Rank[final]
      BY <2>2, <2>3, <1>1, <1>3, HeardIsSound, Ranks
    <2>6. Rank[review] <= Rank[final]
      BY <2>2, <2>4, <1>1, <1>3, Ranks
    <2>7. QED
      BY <2>1, <2>2, <2>5, <2>6, VoicesSay DEF Tops
  <1>5. CASE Equations(ev) = {}
    <2>1. words = {second}
      BY <1>5 DEF Dispositions
    <2>2. final = second
      BY <2>1, <1>3 DEF Tops
    <2>3. AuditWithXrayReview(ev) = reviewed
      BY <1>5 DEF AuditWithXrayReview
    <2>4. QED
      BY <2>2, <2>3, <1>2, <1>4
  <1>6. CASE Equations(ev) # {}
    <2> DEFINE all == reviewed.testimonies \cup Equations(ev)
    <2>1. Sound(reviewed.testimonies, second) /\ Carries(reviewed.testimonies, ev)
      BY <1>2, DecisionIsStrongest, DecisionCarries
    <2>2. Sound(all, final)
      BY <2>1, <1>3, EquationsTyped, SoundGrows
    <2>3. Carries(all, ev)
      BY <2>1, EquationsTyped DEF Carries
    <2>4. AuditWithXrayReview(ev) = DecisionFrom(all)
      BY <1>6 DEF AuditWithXrayReview
    <2>5. QED
      BY <2>2, <2>3, <2>4, <1>4
  <1>7. QED
    BY <1>5, <1>6

\* All voices are testimonies.
LEMMA VoicesTyped ==
    ASSUME NEW ev \in Evidence
    PROVE  Voices(ev) \in SUBSET Testimony
  <1>1. Says("DECODE_REVIEW", ReviewOf(ev)) \in Testimony
    BY ReviewType DEF ReviewOf, Says, Testimony, Stage, DecodeCourtStages, Disposition
  <1>2. QED
    BY <1>1, HeardTyped, EquationsTyped DEF Voices

\* No voice is lost between the courts, the review overlay and the two
\* aggregations: the verdict is the strongest word of anyone, for every evidence.
THEOREM CourtsHearAll ==
    ASSUME NEW ev \in Evidence
    PROVE  AuditIsStrongest(ev)
  <1>1. PICK ts, d : /\ AuditWithXrayReview(ev) = DecisionFrom(ts)
                     /\ Sound(ts, d) /\ Carries(ts, ev)
                     /\ Tops(Dispositions(Voices(ev)), d)
    BY VerdictIsADecision
  <1>2. AuditWithXrayReview(ev).disposition = d
    BY <1>1, DecisionIsStrongest
  <1>3. Dispositions(Voices(ev)) \in SUBSET Disposition
    BY VoicesTyped DEF Dispositions, Testimony
  <1>4. Strongest({t.disposition : t \in Voices(ev)}) = d
    BY <1>1, <1>3, TopIsStrongest DEF Dispositions
  <1>5. QED
    BY <1>2, <1>4 DEF AuditIsStrongest

\* The X-ray review and the two witnesses only tighten: what they add to the
\* arms never makes the verdict milder (audit_with_xray_review).
THEOREM OverlayOnlyTightens ==
    ASSUME NEW ev \in Evidence
    PROVE  Rank[RunParallelAudit(ev).disposition] <= Rank[AuditWithXrayReview(ev).disposition]
  <1> DEFINE heard == Strongest(Dispositions(Heard(ev)))
  <1>1. PICK ts, d : /\ AuditWithXrayReview(ev) = DecisionFrom(ts)
                     /\ Sound(ts, d) /\ Tops(Dispositions(Voices(ev)), d)
    BY VerdictIsADecision
  <1>2. AuditWithXrayReview(ev).disposition = d
    BY <1>1, DecisionIsStrongest
  <1>3. RunParallelAudit(ev).disposition = heard
    BY HeardIsSound, DecisionIsStrongest DEF RunParallelAudit
  <1>4. heard \in Dispositions(Heard(ev))
    BY HeardIsSound DEF Tops
  <1>5. heard \in Dispositions(Voices(ev))
    BY <1>4 DEF Voices, Dispositions
  <1>6. QED
    BY <1>1, <1>2, <1>3, <1>5 DEF Tops

\* Numbers from n on have a least one.
HasLeast(n) == \A s \in SUBSET (n..11) : s # {} => \E i \in s : \A j \in s : i <= j

\* One step down.
LEMMA LeastBelow ==
    ASSUME NEW n \in Nat, HasLeast(n + 1)
    PROVE  HasLeast(n)
  <1> SUFFICES ASSUME NEW s \in SUBSET (n..11), s # {}
               PROVE  \E i \in s : \A j \in s : i <= j
    BY DEF HasLeast
  <1>1. CASE n \in s
    BY <1>1
  <1>2. CASE n \notin s
    BY <1>2 DEF HasLeast
  <1>3. QED
    BY <1>1, <1>2

\* No list of stages is longer than eleven.
LEMMA LeastOfFew == HasLeast(1)
  <1>0. HasLeast(11)
    <2>1. \A i \in 11..11 : i = 11
      OBVIOUS
    <2>2. SUFFICES ASSUME NEW s \in SUBSET (11..11), s # {}
                   PROVE  \E i \in s : \A j \in s : i <= j
      BY DEF HasLeast
    <2>3. \A j \in s : j = 11
      BY <2>1
    <2>4. 11 \in s
      BY <2>2, <2>3
    <2>5. QED
      BY <2>3, <2>4
  <1>1. HasLeast(10) /\ HasLeast(9)
    BY <1>0, LeastBelow
  <1>2. HasLeast(8) /\ HasLeast(7)
    BY <1>1, LeastBelow
  <1>3. HasLeast(6) /\ HasLeast(5)
    BY <1>2, LeastBelow
  <1>4. HasLeast(4) /\ HasLeast(3)
    BY <1>3, LeastBelow
  <1>5. HasLeast(2)
    BY <1>4, LeastBelow
  <1>6. QED
    BY <1>5, LeastBelow

\* The least of numbers among which 1 or 2 is.
LEMMA FirstTwo ==
    ASSUME NEW s \in SUBSET (Nat \ {0}), 1 \in s \/ 2 \in s,
           NEW m \in s, \A j \in s : m <= j
    PROVE  m \in {1, 2}
  OBVIOUS

\* A primary testimony is one of those it is looked for among; of holds, one of
\* the protect scan or of the channel audit comes first.
LEMMA PrimaryStage ==
    ASSUME NEW ts \in SUBSET Testimony, NEW d, Dispositions(ts) = {d}
    PROVE  /\ \E t \in ts : t.stage = Primary(ts).stage
           /\ (d = "HOLD" /\ \E t \in ts : t.stage \in {"PROTECT_SCAN", "CHANNEL_AUDIT"})
                => Primary(ts).stage \in {"PROTECT_SCAN", "CHANNEL_AUDIT"}
  <1> DEFINE strongest == Strongest(Dispositions(ts))
             stages    == {t.stage : t \in {u \in ts : u.disposition = strongest}}
             priority  == StagePriority[strongest]
             listed    == {i \in DOMAIN priority : priority[i] \in stages}
             spare     == IF stages \cap OTCourtStages # {}
                          THEN CHOOSE s \in stages \cap OTCourtStages : TRUE
                          ELSE CHOOSE s \in stages : TRUE
  <1>1. strongest = d /\ d \in Disposition
    <2>1. d \in Disposition
      BY DEF Dispositions, Testimony
    <2>2. Tops({d}, d)
      BY <2>1, Ranks DEF Tops
    <2>3. QED
      BY <2>1, <2>2, TopIsStrongest
  <1>2. stages # {} /\ \A s \in stages : \E t \in ts : t.stage = s
    BY <1>1 DEF Dispositions
  <1>3. stages = {t.stage : t \in ts}
    BY <1>1 DEF Dispositions
  <1>4. Primary(ts).stage = IF listed # {} THEN priority[Min(listed)] ELSE spare
    BY Zenon DEF Primary, Says, Dispositions
  <1>5. listed # {} => Min(listed) \in listed /\ \A j \in listed : Min(listed) <= j
    <2>1. DOMAIN priority \in SUBSET (1..11)
      BY <1>1 DEF StagePriority, Disposition
    <2>2. listed # {} => \E i \in listed : \A j \in listed : i <= j
      BY <2>1, LeastOfFew DEF HasLeast
    <2>3. QED
      BY <2>2, Zenon DEF Min
  <1>6. spare \in stages
    BY <1>2
  <1>7. \E t \in ts : t.stage = Primary(ts).stage
    BY <1>2, <1>4, <1>5, <1>6
  <1>8. ASSUME d = "HOLD", NEW t \in ts, t.stage \in {"PROTECT_SCAN", "CHANNEL_AUDIT"}
        PROVE  Primary(ts).stage \in {"PROTECT_SCAN", "CHANNEL_AUDIT"}
    <2>1. /\ 1 \in DOMAIN priority /\ 2 \in DOMAIN priority /\ DOMAIN priority \subseteq Nat \ {0}
          /\ priority[1] = "PROTECT_SCAN" /\ priority[2] = "CHANNEL_AUDIT"
      BY <1>1, <1>8 DEF StagePriority
    <2>2. 1 \in listed \/ 2 \in listed
      BY <2>1, <1>3, <1>8
    <2>3. Min(listed) \in {1, 2}
      BY <2>1, <2>2, <1>5, FirstTwo
    <2>4. QED
      BY <2>1, <2>2, <2>3, <1>4
  <1>9. QED
    BY <1>7, <1>8

\* Nobody speaks against what passes.
LEMMA PassedInSilence ==
    ASSUME NEW ev \in Evidence, AuditWithXrayReview(ev).disposition \notin Disposition \ {"PASS"}
    PROVE  \A t \in Voices(ev) : t.disposition = "PASS"
  <1>1. PICK ts, d : /\ AuditWithXrayReview(ev) = DecisionFrom(ts)
                     /\ Sound(ts, d) /\ Carries(ts, ev)
                     /\ Tops(Dispositions(Voices(ev)), d)
    BY VerdictIsADecision
  <1>2. d = "PASS"
    BY <1>1, DecisionIsStrongest DEF Sound
  <1>3. \A t \in Voices(ev) : t.disposition \in Disposition /\ Rank[t.disposition] <= 1
    BY <1>1, <1>2, VoicesTyped, Ranks DEF Tops, Dispositions, Testimony
  <1>4. QED
    BY <1>3, Ranks DEF Disposition

\* A verdict that is blamed on the opaque wall is a hold, and holds are all that
\* was said: none of them by admission, the protect scan or the channel audit.
LEMMA WallHolds ==
    ASSUME NEW ev \in Evidence,
           AuditWithXrayReview(ev).primary_stage = "COMMAND_SURFACE",
           ev.surface = "OPAQUE"
    PROVE  /\ AuditWithXrayReview(ev).disposition = "HOLD"
           /\ Says("COMMAND_SURFACE", "HOLD") \in Voices(ev)
           /\ \A t \in Voices(ev) : t.disposition # "PASS" =>
                /\ t.disposition = "HOLD"
                /\ t.stage \notin {"ADMISSION", "PROTECT_SCAN", "CHANNEL_AUDIT"}
  <1>1. PICK ts, d : /\ AuditWithXrayReview(ev) = DecisionFrom(ts)
                     /\ Sound(ts, d) /\ Carries(ts, ev)
                     /\ Tops(Dispositions(Voices(ev)), d)
    BY VerdictIsADecision
  <1> DEFINE ot       == Court(OTCourtStages, ts)
             decode   == Court(DecodeCourtStages, ts)
             deciding == UNION {c \in {ot, decode} : Verdict(c) = d}
             speaking == {t \in deciding : t.disposition = d}
  <1>2. /\ Dispositions(speaking) = {d} /\ speaking \in SUBSET Testimony
        /\ AuditWithXrayReview(ev).disposition = d
        /\ Primary(speaking).stage = "COMMAND_SURFACE"
        /\ \A t \in ts : t.disposition = d /\ t.stage # "AGGREGATOR" => t \in speaking
        /\ \A t \in speaking : t \in ts \/ t = Missing
    <2>1. /\ Dispositions(speaking) = {d} /\ speaking \in SUBSET Testimony
          /\ DecisionFrom(ts).disposition = d
          /\ DecisionFrom(ts).primary_stage = Primary(speaking).stage
          /\ \A t \in ts : t.disposition = d /\ t.stage # "AGGREGATOR" => t \in speaking
          /\ \A t \in speaking : t \in ts \/ t = Missing
      BY <1>1, SpeakingCourts
    <2> HIDE DEF speaking
    <2>2. QED
      BY <1>1, <2>1
  <1>3. PICK held \in speaking : held.stage = "COMMAND_SURFACE"
    BY <1>2, PrimaryStage
  <1>4. held \in Heard(ev) /\ held.disposition = d
    BY <1>1, <1>2, <1>3 DEF Carries, Missing, Says
  <1>5. /\ ev.ticket = "ADMIT" /\ d = "HOLD" /\ held = Says("COMMAND_SURFACE", "HOLD")
    BY <1>3, <1>4 DEF Heard, Bundle, Says, SurfaceDisposition
  <1>6. \A t \in Voices(ev) : t.disposition # "PASS" => t.disposition = "HOLD"
    <2>1. \A t \in Voices(ev) : t.disposition \in Disposition
      BY VoicesTyped DEF Testimony
    <2>2. QED
      BY <1>1, <1>5, <2>1, Ranks DEF Tops, Dispositions, Disposition
  <1>7. ASSUME NEW t \in Voices(ev), t.disposition = "HOLD"
        PROVE  t.stage \notin {"ADMISSION", "PROTECT_SCAN", "CHANNEL_AUDIT"}
    <2>1. CASE t \in Heard(ev)
      <3>1. t.stage \notin {"PROTECT_SCAN", "CHANNEL_AUDIT"}
        BY <1>1, <1>2, <1>5, <1>7, <2>1, PrimaryStage DEF Carries
      <3>2. t.stage # "ADMISSION"
        BY <1>5, <1>7, <2>1 DEF Heard, Bundle, Says, AdmissionDisposition
      <3>3. QED
        BY <3>1, <3>2
    <2>2. CASE t \notin Heard(ev)
      <3>1. t.stage = "DECODE_REVIEW"
        BY <2>2, EquationsTyped DEF Voices, Says
      <3>2. QED
        BY <3>1
    <2>3. QED
      BY <2>1, <2>2
  <1>8. QED
    BY <1>2, <1>4, <1>5, <1>6, <1>7 DEF Voices

-----------------------------------------------------------------------------
(* Type correctness of the hooks *)


\* What is asked of a call.
LEMMA AskedType ==
    ASSUME request \in Workload, NEW c \in Made
    PROVE  /\ c \in Call /\ Asked(c).cid \in Cid /\ Asked(c).session \in Session
           /\ Asked(c).file \in File /\ Asked(c).evidence \in Evidence
           /\ Asked(c).scoped \in BOOLEAN
  <1>1. c \in Call /\ Asked(c) \in Request
    BY HookAssumption DEF Made, Asked
  <1>2. QED
    BY <1>1 DEF Request

LEMMA TypeInit == Init => TypeOK
  BY DEF Init, TypeOK, Hook, Image

LEMMA TypeStep ==
    ASSUME TypeOK, [Next]_vars
    PROVE  TypeOK'
  <1> USE DEF TypeOK
  <1>1. CASE UNCHANGED vars
    BY <1>1 DEF vars, Made
  <1>2. ASSUME NEW c \in Made, Judge(c)
        PROVE  TypeOK'
    BY <1>2, AskedType DEF Judge, Goto, Tighten, Hook, Made
  <1>3. ASSUME NEW c \in Made, NEW vote, TemporalVote(c, vote) \/ SceneVote(c, vote)
        PROVE  TypeOK'
    BY <1>3 DEF TemporalVote, SceneVote, Goto, Tighten, Hook, Made
  <1>4. ASSUME NEW c \in Made, NEW rolled \in [File -> Image], Restore(c, rolled)
        PROVE  TypeOK'
    BY <1>4 DEF Restore, Goto, Hook, Made
  <1>5. ASSUME NEW c \in Made, WriteState(c)
        PROVE  TypeOK'
    <2>1. [call |-> c, blocked |-> output[c], enter |-> enter[c], expired |-> FALSE] \in State
      BY AskedType DEF State
    <2>2. StatePath(c) \in Cid
      BY AskedType DEF StatePath
    <2>3. QED
      BY <1>5, <2>1, <2>2 DEF WriteState, Goto, Hook, Made
  <1>6. ASSUME NEW c \in Made, NEW w, WriteLog(c, w)
        PROVE  TypeOK'
    BY <1>6 DEF WriteLog, Goto, Tighten, Hook, Made
  <1>7. ASSUME NEW c \in Made, NEW held, Journal(c, held)
        PROVE  TypeOK'
    BY <1>7 DEF Journal, Goto, Tighten, Hook, Made
  <1>8. ASSUME NEW c \in Made, LookForMarker(c) \/ Answer(c)
        PROVE  TypeOK'
    BY <1>8 DEF LookForMarker, Answer, Goto, Hook, Made
  <1>9. ASSUME NEW c \in Made, WriteNote(c) \/ WriteMarker(c)
        PROVE  TypeOK'
    BY <1>9, AskedType DEF WriteNote, WriteMarker, Goto, Hook, Made
  <1>10. ASSUME NEW c \in Made, FailClosed(c) \/ Kill(c)
         PROVE  TypeOK'
    BY <1>10, AskedType DEF FailClosed, Kill, Interrupted, Goto, Hook, Made, StatePath
  <1>11. ASSUME NEW c \in Made, NEW image \in Image, Run(c, image)
         PROVE  TypeOK'
    BY <1>11, AskedType DEF Run, Goto, Hook, Made
  <1>12. ASSUME NEW d \in Cid, Expire(d)
         PROVE  TypeOK'
    <2>1. state[d] \in State
      BY <1>12 DEF Expire
    <2>2. [state[d] EXCEPT !.expired = TRUE] \in State
      BY <2>1 DEF State
    <2>3. QED
      BY <1>12, <2>2 DEF Expire, Made
  <1>13. ASSUME NEW c \in Made, PostTool(c)
         PROVE  TypeOK'
    <2>1. CASE \E how \in {"unreadable", "unobserved", "PASS", "HOLD", "QUARANTINE"} : Closed(c, how)
      BY <2>1 DEF Closed, Goto, Hook, Made
    <2>2. CASE \E blind \in BOOLEAN : Autopsy(c, blind)
      BY <2>2, <2>1, ReviewType DEF Autopsy
    <2>3. CASE AutopsyUnreadable(c) \/ AutopsyUnobserved(c)
      BY <2>3, <2>1 DEF AutopsyUnreadable, AutopsyUnobserved
    <2>4. QED
      BY <1>13, <2>2, <2>3 DEF PostTool
  <1>14. QED
    BY <1>1, <1>2, <1>3, <1>4, <1>5, <1>6, <1>7, <1>8, <1>9, <1>10, <1>11, <1>12, <1>13
       DEF Next, PreTool

-----------------------------------------------------------------------------

\* Where a call is judged, has its state file, has its row.
Judged == (Hook \ {"new"}) \cup {"allowed"}

Logged == {"journal", "note", "noting", "mark", "answer", "allowed"}

Stated == {"log"} \cup Logged

Objection(c) == \/ SpatialDenial(Asked(c))
                \/ Asked(c).git_surface
                \/ ~Asked(c).recognized

\* A call that is still allowed met no objection.
Cleared(c) ==
    /\ pc[c] \in Judged /\ ~output[c] => ~Objection(c)
    /\ pc[c] = "allowed" => ~output[c]

\* A call that is still allowed after its row has it in the log, unblocked.
Recorded(c) == pc[c] \in Logged /\ ~output[c] => [call |-> c, blocked |-> FALSE] \in log

Stands(kept) == kept \notin {NoState, Torn}

\* The state file of a call with an id of its own is its own.
Kept(c) ==
    Alone(c) =>
      /\ pc[c] = "new" => state[StatePath(c)] = NoState
      /\ Stands(state[StatePath(c)]) =>
           state[StatePath(c)].call = c /\ state[StatePath(c)].enter = enter[c]
      /\ pc[c] \in Stated /\ ~output[c] =>
           Stands(state[StatePath(c)]) /\ ~state[StatePath(c)].blocked

DeletesScoped(c) == Asked(c).scoped /\ "DELETE" \in Asked(c).effects

\* How far the note of an allowed delete has come.
Noted(c) ==
    /\ pc[c] = "noting" => ~output[c] /\ DeletesScoped(c)
    /\ pc[c] = "mark" => note[Asked(c).session] # NoState
    /\ pc[c] \in {"answer", "allowed"} /\ ~output[c] /\ DeletesScoped(c) =>
         note[Asked(c).session] # NoState

\* A note is about a delete that was not denied.
TrueNotes ==
    \A s \in Session :
      /\ marker[s] => note[s] # NoState
      /\ note[s] \in Call =>
           /\ note[s] \in Made /\ Asked(note[s]).scoped /\ ~output[note[s]]
           /\ pc[note[s]] \in {"mark", "answer", "allowed", "denied", "killed", "ran", "done"}

\* No autopsy has ended before its call has.
Unopened(c) == pc[c] # "done" => autopsy[c] = NoAutopsy

IInv ==
    /\ TypeOK
    /\ \A c \in Made : Cleared(c) /\ Recorded(c) /\ Kept(c) /\ Noted(c) /\ Unopened(c)
    /\ TrueNotes

LEMMA InvInit == Init => IInv
  <1> SUFFICES ASSUME Init PROVE IInv
    OBVIOUS
  <1>1. TypeOK
    BY TypeInit
  <1>2. \A c \in Made : /\ pc[c] = "new" /\ StatePath(c) \in Cid
                        /\ state[StatePath(c)] = NoState
    BY <1>1, AskedType DEF Init, StatePath, TypeOK
  <1>3. \A c \in Made : Cleared(c) /\ Recorded(c) /\ Kept(c) /\ Noted(c) /\ Unopened(c)
    BY <1>2 DEF Cleared, Recorded, Kept, Noted, Unopened, Judged, Logged, Stated, Stands, Init
  <1>4. TrueNotes
    BY HookAssumption DEF Init, TrueNotes
  <1>5. QED
    BY <1>1, <1>3, <1>4 DEF IInv

\* What a step of one hook does to its call, and to no other.
LEMMA HookMoves ==
    ASSUME IInv, NEW c \in Made, PreTool(c)
    PROVE  /\ request' = request /\ files' \in [File -> Image]
           /\ pc[c] \in Hook /\ pc' = [pc EXCEPT ![c] = pc'[c]]
           /\ output' = [output EXCEPT ![c] = output'[c]]
           /\ output[c] => output'[c]
           /\ log \subseteq log'
           /\ enter' # enter => pc[c] = "new" /\ enter' = [enter EXCEPT ![c] = enter'[c]]
           /\ state' # state => pc[c] = "state" /\ state' = [state EXCEPT ![StatePath(c)] =
                                                               state'[StatePath(c)]]
           /\ pc'[c] = "allowed" => Answer(c)
           /\ pc'[c] \in Judged /\ pc[c] \notin Judged => Judge(c)
           /\ pc'[c] \in Logged /\ pc[c] \notin Logged => \E w : WriteLog(c, w)
           /\ pc'[c] \in Stated /\ pc[c] \notin Stated => WriteState(c)
  <1> USE DEF IInv, TypeOK, Goto, Tighten, Hook, Judged, Logged, Stated
  <1>1. CASE Judge(c)
    BY <1>1 DEF Judge
  <1>2. CASE \E vote : TemporalVote(c, vote) \/ SceneVote(c, vote)
    BY <1>2 DEF TemporalVote, SceneVote
  <1>3. CASE \E rolled \in [File -> Image] : Restore(c, rolled)
    BY <1>3 DEF Restore
  <1>4. CASE WriteState(c)
    BY <1>4 DEF WriteState
  <1>5. CASE \E w : WriteLog(c, w)
    BY <1>5 DEF WriteLog
  <1>6. CASE \E held : Journal(c, held)
    BY <1>6 DEF Journal
  <1>7. CASE LookForMarker(c) \/ Answer(c)
    BY <1>7 DEF LookForMarker, Answer
  <1>8. CASE WriteNote(c) \/ WriteMarker(c)
    BY <1>8 DEF WriteNote, WriteMarker
  <1>9. CASE FailClosed(c) \/ Kill(c)
    BY <1>9 DEF FailClosed, Kill, Interrupted
  <1>10. QED
    BY <1>1, <1>2, <1>3, <1>4, <1>5, <1>6, <1>7, <1>8, <1>9 DEF PreTool

\* The host, the clock and the autopsies leave the answers of the hooks alone.
Aside == \/ UNCHANGED vars
         \/ \E c \in Made : PostTool(c) \/ \E image \in Image : Run(c, image)
         \/ \E d \in Cid : Expire(d)

\* Their steps leave the records of a call as they are, and may age its state file.
LEMMA AsideMoves ==
    ASSUME IInv, Aside
    PROVE  /\ request' = request /\ output' = output /\ enter' = enter /\ log' = log
           /\ marker' = marker /\ note' = note
           /\ \A c \in Made : pc'[c] = pc[c] \/ (pc[c] \notin Hook /\ pc'[c] \in {"ran", "done"})
           /\ \A d \in Cid : \/ state'[d] = state[d]
                            \/ /\ Stands(state[d]) /\ Stands(state'[d])
                               /\ state'[d].call = state[d].call
                               /\ state'[d].blocked = state[d].blocked
                               /\ state'[d].enter = state[d].enter
  <1> USE DEF IInv, TypeOK, Goto, Hook
  <1>1. CASE UNCHANGED vars
    BY <1>1 DEF vars
  <1>2. CASE \E c \in Made : PostTool(c)
    BY <1>2 DEF PostTool, AutopsyUnreadable, AutopsyUnobserved, Autopsy, Closed
  <1>3. CASE \E c \in Made : \E image \in Image : Run(c, image)
    BY <1>3 DEF Run
  <1>4. ASSUME NEW d \in Cid, Expire(d)
        PROVE  /\ UNCHANGED <<request, pc, output, enter, log, marker, note>>
               /\ Stands(state[d]) /\ Stands(state'[d])
               /\ \A e \in Cid \ {d} : state'[e] = state[e]
               /\ state'[d].call = state[d].call
               /\ state'[d].blocked = state[d].blocked
               /\ state'[d].enter = state[d].enter
    <2>1. state[d] \in State /\ state' = [state EXCEPT ![d] = [state[d] EXCEPT !.expired = TRUE]]
      BY <1>4 DEF Expire
    <2>2. [state[d] EXCEPT !.expired = TRUE] \in State
      BY <2>1 DEF State
    <2>3. Stands(state'[d])
      BY <2>1, <2>2, HookAssumption DEF Stands
    <2>4. QED
      BY <1>4, <2>1, <2>3 DEF Expire, Stands, State
  <1>5. QED
    BY <1>1, <1>2, <1>3, <1>4 DEF Aside

\* A step is one of a hook, or one aside.
LEMMA Steps ==
    ASSUME [Next]_vars
    PROVE  Aside \/ \E b \in Made : PreTool(b)
  BY DEF Next, Aside

LEMMA ClearedStep ==
    ASSUME IInv, [Next]_vars, NEW c \in Made
    PROVE  Cleared(c)'
  <1> USE DEF Cleared, Judged, Hook
  <1>1. Cleared(c)
    BY DEF IInv
  <1>2. request' = request => Objection(c)' = Objection(c)
    BY DEF Objection, Asked
  <1>3. CASE Aside
    BY <1>1, <1>2, <1>3, AsideMoves
  <1>4. ASSUME NEW b \in Made, PreTool(b), b # c
        PROVE  Cleared(c)'
    BY <1>1, <1>2, <1>4, HookMoves DEF IInv, TypeOK
  <1>5. CASE Judge(c)
    BY <1>1, <1>2, <1>5 DEF Judge, Goto, Tighten, Objection, IInv, TypeOK
  <1>6. CASE PreTool(c) /\ ~Judge(c)
    <2>1. pc'[c] = "allowed" => ~output'[c]
      BY <1>6, HookMoves DEF Answer, Goto, IInv, TypeOK
    <2>2. QED
      BY <1>1, <1>2, <1>6, <2>1, HookMoves DEF IInv, TypeOK
  <1>7. QED
    BY <1>3, <1>4, <1>5, <1>6, Steps

LEMMA RecordedStep ==
    ASSUME IInv, [Next]_vars, NEW c \in Made
    PROVE  Recorded(c)'
  <1> USE DEF Recorded, Logged, Hook
  <1>1. Recorded(c) /\ output[c] \in BOOLEAN
    BY DEF IInv, TypeOK
  <1>2. CASE Aside
    BY <1>1, <1>2, AsideMoves
  <1>3. ASSUME NEW b \in Made, PreTool(b), b # c
        PROVE  Recorded(c)'
    BY <1>1, <1>3, HookMoves DEF IInv, TypeOK
  <1>4. CASE \E w : WriteLog(c, w)
    BY <1>1, <1>4 DEF WriteLog, Tighten, IInv, TypeOK
  <1>5. CASE PreTool(c) /\ ~(\E w : WriteLog(c, w))
    BY <1>1, <1>5, HookMoves DEF IInv, TypeOK
  <1>6. QED
    BY <1>2, <1>3, <1>4, <1>5, Steps

LEMMA KeptStep ==
    ASSUME IInv, [Next]_vars, NEW c \in Made
    PROVE  Kept(c)'
  <1> USE DEF Kept, Stated, Logged, Hook
  <1>1. Kept(c) /\ StatePath(c) \in Cid /\ output[c] \in BOOLEAN
    BY AskedType DEF IInv, TypeOK, StatePath
  <1>2. request' = request => StatePath(c)' = StatePath(c) /\ Alone(c)' = Alone(c)
    BY DEF StatePath, Alone, Asked, Made
  <1>3. CASE Aside
    <2>1. \/ state'[StatePath(c)] = state[StatePath(c)]
          \/ /\ Stands(state[StatePath(c)]) /\ Stands(state'[StatePath(c)])
             /\ state'[StatePath(c)].call = state[StatePath(c)].call
             /\ state'[StatePath(c)].blocked = state[StatePath(c)].blocked
             /\ state'[StatePath(c)].enter = state[StatePath(c)].enter
      BY <1>1, <1>3, AsideMoves
    <2>2. NoState \notin {state[StatePath(c)]} \/ ~Stands(state[StatePath(c)])
      BY DEF Stands
    <2>3. QED
      BY <1>1, <1>2, <1>3, <2>1, <2>2, AsideMoves DEF Stands
  <1>4. ASSUME NEW b \in Made, PreTool(b), b # c
        PROVE  Kept(c)'
    <2>1. Alone(c) => StatePath(b) # StatePath(c)
      BY <1>4 DEF Alone, StatePath
    <2>2. Alone(c) => state'[StatePath(c)] = state[StatePath(c)]
      BY <1>1, <1>4, <2>1, HookMoves DEF IInv, TypeOK
    <2>3. UNCHANGED <<pc[c], output[c], enter[c]>> /\ request' = request
      BY <1>4, HookMoves DEF IInv, TypeOK
    <2>4. QED
      BY <1>1, <1>2, <2>2, <2>3 DEF Stands
  <1>5. CASE WriteState(c)
    <2> DEFINE row == [call |-> c, blocked |-> output[c], enter |-> enter[c], expired |-> FALSE]
    <2>1. /\ state'[StatePath(c)] = row /\ pc'[c] = "log"
          /\ UNCHANGED <<request, output, enter>>
      BY <1>1, <1>5 DEF WriteState, Goto, IInv, TypeOK
    <2>2. row \in State /\ Stands(row)
      <3>1. row \in State
        BY <1>1, AskedType DEF IInv, TypeOK, State
      <3>2. QED
        BY <3>1, HookAssumption DEF Stands
    <2>3. QED
      BY <1>2, <2>1, <2>2 DEF Stands
  <1>6. CASE PreTool(c) /\ pc[c] = "state" /\ ~WriteState(c)
    <2>1. FailClosed(c) \/ Kill(c)
      BY <1>6 DEF PreTool, Judge, TemporalVote, SceneVote, Restore, WriteLog, Journal,
                  LookForMarker, WriteNote, WriteMarker, Answer
    <2>2. /\ pc'[c] \in {"denied", "killed"} /\ UNCHANGED <<request, output, enter>>
          /\ state'[StatePath(c)] \in {state[StatePath(c)], Torn}
      BY <1>1, <2>1 DEF FailClosed, Kill, Interrupted, Goto, IInv, TypeOK
    <2>3. QED
      BY <1>1, <1>2, <2>2 DEF Stands
  <1>7. CASE PreTool(c) /\ pc[c] # "state"
    <2>1. /\ state' = state /\ request' = request /\ pc'[c] # "new"
          /\ enter'[c] # enter[c] => pc[c] = "new"
          /\ pc'[c] \in Stated => pc[c] \in Stated
          /\ output[c] => output'[c]
      <3>1. pc'[c] # "new"
        BY <1>7 DEF PreTool, Judge, TemporalVote, SceneVote, Restore, WriteState, WriteLog,
                    Journal, LookForMarker, WriteNote, WriteMarker, Answer, FailClosed, Kill,
                    Goto, IInv, TypeOK
      <3>2. WriteState(c) => pc[c] = "state"
        BY DEF WriteState
      <3>3. QED
        BY <1>7, <3>1, <3>2, HookMoves DEF IInv, TypeOK
    <2>2. QED
      BY <1>1, <1>2, <2>1 DEF Stands
  <1>8. QED
    BY <1>3, <1>4, <1>5, <1>6, <1>7, Steps

\* A note is made of a call whose note is due, torn or left as it is.
LEMMA NoteMoves ==
    ASSUME IInv, NEW b \in Made, PreTool(b)
    PROVE  /\ \/ note' = note
              \/ /\ pc[b] = "noting"
                 /\ \/ /\ pc'[b] = "mark" /\ note' = [note EXCEPT ![Asked(b).session] = b]
                    \/ note' = [note EXCEPT ![Asked(b).session] = Torn]
           /\ \/ marker' = marker
              \/ /\ pc[b] = "mark" /\ note' = note
                 /\ \A s \in Session : marker'[s] => marker[s] \/ s = Asked(b).session
           /\ pc'[b] = "noting" => LookForMarker(b) /\ NoteIsDue(b)
           /\ pc'[b] = "mark" => WriteNote(b)
           /\ pc'[b] = "answer" => WriteMarker(b) \/ (LookForMarker(b) /\ ~NoteIsDue(b))
           /\ pc'[b] = "allowed" => Answer(b)
           /\ pc[b] \in {"noting", "mark", "answer"} =>
                /\ output'[b] = output[b]
                /\ pc'[b] \in {"mark", "answer", "allowed", "denied", "killed"}
  <1> USE DEF IInv, TypeOK, Goto, Tighten, Hook
  <1>0. Asked(b).session \in Session
    BY AskedType
  <1>1. CASE \/ Judge(b) \/ WriteState(b)
             \/ \E vote : TemporalVote(b, vote) \/ SceneVote(b, vote)
             \/ \E rolled \in [File -> Image] : Restore(b, rolled)
             \/ \E w : WriteLog(b, w)
             \/ \E held : Journal(b, held)
    BY <1>1 DEF Judge, WriteState, TemporalVote, SceneVote, Restore, WriteLog, Journal
  <1>2. CASE LookForMarker(b) \/ Answer(b)
    BY <1>2 DEF LookForMarker, Answer
  <1>3. CASE WriteNote(b)
    BY <1>0, <1>3 DEF WriteNote
  <1>4. CASE WriteMarker(b)
    BY <1>0, <1>4 DEF WriteMarker
  <1>5. CASE FailClosed(b) \/ Kill(b)
    BY <1>0, <1>5 DEF FailClosed, Kill, Interrupted
  <1>6. QED
    BY <1>1, <1>2, <1>3, <1>4, <1>5 DEF PreTool

\* A note once written is never taken away.
LEMMA NotesStay ==
    ASSUME IInv, [Next]_vars, NEW s \in Session, note[s] # NoState
    PROVE  note'[s] # NoState
  <1>1. CASE Aside
    BY <1>1, AsideMoves
  <1>2. ASSUME NEW b \in Made, PreTool(b)
        PROVE  note'[s] # NoState
    <2>1. b # NoState /\ Torn # NoState
      BY HookAssumption, AskedType DEF IInv, TypeOK
    <2>2. QED
      BY <1>2, <2>1, NoteMoves DEF IInv, TypeOK
  <1>3. QED
    BY <1>1, <1>2, Steps

LEMMA NotedStep ==
    ASSUME IInv, [Next]_vars, NEW c \in Made
    PROVE  Noted(c)'
  <1> USE DEF Noted, Hook
  <1>1. Noted(c) /\ TrueNotes /\ Asked(c).session \in Session /\ output[c] \in BOOLEAN
    BY AskedType DEF IInv, TypeOK
  <1>2. request' = request => Asked(c)' = Asked(c) /\ DeletesScoped(c)' = DeletesScoped(c)
    BY DEF Asked, DeletesScoped
  <1>3. note[Asked(c).session] # NoState => note'[Asked(c).session] # NoState
    BY <1>1, NotesStay
  <1>4. CASE Aside
    BY <1>1, <1>2, <1>3, <1>4, AsideMoves
  <1>5. ASSUME NEW b \in Made, PreTool(b), b # c
        PROVE  Noted(c)'
    <2>1. UNCHANGED <<pc[c], output[c]>> /\ request' = request
      BY <1>5, HookMoves DEF IInv, TypeOK
    <2>2. QED
      BY <1>1, <1>2, <1>3, <2>1
  <1>6. CASE PreTool(c)
    <2>1. request' = request /\ pc'[c] # pc[c]
      <3>1. pc'[c] # pc[c]
        BY <1>6 DEF PreTool, Judge, TemporalVote, SceneVote, Restore, WriteState, WriteLog,
                    Journal, LookForMarker, WriteNote, WriteMarker, Answer, FailClosed, Kill,
                    Goto, IInv, TypeOK
      <3>2. QED
        BY <1>6, <3>1, HookMoves
    <2>2. pc'[c] = "noting" => ~output'[c] /\ DeletesScoped(c)
      BY <1>6, NoteMoves DEF LookForMarker, NoteIsDue, DeletesScoped
    <2>3. pc'[c] = "mark" => note'[Asked(c).session] # NoState
      <3>1. c # NoState
        BY HookAssumption, AskedType DEF IInv, TypeOK
      <3>2. QED
        BY <1>1, <1>6, <3>1, NoteMoves DEF WriteNote, IInv, TypeOK
    <2>4. ASSUME pc'[c] = "answer", ~output'[c], DeletesScoped(c)
          PROVE  note'[Asked(c).session] # NoState
      <3>1. CASE WriteMarker(c)
        BY <1>1, <1>3, <3>1 DEF WriteMarker
      <3>2. CASE LookForMarker(c) /\ ~NoteIsDue(c)
        BY <1>1, <1>3, <2>4, <3>2 DEF LookForMarker, NoteIsDue, DeletesScoped, TrueNotes
      <3>3. QED
        BY <1>6, <2>4, <3>1, <3>2, NoteMoves
    <2>5. ASSUME pc'[c] = "allowed", ~output'[c], DeletesScoped(c)
          PROVE  note'[Asked(c).session] # NoState
      BY <1>1, <1>3, <1>6, <2>5, NoteMoves DEF Answer
    <2>6. QED
      BY <1>2, <2>1, <2>2, <2>3, <2>4, <2>5
  <1>7. QED
    BY <1>4, <1>5, <1>6, Steps

LEMMA TrueNotesStep ==
    ASSUME IInv, [Next]_vars
    PROVE  TrueNotes'
  <1>0. /\ TrueNotes /\ Torn \notin Call /\ NoState \notin Call /\ Torn # NoState
        /\ \A c \in Made : c \in Call /\ Asked(c).session \in Session
    BY HookAssumption, AskedType DEF IInv, TypeOK
  <1>1. request' = request => Made' = Made /\ \A c \in Made : Asked(c)' = Asked(c)
    BY DEF Asked, Made
  <1>2. CASE Aside
    BY <1>0, <1>1, <1>2, AsideMoves DEF TrueNotes, Made, Asked, Hook
  <1>3. ASSUME NEW b \in Made, PreTool(b), NEW s \in Session
        PROVE  /\ marker'[s] => note'[s] # NoState
               /\ note'[s] \in Call =>
                    /\ note'[s] \in Made /\ request'[note'[s]].scoped /\ ~output'[note'[s]]
                    /\ pc'[note'[s]] \in {"mark", "answer", "allowed", "denied", "killed",
                                          "ran", "done"}
    <2>1. marker'[s] => note'[s] # NoState
      <3>1. CASE marker[s]
        BY <1>0, <3>1, NotesStay DEF TrueNotes
      <3>2. CASE ~marker[s] /\ marker'[s]
        BY <1>3, <3>2, NoteMoves, NotesStay DEF IInv, Noted
      <3>3. QED
        BY <3>1, <3>2
    <2>2. CASE note'[s] = note[s] /\ note[s] \in Call
      <3> DEFINE left == note[s]
      <3>1. /\ left \in Made /\ Asked(left).scoped /\ ~output[left]
            /\ pc[left] \in {"mark", "answer", "allowed", "denied", "killed", "ran", "done"}
        BY <1>0, <2>2 DEF TrueNotes
      <3>2. CASE left = b
        BY <1>3, <2>1, <2>2, <3>1, <3>2, HookMoves, NoteMoves DEF Asked, Hook
      <3>3. CASE left # b
        <4>1. pc'[left] = pc[left] /\ output'[left] = output[left] /\ request' = request
          BY <1>3, <3>1, <3>3, HookMoves DEF IInv, TypeOK
        <4>2. QED
          BY <2>1, <2>2, <3>1, <4>1 DEF Asked
      <3>4. QED
        BY <3>2, <3>3
    <2>3. CASE note'[s] # note[s] /\ note'[s] \in Call
      <3>1. pc[b] = "noting" /\ pc'[b] = "mark" /\ note'[s] = b /\ output'[b] = output[b]
        BY <1>0, <1>3, <2>3, NoteMoves DEF IInv, TypeOK
      <3>2. ~output[b] /\ Asked(b).scoped /\ request' = request
        BY <1>3, <3>1, HookMoves DEF IInv, Noted, DeletesScoped
      <3>3. QED
        BY <2>1, <3>1, <3>2 DEF Asked
    <2>4. QED
      BY <2>1, <2>2, <2>3
  <1>4. CASE \E b \in Made : PreTool(b)
    <2>1. request' = request
      BY <1>4, HookMoves
    <2>2. QED
      BY <1>3, <1>4, <2>1 DEF TrueNotes, Made, Asked
  <1>5. QED
    BY <1>2, <1>4, Steps

\* Only its own PostToolUse process ends the autopsy of a call.
LEMMA AutopsyMoves ==
    ASSUME IInv, [Next]_vars, NEW c \in Made
    PROVE  \/ autopsy'[c] = autopsy[c] /\ (pc'[c] = "done" <=> pc[c] = "done")
           \/ PostTool(c) /\ pc[c] = "ran" /\ pc'[c] = "done"
  <1> USE DEF IInv, TypeOK, Goto, Hook
  <1>1. CASE UNCHANGED vars \/ \E d \in Cid : Expire(d)
    BY <1>1 DEF vars, Expire
  <1>2. CASE \E b \in Made : PreTool(b)
    <2>1. PICK b \in Made : PreTool(b)
      BY <1>2
    <2>2. autopsy' = autopsy /\ pc'[b] # "done"
      <3>1. CASE \/ Judge(b) \/ WriteState(b) \/ FailClosed(b) \/ Kill(b)
                 \/ \E vote : TemporalVote(b, vote) \/ SceneVote(b, vote)
                 \/ \E rolled \in [File -> Image] : Restore(b, rolled)
        BY <3>1 DEF Judge, WriteState, FailClosed, Kill, Interrupted, TemporalVote, SceneVote,
                    Restore
      <3>2. CASE \/ \E w : WriteLog(b, w)
                 \/ \E held : Journal(b, held)
                 \/ LookForMarker(b) \/ WriteNote(b) \/ WriteMarker(b) \/ Answer(b)
        BY <3>2 DEF WriteLog, Journal, LookForMarker, WriteNote, WriteMarker, Answer
      <3>3. QED
        BY <2>1, <3>1, <3>2 DEF PreTool
    <2>3. pc[b] # "done" /\ pc' = [pc EXCEPT ![b] = pc'[b]]
      BY <2>1, HookMoves
    <2>4. QED
      BY <2>2, <2>3
  <1>3. CASE \E b \in Made : \E image \in Image : Run(b, image)
    BY <1>3 DEF Run
  <1>4. ASSUME NEW b \in Made, PostTool(b)
        PROVE  \/ autopsy'[c] = autopsy[c] /\ (pc'[c] = "done" <=> pc[c] = "done")
               \/ PostTool(c) /\ pc[c] = "ran" /\ pc'[c] = "done"
    <2>1. PICK how : Closed(b, how)
      BY <1>4 DEF PostTool, AutopsyUnreadable, AutopsyUnobserved, Autopsy
    <2>2. QED
      BY <1>4, <2>1 DEF Closed
  <1>5. QED
    BY <1>1, <1>2, <1>3, <1>4 DEF Next

LEMMA UnopenedStep ==
    ASSUME IInv, [Next]_vars, NEW c \in Made
    PROVE  Unopened(c)'
  BY AutopsyMoves DEF IInv, Unopened

LEMMA InvNext == IInv /\ [Next]_vars => IInv'
  <1> SUFFICES ASSUME IInv, [Next]_vars
               PROVE  IInv'
    OBVIOUS
  <1>1. TypeOK'
    BY TypeStep DEF IInv
  <1>2. Made' = Made
    <2>1. request' = request
      BY Steps, AsideMoves, HookMoves
    <2>2. QED
      BY <2>1 DEF Made
  <1>3. \A c \in Made : Cleared(c)' /\ Recorded(c)' /\ Kept(c)' /\ Noted(c)' /\ Unopened(c)'
    BY ClearedStep, RecordedStep, KeptStep, NotedStep, UnopenedStep
  <1>4. QED
    BY <1>1, <1>2, <1>3, TrueNotesStep DEF IInv

LEMMA Invariance == Spec => []IInv
  BY InvInit, InvNext, PTL DEF Spec

-----------------------------------------------------------------------------
(* Theorems *)

\* Every variable of the hooks, the host and the autopsies keeps its type.
THEOREM TypeCorrect == Spec => []TypeOK
  <1>1. IInv => TypeOK
    BY DEF IInv
  <1>2. QED
    BY <1>1, Invariance, PTL

\* For any calls, no voice is lost on the way to the verdict of the courts
\* (_decision_from_testimonies, escalate_decision).
THEOREM VerdictsAreStrongest == Spec => []CourtsAreStrongest
  <1>1. IInv => CourtsAreStrongest
    BY CourtsHearAll, AskedType DEF IInv, TypeOK, CourtsAreStrongest
  <1>2. QED
    BY <1>1, Invariance, PTL

\* For any calls, a relax lets through only what the opaque wall and later arms
\* held, and nothing into .git's executable surface (run_pretool_admission).
THEOREM AllowedClear == Spec => []AllowedIsClear
  <1>1. ASSUME IInv, NEW c \in Made, pc[c] = "allowed"
        PROVE  /\ Asked(c).recognized /\ ~Asked(c).git_surface
               /\ Loud(c) # {} =>
                    /\ Asked(c).ride
                    /\ Says("COMMAND_SURFACE", "HOLD") \in Loud(c)
                    /\ \A t \in Loud(c) :
                         /\ t.disposition = "HOLD"
                         /\ t.stage \notin {"ADMISSION", "PROTECT_SCAN", "CHANNEL_AUDIT"}
    <2> DEFINE ev == Asked(c).evidence
    <2>1. ~SpatialDenial(Asked(c)) /\ Asked(c).recognized /\ ~Asked(c).git_surface
      BY <1>1 DEF IInv, Cleared, Objection, Judged
    <2>2. ev \in Evidence
      BY <1>1, AskedType DEF IInv, TypeOK
    <2>3. CASE AuditWithXrayReview(ev).disposition \notin Blocking
      <3>1. Loud(c) = {}
        BY <2>2, <2>3, PassedInSilence DEF Loud, Blocking, Disposition
      <3>2. QED
        BY <2>1, <3>1
    <2>4. CASE Relaxed(Asked(c))
      <3>1. Asked(c).ride /\ OpaqueIsPrimary(Asked(c), AuditWithXrayReview(ev))
        BY <2>4 DEF Relaxed
      <3>2. /\ Says("COMMAND_SURFACE", "HOLD") \in Voices(ev)
            /\ \A t \in Voices(ev) : t.disposition # "PASS" =>
                 /\ t.disposition = "HOLD"
                 /\ t.stage \notin {"ADMISSION", "PROTECT_SCAN", "CHANNEL_AUDIT"}
        BY <2>2, <3>1, WallHolds DEF OpaqueIsPrimary
      <3>3. Says("COMMAND_SURFACE", "HOLD").disposition # "PASS"
        BY DEF Says
      <3>4. QED
        BY <2>1, <3>1, <3>2, <3>3 DEF Loud
    <2>5. QED
      BY <2>1, <2>3, <2>4 DEF SpatialDenial
  <1>2. IInv => AllowedIsClear
    BY <1>1 DEF AllowedIsClear
  <1>3. QED
    BY <1>2, Invariance, PTL

\* For any calls, an allowed one has its row, and with an id of its own a state
\* file that is about it.
THEOREM AllowedRecorded == Spec => []AllowedIsOnRecord
  <1>1. IInv => AllowedIsOnRecord
    BY DEF IInv, AllowedIsOnRecord, Cleared, Recorded, Kept, Logged, Stated, Stands
  <1>2. QED
    BY <1>1, Invariance, PTL

\* For any calls and sessions, an allowed scoped delete left a note.
THEOREM DeletesNoted == Spec => []DeleteIsNoted
  <1>1. ASSUME IInv, NEW c \in Made, pc[c] = "allowed", DeletesScoped(c)
        PROVE  LET left == note[Asked(c).session]
               IN  /\ left # NoState
                   /\ left \in Call => Asked(left).scoped /\ ~output[left]
    <2>1. Asked(c).session \in Session
      BY <1>1, AskedType DEF IInv, TypeOK
    <2>2. QED
      BY <1>1, <2>1 DEF IInv, Cleared, Noted, TrueNotes
  <1>2. IInv => DeleteIsNoted
    BY <1>1 DEF DeleteIsNoted, DeletesScoped
  <1>3. QED
    BY <1>2, Invariance, PTL

\* A review quarantines exactly the signals it may not hold.
LEMMA ReviewQuarantines ==
    ASSUME NEW axes
    PROVE  Review(axes) = "QUARANTINE" <=> ~(axes \subseteq HoldAxis)
  BY DEF Review, HoldAxis

\* An exact match of target and effect is what it takes to account for a change.
LEMMA ExplainedIsAccounted ==
    ASSUME NEW c
    PROVE  Explained(c, enter[c], files[Asked(c).file]) <=> Accounted(c)
  BY DEF Explained, Accounted, FindingEffect, SameObject

\* For any calls, whatever else runs, the autopsy of a call with an id of its
\* own quarantines exactly what that call did not declare.
THEOREM AutopsiesMatch == Spec => AutopsyIsOfItsCall
  <1>1. ASSUME IInv, [Next]_vars, NEW c \in Made, pc[c] = "ran",
               autopsy'[c] \in {"PASS", "HOLD", "QUARANTINE"}, Alone(c)
        PROVE  autopsy'[c] = "QUARANTINE"
                 <=> ~Accounted(c) \/ ~(Asked(c).evidence.frame \subseteq HoldAxis)
    <2> DEFINE kept == state[StatePath(c)]
    <2>1. PostTool(c)
      BY <1>1, AutopsyMoves, HookAssumption DEF IInv, Unopened
    <2>2. PICK blind \in BOOLEAN : Autopsy(c, blind)
      BY <1>1, <2>1 DEF PostTool, AutopsyUnreadable, AutopsyUnobserved, Closed, IInv, TypeOK
    <2>3. kept.call = c /\ kept.enter = enter[c]
      BY <1>1, <2>2 DEF IInv, Kept, Stands, Autopsy
    <2>4. autopsy'[c] = Review(Asked(c).evidence.frame \cup SealDisguise(kept, blind))
      BY <1>1, <2>2, <2>3 DEF Autopsy, Closed, IInv, TypeOK
    <2>5. SealDisguise(kept, blind) \subseteq HoldAxis <=> Accounted(c)
      BY <2>3, ExplainedIsAccounted DEF SealDisguise, HoldAxis
    <2>6. QED
      BY <2>4, <2>5, ReviewQuarantines
  <1>2. IInv /\ [Next]_vars =>
          [\A c \in Made :
             pc[c] = "ran" /\ autopsy'[c] \in {"PASS", "HOLD", "QUARANTINE"} /\ Alone(c) =>
               (autopsy'[c] = "QUARANTINE"
                  <=> ~Accounted(c) \/ ~(Asked(c).evidence.frame \subseteq HoldAxis))]_vars
    BY <1>1
  <1>3. QED
    BY <1>2, Invariance, PTL DEF Spec, AutopsyIsOfItsCall
=============================================================================
