-------------------------- MODULE VitalsGateProofs --------------------------
(***************************************************************************)
(* The pulse proxy for every choice of its thresholds.  The properties are *)
(* made inductive by saying how the hold-off counts down against the       *)
(* windows that have passed (Settled), and how the reference of the jump   *)
(* guard follows the last usable rate (Guarded).                           *)
(***************************************************************************)
EXTENDS VitalsGate, TLAPS

PastOK ==
    /\ past.quiet \in 0..(CalmMin + Holdoff) /\ past.settled \in 0..Holdoff
    /\ past.seen \in Rates /\ past.refused \in 0..Resync

Settled ==
    /\ calm <= past.quiet
    /\ left + past.settled >= Holdoff - 1
    /\ past.quiet >= CalmMin - 1
         => left + past.quiet >= CalmMin + Holdoff - 1

Guarded ==
    /\ last # 0 => last = past.seen /\ rej = past.refused
    /\ last = 0 /\ past.seen # 0 => past.refused >= Resync

InBand(b) == \E lo, hi \in Bpms : lo <= b /\ b <= hi

Based == BaselineInBand /\ ChangeNeedsBaseline

Inv ==
    /\ TypeOK /\ PastOK /\ Settled /\ Guarded /\ Based
    /\ ValidOnlySettled /\ TrendNeedsCalm

-----------------------------------------------------------------------------
\* The thresholds as numbers.
LEMMA Numbers ==
    /\ Bpms \subseteq 1..255
    /\ StillSamples \in Nat /\ StillSamples >= 1
    /\ CalmMin \in Nat /\ CalmMin >= 1
    /\ Holdoff \in Nat /\ Holdoff >= 1
    /\ Resync \in Nat /\ Resync >= 1
    /\ BaseMin \in Nat /\ BaseMin >= 1
    /\ StaleWin \in Nat /\ StaleWin >= 1
    /\ Limit \in Nat /\ Limit >= 1
    /\ AgreePct \in Nat /\ MaxDelta \in Nat
    /\ SlackBpm \in Nat /\ SlackPct \in Nat
  BY VitalsAssumption

\* What shFuseHr calls usable is a rate between two that were measured.
LEMMA FusedRate ==
    ASSUME NEW f \in Estimates
    PROVE  /\ f \in [ok : BOOLEAN, bpm : Rates]
           /\ f.ok => f.bpm \in 1..255 /\ InBand(f.bpm)
<1>1. PICK peak \in Bpms \union {0}, fft \in Bpms \union {0} :
         f = Fused(peak, fft)
  BY DEF Estimates
<1>2. peak \in 0..255 /\ fft \in 0..255
  BY Numbers
<1> DEFINE avg == (peak + fft) \div 2
           mix == (peak * 192 + fft * 64) \div 256
<1>3. avg \in 0..255 /\ mix \in 0..255
  BY <1>2
<1>4. CASE peak = 0 \/ fft = 0
  <2>1. f = [ok |-> FALSE, bpm |-> peak + fft] /\ peak + fft \in Rates
    BY <1>1, <1>2, <1>4 DEF Fused, Rates
  <2>2. QED
    BY <2>1
<1>5. CASE peak # 0 /\ fft # 0 /\ Distance(peak, fft) * 100 <= avg * AgreePct
  <2>1. f = [ok |-> TRUE, bpm |-> avg]
    BY <1>1, <1>5 DEF Fused
  <2>2. peak \in Bpms /\ fft \in Bpms /\ peak >= 1 /\ fft >= 1
    BY <1>2, <1>5
  <2>3. avg >= 1 /\ ((peak <= avg /\ avg <= fft) \/ (fft <= avg /\ avg <= peak))
    BY <1>2, <2>2
  <2>4. InBand(avg)
    <3> HIDE DEF avg
    <3>1. QED
      BY <2>2, <2>3 DEF InBand
  <2>5. QED
    BY <1>3, <2>1, <2>3, <2>4 DEF Rates
<1>6. CASE peak # 0 /\ fft # 0 /\ ~(Distance(peak, fft) * 100 <= avg * AgreePct)
  <2>1. f = [ok |-> FALSE, bpm |-> mix]
    BY <1>1, <1>6 DEF Fused
  <2>2. QED
    BY <1>3, <2>1 DEF Rates
<1>7. QED
  BY <1>4, <1>5, <1>6

\* shFuseHr: a usable rate is one the estimators agree on and that is allowed;
\* the guard's counter stays below its limit.
LEMMA FuseTypes ==
    ASSUME NEW f \in [ok : BOOLEAN, bpm : Rates], NEW allow \in BOOLEAN,
           NEW ref \in Rates, NEW n \in 0..(Resync - 1),
           FuseHr(f, allow, ref, n)
    PROVE  /\ hr' \in [valid : BOOLEAN, bpm : Rates]
           /\ last' \in Rates /\ rej' \in 0..(Resync - 1)
           /\ hr'.bpm = f.bpm
           /\ hr'.valid => f.ok /\ allow
<1> DEFINE jump == (f.ok /\ allow) /\ ref # 0
                   /\ Distance(f.bpm, ref) > MaxDelta
           ok == (f.ok /\ allow) /\ ~jump
<1>1. ok \in BOOLEAN /\ f.bpm \in Rates /\ (ok => f.ok /\ allow)
  OBVIOUS
<1>2. hr' = [valid |-> ok, bpm |-> f.bpm]
  BY DEF FuseHr
<1>3. hr' \in [valid : BOOLEAN, bpm : Rates] /\ hr'.bpm = f.bpm /\ hr'.valid = ok
  <2> HIDE DEF ok
  <2>1. QED
    BY <1>1, <1>2
<1>4. /\ last' \in {0, ref, f.bpm}
      /\ rej' \in {0, n} \/ (rej' = n + 1 /\ n + 1 < Resync)
  BY DEF FuseHr
<1>5. last' \in Rates /\ rej' \in 0..(Resync - 1)
  BY <1>1, <1>4, Numbers DEF Rates
<1>6. QED
  BY <1>1, <1>3, <1>5

-----------------------------------------------------------------------------
\* The moving average stays between the baseline and the rate.
LEMMA AverageBetween ==
    ASSUME NEW b \in 1..255, NEW bpm \in 1..255, NEW w \in {12, 64}
    PROVE  /\ Averaged(b, bpm, w) \in 1..255
           /\ \/ b <= Averaged(b, bpm, w) /\ Averaged(b, bpm, w) <= bpm
              \/ bpm <= Averaged(b, bpm, w) /\ Averaged(b, bpm, w) <= b
<1> DEFINE q == Quotient((bpm - b) * w, 256)
<1>1. q \in Int /\ (bpm >= b => q \in 0..(bpm - b))
                /\ (bpm < b => -q \in 0..(b - bpm))
  <2>1. CASE w = 12
    BY <2>1 DEF Quotient
  <2>2. CASE w = 64
    BY <2>2 DEF Quotient
  <2>3. QED
    BY <2>1, <2>2
<1>2. Averaged(b, bpm, w) = b + q
  BY DEF Averaged
<1> HIDE DEF q
<1>3. QED
  BY <1>1, <1>2

\* A number between two that are in band is in band.
LEMMA BandConvex ==
    ASSUME NEW b \in 1..255, NEW c \in 1..255, NEW a \in 1..255,
           InBand(b), InBand(c),
           (b <= a /\ a <= c) \/ (c <= a /\ a <= b)
    PROVE  InBand(a)
<1>1. PICK lo \in Bpms, hi \in Bpms : lo <= b /\ b <= hi
  BY DEF InBand
<1>2. PICK lo2 \in Bpms, hi2 \in Bpms : lo2 <= c /\ c <= hi2
  BY DEF InBand
<1>3. lo \in 1..255 /\ hi \in 1..255 /\ lo2 \in 1..255 /\ hi2 \in 1..255
  BY Numbers
<1>4. (lo <= a /\ a <= hi2) \/ (lo2 <= a /\ a <= hi)
  BY <1>1, <1>2, <1>3
<1>5. QED
  BY <1>4 DEF InBand

DetectorOK ==
    /\ base \in Rates /\ learned \in 0..BaseMin /\ lost \in 0..StaleWin
    /\ up \in 0..(Limit - 1) /\ dn \in 0..(Limit - 1)
    /\ change \in Trends \ {"absent"}

\* shUpdateHrChange keeps the detector in range and its baseline in band.
LEMMA ChangeStep ==
    ASSUME DetectorOK, Based,
           NEW h \in [valid : BOOLEAN, bpm : Rates],
           h.valid => h.bpm \in 1..255 /\ InBand(h.bpm),
           UpdateHrChange(h)
    PROVE  DetectorOK' /\ Based'
<1>1. CASE ~h.valid \/ h.bpm = 0
  <2>1. NoEstimate
    BY <1>1 DEF UpdateHrChange
  <2>2. lost' \in 0..StaleWin
    BY <2>1, Numbers DEF NoEstimate, Cap, DetectorOK
  <2>3. CASE Forget
    BY <2>2, <2>3, Numbers
    DEF Forget, DetectorOK, Based, BaselineInBand, ChangeNeedsBaseline,
        Rates, Trends
  <2>4. CASE UNCHANGED <<base, learned, up, dn, change>>
    BY <2>2, <2>4
    DEF DetectorOK, Based, BaselineInBand, ChangeNeedsBaseline
  <2>5. QED
    BY <2>1, <2>3, <2>4 DEF NoEstimate
<1>2. CASE h.valid /\ h.bpm # 0
  <2> DEFINE b == IF base = 0 THEN h.bpm ELSE base
             bpm == h.bpm
  <2>1. bpm \in 1..255 /\ InBand(bpm)
    BY <1>2
  <2>2. b \in 1..255 /\ InBand(b)
    BY <2>1 DEF DetectorOK, Based, BaselineInBand, InBand, Rates
  <2>3. /\ lost' = 0
        /\ IF learned < BaseMin THEN Learn(b, bpm) ELSE Detect(b, bpm)
    BY <1>2 DEF UpdateHrChange
  <2>4. lost' \in 0..StaleWin
    BY <2>3, Numbers
  <2> HIDE DEF b, bpm
  <2>5. CASE learned < BaseMin
    <3>1. /\ learned' = learned + 1 /\ up' = 0 /\ dn' = 0 /\ change' = change
          /\ base' = Averaged(b, bpm, 64)
      BY <2>3, <2>5 DEF Learn
    <3>2. /\ base' \in 1..255
          /\ (b <= base' /\ base' <= bpm) \/ (bpm <= base' /\ base' <= b)
      <4>1. 64 \in {12, 64} /\ b \in 1..255 /\ bpm \in 1..255
        BY <2>1, <2>2
      <4>2. /\ Averaged(b, bpm, 64) \in 1..255
            /\ \/ b <= Averaged(b, bpm, 64) /\ Averaged(b, bpm, 64) <= bpm
               \/ bpm <= Averaged(b, bpm, 64) /\ Averaged(b, bpm, 64) <= b
        BY <4>1, AverageBetween, ZenonT(30)
      <4>3. QED
        BY <3>1, <4>2
    <3>3. InBand(base')
      BY <2>1, <2>2, <3>2, BandConvex
    <3>4. DetectorOK'
      BY <2>4, <2>5, <3>1, <3>2, Numbers DEF DetectorOK, Rates
    <3>5. learned' # 0 /\ change' = "unknown"
      BY <2>5, <3>1, Numbers DEF DetectorOK, Based, ChangeNeedsBaseline
    <3>6. QED
      BY <3>2, <3>3, <3>4, <3>5
      DEF Based, BaselineInBand, ChangeNeedsBaseline, InBand
  <2>6. CASE ~(learned < BaseMin)
    <3> DEFINE slack == Slack(b)
               u == Positive(up + (bpm - b) - slack)
               d == Positive(dn - (bpm - b) - slack)
    <3>1. learned = BaseMin /\ learned' = learned
      BY <2>3, <2>6, Numbers DEF Detect, DetectorOK
    <3>2. slack \in Nat
      BY <2>2, Numbers DEF Slack
    <3>3. u \in Nat /\ d \in Nat
      <4> HIDE DEF slack
      <4>1. QED
        BY <2>1, <2>2, <3>2, Numbers DEF Positive, DetectorOK
    <3>4. \/ /\ change' \in {"rising", "falling"}
             /\ base' = bpm /\ up' = 0 /\ dn' = 0
          \/ /\ u < Limit /\ d < Limit /\ change' = "stable"
             /\ base' = Averaged(b, bpm, 12)
             /\ up' = u /\ dn' = d
      <4>1. Detect(b, bpm)
        BY <2>3, <2>6
      <4>2. CASE u >= Limit \/ d >= Limit
        BY <4>1, <4>2 DEF Detect
      <4>3. CASE ~(u >= Limit \/ d >= Limit)
        <5>1. /\ change' = "stable" /\ up' = u /\ dn' = d
              /\ base' = Averaged(b, bpm, 12)
          BY <4>1, <4>3 DEF Detect
        <5>2. u < Limit /\ d < Limit
          <6> HIDE DEF u, d
          <6>1. QED
            BY <3>3, <4>3, Numbers
        <5>3. QED
          BY <5>1, <5>2
      <4>4. QED
        BY <4>2, <4>3
    <3> HIDE DEF u, d, slack
    <3>5. /\ base' \in 1..255
          /\ (b <= base' /\ base' <= bpm) \/ (bpm <= base' /\ base' <= b)
      <4>1. CASE base' = bpm
        BY <2>1, <2>2, <4>1
      <4>2. CASE base' = Averaged(b, bpm, 12)
        <5>1. 12 \in {12, 64} /\ b \in 1..255 /\ bpm \in 1..255
          BY <2>1, <2>2
        <5>2. /\ Averaged(b, bpm, 12) \in 1..255
              /\ \/ b <= Averaged(b, bpm, 12) /\ Averaged(b, bpm, 12) <= bpm
                 \/ bpm <= Averaged(b, bpm, 12) /\ Averaged(b, bpm, 12) <= b
          BY <5>1, AverageBetween, ZenonT(30)
        <5>3. QED
          BY <4>2, <5>2
      <4>3. QED
        BY <3>4, <4>1, <4>2
    <3>6. InBand(base')
      BY <2>1, <2>2, <3>5, BandConvex
    <3>7. up' \in 0..(Limit - 1) /\ dn' \in 0..(Limit - 1)
      BY <3>3, <3>4, Numbers
    <3>8. change' \in Trends \ {"absent"}
      BY <3>4 DEF Trends
    <3>9. DetectorOK'
      BY <2>4, <3>1, <3>5, <3>7, <3>8 DEF DetectorOK, Rates
    <3>10. QED
      BY <3>1, <3>5, <3>6, <3>9, Numbers
      DEF Based, BaselineInBand, ChangeNeedsBaseline, InBand
  <2>7. QED
    BY <2>5, <2>6
<1>3. QED
  BY <1>1, <1>2

-----------------------------------------------------------------------------
\* The type invariant is the gate's, the guard's, the trend's and the
\* detector's.
LEMMA TypeSplit ==
    TypeOK <=> /\ motion \in {"calm", "active"} /\ still \in 0..StillSamples
               /\ calm \in 0..CalmMin /\ left \in 0..Holdoff
               /\ last \in Rates /\ rej \in 0..(Resync - 1)
               /\ hr \in [valid : BOOLEAN, bpm : Rates]
               /\ trend \in Trends /\ trusted \in BOOLEAN
               /\ DetectorOK
  BY DEF TypeOK, DetectorOK

\* A window with motion resets the gate and leaves the detector alone.
LEMMA ActiveStep ==
    ASSUME Inv, NEW loud \in BOOLEAN, ActiveWindow(loud)
    PROVE  Inv'
<1>1. /\ motion' = "active" /\ calm' = 0 /\ left' = Holdoff
      /\ last' = 0 /\ rej' = 0 /\ hr' = [valid |-> FALSE, bpm |-> 0]
      /\ trend' = "unknown" /\ trusted' = FALSE
  BY DEF ActiveWindow
<1>2. still' \in 0..StillSamples
  BY Numbers DEF ActiveWindow, StaysActive, Inv, TypeOK
<1>3. UNCHANGED <<base, learned, lost, up, dn, change>>
  BY DEF ActiveWindow, detector
<1>4. /\ past'.quiet = 0 /\ past'.settled = 0 /\ past'.seen = 0
      /\ past'.refused = 0
  BY DEF ActiveWindow, Remember
<1>5. DetectorOK' /\ Based'
  BY <1>3, TypeSplit DEF Inv, DetectorOK, Based, BaselineInBand,
                         ChangeNeedsBaseline
<1>6. hr' \in [valid : BOOLEAN, bpm : Rates] /\ ~hr'.valid
  BY <1>1 DEF Rates
<1>7. TypeOK'
  <2>1. /\ motion' \in {"calm", "active"} /\ trend' \in Trends
        /\ trusted' \in BOOLEAN
    BY <1>1 DEF Trends
  <2>2. /\ calm' \in 0..CalmMin /\ left' \in 0..Holdoff
        /\ last' \in Rates /\ rej' \in 0..(Resync - 1)
    BY <1>1, Numbers DEF Rates
  <2>3. QED
    BY <1>2, <1>5, <1>6, <2>1, <2>2, Zenon DEF TypeOK, DetectorOK
<1>8. PastOK' /\ Settled' /\ Guarded'
  BY <1>1, <1>4, Numbers DEF PastOK, Settled, Guarded, Rates
<1>9. ValidOnlySettled' /\ TrendNeedsCalm'
  BY <1>1, <1>6 DEF ValidOnlySettled, TrendNeedsCalm
<1>10. QED
  BY <1>5, <1>7, <1>8, <1>9 DEF Inv

\* The gate counts a calm window.
LEMMA GateStep ==
    ASSUME TypeOK, NEW loud \in BOOLEAN, GateCalms(loud)
    PROVE  /\ motion' = "calm" /\ still' \in 0..StillSamples
           /\ calm' \in 0..CalmMin
           /\ calm' = CalmMin => calm >= CalmMin - 1
           /\ calm' <= calm + 1
  BY Numbers DEF GateCalms, Cap, TypeOK

\* A window of the warm-up restarts the hold-off.
LEMMA WarmStep ==
    ASSUME Inv, NEW loud \in BOOLEAN, WarmWindow(loud)
    PROVE  Inv' /\ ~hr'.valid
<1> DEFINE none == [ok |-> FALSE, bpm |-> 0]
<1>1. /\ GateCalms(loud) /\ left' = Holdoff
      /\ FuseHr(none, FALSE, 0, 0)
      /\ trend' = "unknown" /\ trusted' = FALSE
      /\ UpdateHrChange(hr') /\ Remember("disturbed")
  BY DEF WarmWindow
<1>2. /\ motion' = "calm" /\ still' \in 0..StillSamples
      /\ calm' \in 0..CalmMin /\ calm' <= calm + 1
  BY <1>1, GateStep DEF Inv
<1>3. /\ none \in [ok : BOOLEAN, bpm : Rates] /\ FALSE \in BOOLEAN
      /\ 0 \in Rates /\ 0 \in 0..(Resync - 1) /\ ~none.ok
  BY Numbers DEF Rates
<1>4. last' = 0 /\ rej' = 0
  BY <1>1, <1>3 DEF FuseHr
<1>5. hr' \in [valid : BOOLEAN, bpm : Rates] /\ ~hr'.valid
  <2> HIDE DEF none
  <2>1. QED
    BY <1>1, <1>3, FuseTypes
<1>6. DetectorOK' /\ Based'
  <2>1. DetectorOK /\ Based
    BY TypeSplit DEF Inv
  <2>2. QED
    BY <1>1, <1>5, <2>1, ChangeStep
<1>7. /\ past'.quiet = Cap(past.quiet + 1, CalmMin + Holdoff)
      /\ past'.settled = 0 /\ past'.seen = 0 /\ past'.refused = 0
  BY <1>1 DEF Remember
<1>8. TypeOK'
  <2>1. /\ motion' \in {"calm", "active"} /\ trend' \in Trends
        /\ trusted' \in BOOLEAN
    BY <1>1, <1>2 DEF Trends
  <2>2. /\ left' \in 0..Holdoff /\ last' \in Rates
        /\ rej' \in 0..(Resync - 1)
    BY <1>1, <1>4, Numbers DEF Rates
  <2>3. QED
    BY <1>2, <1>5, <1>6, <2>1, <2>2, Zenon DEF TypeOK, DetectorOK
<1>9. PastOK' /\ Settled'
  BY <1>1, <1>2, <1>7, Numbers
  DEF Inv, TypeOK, PastOK, Settled, Cap, Rates
<1>10. Guarded' /\ ValidOnlySettled' /\ TrendNeedsCalm'
  BY <1>1, <1>4, <1>5, <1>7
  DEF Guarded, ValidOnlySettled, TrendNeedsCalm
<1>11. QED
  BY <1>5, <1>6, <1>8, <1>9, <1>10 DEF Inv

\* What a calm window leaves in the history: a disturbance starts it again, a
\* usable rate is remembered, a refusal is counted.
LEMMA CalmHistory ==
    ASSUME Inv, NEW loud \in BOOLEAN, NEW disturbed \in BOOLEAN,
           NEW f \in Estimates, NEW band \in Bands,
           CalmWindow(loud, disturbed, f, band)
    PROVE  /\ past'.quiet = Cap(past.quiet + 1, CalmMin + Holdoff)
           /\ disturbed => /\ past'.settled = 0 /\ past'.seen = 0
                           /\ past'.refused = 0
           /\ ~disturbed =>
                 /\ past'.settled = Cap(past.settled + 1, Holdoff)
                 /\ hr'.valid => past'.seen = hr'.bpm /\ past'.refused = 0
                 /\ ~hr'.valid => past'.seen = past.seen
                 /\ ~hr'.valid /\ f.ok /\ left = 0
                       => past'.refused = Cap(past.refused + 1, Resync)
                 /\ ~hr'.valid /\ ~(f.ok /\ left = 0)
                       => past'.refused = past.refused
<1>1. CASE disturbed
  <2>1. Remember("disturbed")
    BY <1>1 DEF CalmWindow
  <2>2. QED
    BY <1>1, <2>1 DEF Remember
<1>2. CASE ~disturbed /\ hr'.valid
  <2>1. Remember("usable")
    BY <1>2 DEF CalmWindow
  <2>2. QED
    BY <1>2, <2>1 DEF Remember
<1>3. CASE ~disturbed /\ ~hr'.valid /\ f.ok /\ left = 0
  <2>1. Remember("refused")
    BY <1>3 DEF CalmWindow
  <2>2. QED
    BY <1>3, <2>1 DEF Remember
<1>4. CASE ~disturbed /\ ~hr'.valid /\ ~(f.ok /\ left = 0)
  <2>1. Remember("held") \/ Remember("poor")
    BY <1>4 DEF CalmWindow
  <2>2. QED
    BY <1>4, <2>1 DEF Remember
<1>5. QED
  BY <1>1, <1>2, <1>3, <1>4

\* A calm window uses an estimate only with the hold-off run out, and the
\* guard's reference follows the usable rates.
LEMMA CalmStep ==
    ASSUME Inv, NEW loud \in BOOLEAN, NEW disturbed \in BOOLEAN,
           NEW f \in Estimates, NEW band \in Bands,
           CalmWindow(loud, disturbed, f, band)
    PROVE  Inv' /\ (hr'.valid => ~disturbed /\ left = 0
                                  /\ (last = 0 \/
                                       Distance(hr'.bpm, last) <= MaxDelta))
<1> DEFINE held == IF disturbed THEN Holdoff ELSE left
           ref == IF disturbed THEN 0 ELSE last
           n == IF disturbed THEN 0 ELSE rej
<1>1. /\ GateCalms(loud) /\ calm' = CalmMin
      /\ left' = Positive(held - 1)
      /\ FuseHr(f, held = 0, ref, n)
      /\ BandTrend(band) /\ UpdateHrChange(hr')
  BY DEF CalmWindow
<1>2. motion' = "calm" /\ still' \in 0..StillSamples /\ calm >= CalmMin - 1
  BY <1>1, GateStep DEF Inv
<1>3. /\ f \in [ok : BOOLEAN, bpm : Rates]
      /\ f.ok => f.bpm \in 1..255 /\ InBand(f.bpm)
  BY FusedRate
<1>4. /\ held \in 0..Holdoff /\ ref \in Rates /\ n \in 0..(Resync - 1)
      /\ (held = 0) \in BOOLEAN
  BY Numbers DEF Inv, TypeOK, Rates
<1>5. /\ hr' \in [valid : BOOLEAN, bpm : Rates]
      /\ last' \in Rates /\ rej' \in 0..(Resync - 1)
      /\ hr'.bpm = f.bpm
      /\ hr'.valid => f.ok /\ held = 0
  <2> HIDE DEF held, ref, n
  <2>1. QED
    BY <1>1, <1>3, <1>4, FuseTypes
<1>6. hr'.valid => ~disturbed /\ left = 0
  BY <1>5, Numbers
<1>7. DetectorOK' /\ Based'
  <2>1. DetectorOK /\ Based
    BY TypeSplit DEF Inv
  <2>2. QED
    BY <1>1, <1>3, <1>5, <2>1, ChangeStep
<1>8. trend' \in Trends /\ trusted' \in BOOLEAN
  BY <1>1 DEF BandTrend, Bands, Trends
<1>9. left' \in 0..Holdoff /\ calm' \in 0..CalmMin
  BY <1>1, <1>4, Numbers DEF Positive
<1>10. TypeOK'
  <2>1. motion' \in {"calm", "active"}
    BY <1>2
  <2>2. QED
    BY <1>2, <1>5, <1>7, <1>8, <1>9, <2>1, Zenon DEF TypeOK, DetectorOK
<1>11. /\ past'.quiet = Cap(past.quiet + 1, CalmMin + Holdoff)
       /\ disturbed => /\ past'.settled = 0 /\ past'.seen = 0
                       /\ past'.refused = 0
       /\ ~disturbed =>
             /\ past'.settled = Cap(past.settled + 1, Holdoff)
             /\ hr'.valid => past'.seen = hr'.bpm /\ past'.refused = 0
             /\ ~hr'.valid => past'.seen = past.seen
             /\ ~hr'.valid /\ f.ok /\ left = 0
                   => past'.refused = Cap(past.refused + 1, Resync)
             /\ ~hr'.valid /\ ~(f.ok /\ left = 0)
                   => past'.refused = past.refused
  BY CalmHistory
<1>12. past'.quiet \in 0..(CalmMin + Holdoff) /\ past'.settled \in 0..Holdoff
  BY <1>11, Numbers DEF Inv, PastOK, Cap
<1>13. past'.seen \in Rates /\ past'.refused \in 0..Resync
  BY <1>5, <1>11, Numbers DEF Inv, PastOK, Cap, Rates
<1>14. Settled'
  <2>1. past.quiet >= CalmMin - 1
    BY <1>2, Numbers DEF Inv, Settled, TypeOK, PastOK
  <2>2. left + past.quiet >= CalmMin + Holdoff - 1
    BY <2>1 DEF Inv, Settled
  <2>3. calm' <= past'.quiet
    BY <1>1, <1>11, <2>1, Numbers DEF Cap, Inv, PastOK
  <2>4. left' + past'.settled >= Holdoff - 1
    BY <1>1, <1>11, Numbers DEF Cap, Positive, Inv, PastOK, Settled, TypeOK
  <2>5. left' + past'.quiet >= CalmMin + Holdoff - 1
    BY <1>1, <1>11, <2>1, <2>2, Numbers DEF Cap, Positive, Inv, PastOK, TypeOK
  <2>6. QED
    BY <2>3, <2>4, <2>5 DEF Settled
<1>15. ValidOnlySettled'
  BY <1>6, <1>11, <1>2, Numbers
  DEF ValidOnlySettled, Inv, Settled, PastOK, TypeOK, Cap
<1>16. TrendNeedsCalm'
  BY <1>1, <1>2, <1>14, <1>12, Numbers DEF TrendNeedsCalm, Settled
<1>17. Guarded' /\ (hr'.valid => last = 0
                                 \/ Distance(hr'.bpm, last) <= MaxDelta)
  <2>1. CASE disturbed
    <3>1. ~(held = 0) /\ ref = 0 /\ n = 0
      BY <2>1, Numbers
    <3>2. last' = 0
      BY <1>1, <3>1 DEF FuseHr
    <3>3. QED
      BY <1>6, <1>11, <2>1, <3>2 DEF Guarded
  <2>2. CASE ~disturbed
    <3>1. FuseHr(f, left = 0, last, rej)
      BY <1>1, <2>2
    <3>2. CASE f.ok /\ left = 0 /\ last # 0 /\ Distance(f.bpm, last) > MaxDelta
      <4>1. ~hr'.valid
        BY <3>1, <3>2 DEF FuseHr
      <4>2. \/ last' = 0 /\ rej' = 0 /\ rej + 1 >= Resync
            \/ last' = last /\ rej' = rej + 1 /\ rej + 1 < Resync
        BY <3>1, <3>2, Numbers DEF FuseHr, Inv, TypeOK
      <4>3. past'.seen = past.seen /\ past'.refused = Cap(past.refused + 1, Resync)
        BY <1>11, <2>2, <3>2, <4>1
      <4>4. QED
        BY <3>2, <4>1, <4>2, <4>3, Numbers
        DEF Guarded, Inv, TypeOK, PastOK, Cap
    <3>3. CASE f.ok /\ left = 0
               /\ ~(last # 0 /\ Distance(f.bpm, last) > MaxDelta)
      <4>1. hr'.valid /\ last' = f.bpm /\ rej' = 0
        BY <3>1, <3>3 DEF FuseHr
      <4>2. past'.seen = f.bpm /\ past'.refused = 0 /\ f.bpm \in 1..255
        BY <1>3, <1>5, <1>11, <2>2, <3>3, <4>1
      <4>3. Guarded'
        BY <4>1, <4>2 DEF Guarded
      <4>4. last = 0 \/ Distance(hr'.bpm, last) <= MaxDelta
        BY <1>3, <1>5, <3>3, Numbers DEF Distance, Inv, TypeOK, Rates
      <4>5. QED
        BY <4>3, <4>4
    <3>4. CASE ~(f.ok /\ left = 0)
      <4>1. ~hr'.valid
        BY <1>5, <2>2, <3>4
      <4>2. last' = last /\ rej' = rej
        BY <3>1, <3>4 DEF FuseHr
      <4>3. past'.seen = past.seen /\ past'.refused = past.refused
        BY <1>11, <2>2, <3>4, <4>1
      <4>4. QED
        BY <4>1, <4>2, <4>3 DEF Guarded, Inv
    <3>5. QED
      BY <1>3, <3>2, <3>3, <3>4
  <2>3. QED
    BY <2>1, <2>2
<1>18. QED
  BY <1>6, <1>7, <1>10, <1>12, <1>13, <1>14, <1>15, <1>16, <1>17
  DEF Inv, PastOK

\* A restart of the vitals forgets everything but still_run.
LEMMA InitStep ==
    ASSUME Inv, VitalsInit
    PROVE  Inv'
<1>1. /\ motion' = "calm" /\ calm' = 0 /\ left' = Holdoff
      /\ last' = 0 /\ rej' = 0 /\ hr' = [valid |-> FALSE, bpm |-> 0]
      /\ trend' = "unknown" /\ trusted' = FALSE
      /\ base' = 0 /\ lost' = 0 /\ learned' = 0 /\ up' = 0 /\ dn' = 0
      /\ change' = "unknown" /\ past' = NoPast /\ still' = still
  BY DEF VitalsInit
<1>2. hr' \in [valid : BOOLEAN, bpm : Rates] /\ ~hr'.valid
  BY <1>1 DEF Rates
<1>3. DetectorOK' /\ Based'
  BY <1>1, Numbers
  DEF DetectorOK, Based, BaselineInBand, ChangeNeedsBaseline, Rates, Trends
<1>4. TypeOK'
  <2>1. /\ motion' \in {"calm", "active"} /\ trend' \in Trends
        /\ trusted' \in BOOLEAN /\ still' \in 0..StillSamples
    BY <1>1 DEF Trends, Inv, TypeOK
  <2>2. /\ calm' \in 0..CalmMin /\ left' \in 0..Holdoff
        /\ last' \in Rates /\ rej' \in 0..(Resync - 1)
    BY <1>1, Numbers DEF Rates
  <2>3. QED
    BY <1>2, <1>3, <2>1, <2>2, Zenon DEF TypeOK, DetectorOK
<1>5. PastOK' /\ Settled' /\ Guarded'
  BY <1>1, Numbers DEF NoPast, PastOK, Settled, Guarded, Rates
<1>6. ValidOnlySettled' /\ TrendNeedsCalm'
  BY <1>1, <1>2 DEF ValidOnlySettled, TrendNeedsCalm
<1>7. QED
  BY <1>3, <1>4, <1>5, <1>6 DEF Inv

\* Before the first window nothing has been learned or reported.
LEMMA Initially == Init => Inv
<1> SUFFICES ASSUME Init PROVE Inv
  OBVIOUS
<1>1. hr \in [valid : BOOLEAN, bpm : Rates] /\ ~hr.valid
  BY DEF Init, Rates
<1>2. DetectorOK /\ Based
  BY Numbers DEF Init, DetectorOK, Based, BaselineInBand,
                 ChangeNeedsBaseline, Rates, Trends
<1>3. TypeOK
  <2>1. /\ motion \in {"calm", "active"} /\ trend \in Trends
        /\ trusted \in BOOLEAN
    BY DEF Init, Trends
  <2>2. /\ still \in 0..StillSamples
        /\ calm \in 0..CalmMin /\ left \in 0..Holdoff
        /\ last \in Rates /\ rej \in 0..(Resync - 1)
    BY Numbers DEF Init, Rates
  <2>3. QED
    BY <1>1, <1>2, <2>1, <2>2, Zenon DEF TypeOK, DetectorOK
<1>4. PastOK /\ Settled /\ Guarded
  BY Numbers DEF Init, NoPast, PastOK, Settled, Guarded, Rates
<1>5. ValidOnlySettled /\ TrendNeedsCalm
  BY <1>1 DEF Init, ValidOnlySettled, TrendNeedsCalm
<1>6. QED
  BY <1>2, <1>3, <1>4, <1>5 DEF Inv

\* A step that changes nothing the vitals hold changes none of the claims.
LEMMA StutterStep ==
    ASSUME Inv, UNCHANGED vars
    PROVE  Inv'
<1>1. /\ UNCHANGED <<motion, still, calm, left, last, rej, hr>>
      /\ UNCHANGED <<trend, trusted, past>>
      /\ UNCHANGED <<base, learned, lost, up, dn, change>>
  BY DEF vars, gate, guard, detector
<1>2. TypeOK' /\ PastOK' /\ Settled' /\ Guarded'
  BY <1>1 DEF Inv, TypeOK, PastOK, Settled, Guarded
<1>3. Based' /\ ValidOnlySettled' /\ TrendNeedsCalm'
  BY <1>1 DEF Inv, Based, BaselineInBand, ChangeNeedsBaseline,
              ValidOnlySettled, TrendNeedsCalm
<1>4. QED
  BY <1>2, <1>3 DEF Inv

-----------------------------------------------------------------------------
\* Every window, and every restart of the vitals, preserves the invariant.
THEOREM Invariance == Spec => []Inv
<1>1. Inv /\ [Next]_vars => Inv'
  <2> SUFFICES ASSUME Inv, [Next]_vars PROVE Inv'
    OBVIOUS
  <2>1. CASE VitalsInit
    BY <2>1, InitStep
  <2>2. CASE VitalsProcess
    <3>1. PICK loud \in BOOLEAN :
             \/ ActiveWindow(loud)
             \/ WarmWindow(loud)
             \/ \E disturbed \in BOOLEAN, f \in Estimates, band \in Bands :
                     CalmWindow(loud, disturbed, f, band)
      BY <2>2 DEF VitalsProcess
    <3>2. QED
      BY <3>1, ActiveStep, WarmStep, CalmStep
  <2>3. CASE UNCHANGED vars
    BY <2>3, StutterStep
  <2>4. QED
    BY <2>1, <2>2, <2>3 DEF Next
<1>2. QED
  BY Initially, <1>1, PTL DEF Spec

\* The statics of the pulse proxy keep their ranges (smart_helmet_vitals.c).
THEOREM TypeCorrect == Spec => []TypeOK
<1>1. Inv => TypeOK
  BY DEF Inv
<1>2. QED
  BY Invariance, <1>1, PTL

\* A usable pulse comes only from a settled signal, whatever the warm-up and
\* the hold-off are set to (shHrDisturb).
THEOREM PulseSettled == Spec => []ValidOnlySettled
<1>1. Inv => ValidOnlySettled
  BY DEF Inv
<1>2. QED
  BY Invariance, <1>1, PTL

\* The baseline stays within the measured rates (shUpdateHrChange).
THEOREM BaselineBanded == Spec => []BaselineInBand
<1>1. Inv => BaselineInBand
  BY DEF Inv, Based
<1>2. QED
  BY Invariance, <1>1, PTL

\* A change is reported only against a learned baseline (shUpdateHrChange).
THEOREM ChangeBased == Spec => []ChangeNeedsBaseline
<1>1. Inv => ChangeNeedsBaseline
  BY DEF Inv, Based
<1>2. QED
  BY Invariance, <1>1, PTL

\* A trend is reported only by a warmed-up gate (SmartHelmet_VitalsProcess).
THEOREM TrendCalm == Spec => []TrendNeedsCalm
<1>1. Inv => TrendNeedsCalm
  BY DEF Inv
<1>2. QED
  BY Invariance, <1>1, PTL

\* A usable rate far from the last one needs Resync rejections in between
\* (the guard in shFuseHr).
THEOREM JumpGuarded == Spec => JumpNeedsResync
<1> DEFINE far == /\ hr'.valid /\ past.seen # 0
                  /\ Distance(hr'.bpm, past.seen) > MaxDelta
           A == far => past.refused >= Resync
<1>1. Inv /\ [Next]_vars => [A]_vars
  <2> SUFFICES ASSUME Inv, Next, far PROVE past.refused >= Resync
    OBVIOUS
  <2>1. ~VitalsInit
    BY DEF VitalsInit
  <2>2. PICK loud \in BOOLEAN :
             \/ ActiveWindow(loud)
             \/ WarmWindow(loud)
             \/ \E disturbed \in BOOLEAN, f \in Estimates, band \in Bands :
                     CalmWindow(loud, disturbed, f, band)
    BY <2>1 DEF Next, VitalsProcess
  <2>3. ~ActiveWindow(loud)
    BY DEF ActiveWindow
  <2>4. ~WarmWindow(loud)
    BY WarmStep
  <2>5. last = 0 \/ Distance(hr'.bpm, last) <= MaxDelta
    BY <2>2, <2>3, <2>4, CalmStep
  <2>6. hr'.bpm \in Rates
    <3>1. Inv'
      BY <2>2, <2>3, <2>4, CalmStep
    <3>2. QED
      BY <3>1 DEF Inv, TypeOK
  <2>7. CASE last = 0
    BY <2>7 DEF Inv, Guarded
  <2>8. CASE last # 0 /\ Distance(hr'.bpm, last) <= MaxDelta
    <3>1. last = past.seen
      BY <2>8 DEF Inv, Guarded
    <3>2. Distance(hr'.bpm, last) \in Int
      BY <2>6 DEF Distance, Inv, TypeOK, Rates
    <3>3. QED
      BY <2>8, <3>1, <3>2, Numbers
  <2>9. QED
    BY <2>5, <2>7, <2>8
<1>2. QED
  BY Invariance, <1>1, PTL DEF Spec, JumpNeedsResync
=============================================================================
