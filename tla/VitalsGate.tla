----------------------------- MODULE VitalsGate -----------------------------
(***************************************************************************)
(* The pulse proxy of smart_helmet_vitals.c: what a processed window does  *)
(* to the motion gate, the hold-off after a disturbance, the guard against *)
(* jumps of the rate, and the baseline with its change detector.  The      *)
(* estimators are abstracted to what they report for the window.           *)
(***************************************************************************)
EXTENDS Integers

CONSTANTS
    Bpms,          \* rates the estimators report (HR_BPM_MIN..HR_BPM_MAX)
    StillSamples,  \* MOTION_STILL_SAMPLES
    CalmMin,       \* CALM_WINDOWS_MIN
    Holdoff,       \* HR_DISTURB_HOLDOFF_WIN
    AgreePct,      \* HR_AGREE_PCT
    MaxDelta,      \* HR_MAX_DELTA_BPM
    Resync,        \* HR_DELTA_RESYNC_WIN
    BaseMin,       \* HR_BASELINE_MIN_WIN
    StaleWin,      \* HR_BASELINE_STALE_WIN
    SlackBpm,      \* HR_CUSUM_SLACK_BPM
    SlackPct,      \* HR_CUSUM_SLACK_PCT
    Limit          \* HR_CUSUM_LIMIT

ASSUME VitalsAssumption ==
    /\ Bpms \subseteq 1..255 /\ Bpms # {}
    /\ \A c \in {StillSamples, CalmMin, Holdoff, Resync, BaseMin, StaleWin,
                 Limit} : c \in Nat \ {0}
    /\ \A c \in {AgreePct, MaxDelta, SlackBpm, SlackPct} : c \in Nat

VARIABLES
    motion,    \* sh_vitals.motion
    still,     \* still_run
    calm,      \* calm_windows, up to the value that matters
    left,      \* hr_win_left
    last,      \* last_hr_valid_bpm, 0 while last_hr_valid_have is 0
    rej,       \* hr_delta_rej
    hr,        \* sh_vitals.hr_valid and hr_bpm
    trend,     \* sh_vitals.trend
    trusted,   \* sh_vitals.valid
    base,      \* hr_base_bpm
    learned,   \* hr_base_n
    lost,      \* hr_invalid_run
    up, dn,    \* hr_cusum_up, hr_cusum_dn
    change,    \* sh_vitals.hr_change
    past       \* history for the properties, read by no action

gate == <<motion, still, calm, left>>
guard == <<last, rej, hr>>
detector == <<base, learned, lost, up, dn, change>>
vars == <<gate, guard, trend, trusted, detector, past>>

Trends == {"unknown", "stable", "rising", "falling", "absent"}
Rates == 0..255

TypeOK ==
    /\ motion \in {"calm", "active"}
    /\ still \in 0..StillSamples
    /\ calm \in 0..CalmMin
    /\ left \in 0..Holdoff
    /\ last \in Rates /\ rej \in 0..(Resync - 1)
    /\ hr \in [valid : BOOLEAN, bpm : Rates]
    /\ trend \in Trends /\ trusted \in BOOLEAN
    /\ base \in Rates /\ learned \in 0..BaseMin /\ lost \in 0..StaleWin
    /\ up \in 0..(Limit - 1) /\ dn \in 0..(Limit - 1)
    /\ change \in Trends \ {"absent"}

-----------------------------------------------------------------------------
(* History: windows since motion and since a disturbance; the last usable  *)
(* rate and the rejections it has caused; what the last window was.        *)

Cap(n, max) == IF n > max THEN max ELSE n
Distance(a, b) == IF a > b THEN a - b ELSE b - a

NoPast == [quiet |-> 0, settled |-> 0,
           seen |-> 0, refused |-> 0, win |-> "init"]

Remember(win) ==
    LET usable == win = "usable"
        fresh == win \in {"motion", "disturbed"}
    IN  past' = [
          quiet   |-> IF win = "motion" THEN 0
                      ELSE Cap(past.quiet + 1, CalmMin + Holdoff),
          settled |-> IF fresh THEN 0 ELSE Cap(past.settled + 1, Holdoff),
          seen    |-> IF fresh THEN 0 ELSE IF usable THEN hr'.bpm
                      ELSE past.seen,
          refused |-> IF fresh \/ usable THEN 0
                      ELSE IF win # "refused" THEN past.refused
                      ELSE Cap(past.refused + 1, Resync),
          win     |-> win]

-----------------------------------------------------------------------------
\* C division rounds towards zero.
Quotient(a, d) == IF a >= 0 THEN a \div d ELSE -((-a) \div d)

\* What shFuseHr makes of a peak and an FFT rate, 0 for none: usable only
\* when both are there and within AgreePct of each other.
Fused(peak, fft) ==
    LET avg == (peak + fft) \div 2
    IN  IF peak = 0 \/ fft = 0
        THEN [ok |-> FALSE, bpm |-> peak + fft]
        ELSE IF Distance(peak, fft) * 100 <= avg * AgreePct
        THEN [ok |-> TRUE, bpm |-> avg]
        ELSE [ok |-> FALSE, bpm |-> (peak * 192 + fft * 64) \div 256]

\* Mutant of FuseHr: a rejected rate becomes the reference.
FuseHrFollows(f, allow, ref, n) ==
    LET ok == f.ok /\ allow
        jump == ok /\ ref # 0 /\ Distance(f.bpm, ref) > MaxDelta
    IN  /\ hr' = [valid |-> ok /\ ~jump, bpm |-> f.bpm]
        /\ IF ok THEN last' = f.bpm /\ rej' = 0
                 ELSE last' = ref /\ rej' = n

\* Mutant of FuseHr: the reference is never dropped.
FuseHrLocked(f, allow, ref, n) ==
    LET ok == f.ok /\ allow
        jump == ok /\ ref # 0 /\ Distance(f.bpm, ref) > MaxDelta
    IN  /\ hr' = [valid |-> ok /\ ~jump, bpm |-> f.bpm]
        /\ CASE jump       -> last' = ref /\ rej' = Cap(n + 1, Resync - 1)
             [] ok /\ ~jump -> last' = f.bpm /\ rej' = 0
             [] OTHER      -> last' = ref /\ rej' = n

\* shFuseHr with reference ref and n rejections so far.
FuseHr(f, allow, ref, n) ==
    LET ok == f.ok /\ allow
        jump == ok /\ ref # 0 /\ Distance(f.bpm, ref) > MaxDelta
    IN  /\ hr' = [valid |-> ok /\ ~jump, bpm |-> f.bpm]
        /\ CASE jump /\ n + 1 >= Resync -> last' = 0 /\ rej' = 0
             [] jump /\ n + 1 < Resync  -> last' = ref /\ rej' = n + 1
             [] ok /\ ~jump             -> last' = f.bpm /\ rej' = 0
             [] OTHER                   -> last' = ref /\ rej' = n

-----------------------------------------------------------------------------
(* The baseline and the two-sided CUSUM (shUpdateHrChange). *)

Slack(b) == LET prop == (b * SlackPct) \div 100
            IN  IF prop > SlackBpm THEN prop ELSE SlackBpm

\* An exponential average with weight w / 256.
Averaged(b, bpm, w) == b + Quotient((bpm - b) * w, 256)

Positive(n) == IF n < 0 THEN 0 ELSE n

Forget ==
    base' = 0 /\ learned' = 0 /\ up' = 0 /\ dn' = 0 /\ change' = "unknown"

NoEstimate ==
    /\ lost' = Cap(lost + 1, StaleWin)
    /\ IF lost' >= StaleWin THEN Forget
       ELSE UNCHANGED <<base, learned, up, dn, change>>

Learn(b, bpm) ==
    /\ learned' = learned + 1
    /\ base' = Averaged(b, bpm, 64)
    /\ up' = 0 /\ dn' = 0
    /\ UNCHANGED change

\* Mutant of Detect: the weight of the average is applied to both terms.
DetectDecays(b, bpm) ==
    LET dev == bpm - b
        u == Positive(up + dev - Slack(b))
        d == Positive(dn - dev - Slack(b))
    IN  /\ UNCHANGED learned
        /\ IF u >= Limit \/ d >= Limit
           THEN /\ change' = IF u >= Limit THEN "rising" ELSE "falling"
                /\ base' = bpm /\ up' = 0 /\ dn' = 0
           ELSE /\ change' = "stable"
                /\ base' = Quotient((b + bpm) * 12, 256)
                /\ up' = u /\ dn' = d

Detect(b, bpm) ==
    LET dev == bpm - b
        u == Positive(up + dev - Slack(b))
        d == Positive(dn - dev - Slack(b))
    IN  /\ UNCHANGED learned
        /\ IF u >= Limit \/ d >= Limit
           THEN /\ change' = IF u >= Limit THEN "rising" ELSE "falling"
                /\ base' = bpm /\ up' = 0 /\ dn' = 0
           ELSE /\ change' = "stable"
                /\ base' = Averaged(b, bpm, 12)
                /\ up' = u /\ dn' = d

UpdateHrChange(h) ==
    IF ~h.valid \/ h.bpm = 0 THEN NoEstimate
    ELSE LET b == IF base = 0 THEN h.bpm ELSE base
         IN  /\ lost' = 0
             /\ IF learned < BaseMin THEN Learn(b, h.bpm) ELSE Detect(b, h.bpm)

-----------------------------------------------------------------------------
(* SmartHelmet_VitalsProcess. *)

\* The gate stays active for a few quiet windows after the last loud one.
StaysActive == motion = "active" /\ still + 1 < StillSamples

\* Mutant of ActiveWindow: the early return leaves the trend standing.
ActiveWindowKeepsTrend(loud) ==
    /\ loud \/ StaysActive
    /\ motion' = "active"
    /\ still' = IF loud THEN 0 ELSE still + 1
    /\ calm' = 0 /\ left' = Holdoff
    /\ last' = 0 /\ rej' = 0 /\ hr' = [valid |-> FALSE, bpm |-> 0]
    /\ UNCHANGED <<trend, trusted, detector>>
    /\ Remember("motion")

\* The early return: the detector does not see a window with motion.
ActiveWindow(loud) ==
    /\ loud \/ StaysActive
    /\ motion' = "active"
    /\ still' = IF loud THEN 0 ELSE still + 1
    /\ calm' = 0 /\ left' = Holdoff
    /\ last' = 0 /\ rej' = 0 /\ hr' = [valid |-> FALSE, bpm |-> 0]
    /\ trend' = "unknown" /\ trusted' = FALSE
    /\ UNCHANGED detector
    /\ Remember("motion")

GateCalms(loud) ==
    /\ ~loud /\ ~StaysActive
    /\ motion' = "calm"
    /\ still' = IF motion = "active" THEN Cap(still + 1, StillSamples) ELSE 0
    /\ calm' = Cap(calm + 1, CalmMin)

\* Too few calm windows yet: the hold-off starts again.
WarmWindow(loud) ==
    /\ GateCalms(loud) /\ calm' < CalmMin
    /\ left' = Holdoff
    /\ FuseHr([ok |-> FALSE, bpm |-> 0], FALSE, 0, 0)
    /\ trend' = "unknown" /\ trusted' = FALSE
    /\ UpdateHrChange(hr')
    /\ Remember("disturbed")

\* The pulse and respiration bands: nothing there, an artefact, or a pulse
\* somewhere against its baseline.
BandTrend(band) ==
    /\ trend' = IF band = "artefact" THEN "unknown" ELSE band
    /\ trusted' = (band # "artefact")

Bands == {"absent", "artefact", "stable", "rising", "falling"}

\* Mutant of CalmWindow: a disturbance seen by a calm gate is ignored.
CalmWindowUnheld(loud, disturbed, f, band) ==
    /\ GateCalms(loud) /\ calm' = CalmMin
    /\ left' = Positive(left - 1)
    /\ FuseHr(f, left = 0, last, rej)
    /\ BandTrend(band)
    /\ UpdateHrChange(hr')
    /\ Remember(CASE disturbed -> "disturbed"
                  [] ~disturbed /\ hr'.valid -> "usable"
                  [] OTHER -> "poor")

\* A calm window: a disturbance (energy, residual or DC jump) restarts the
\* hold-off, and an estimate is used once the hold-off has run out.
CalmWindow(loud, disturbed, f, band) ==
    /\ GateCalms(loud) /\ calm' = CalmMin
    /\ LET held == IF disturbed THEN Holdoff ELSE left
       IN  /\ left' = Positive(held - 1)
           /\ FuseHr(f, held = 0, IF disturbed THEN 0 ELSE last,
                     IF disturbed THEN 0 ELSE rej)
           /\ BandTrend(band)
           /\ UpdateHrChange(hr')
           /\ Remember(CASE disturbed -> "disturbed"
                         [] ~disturbed /\ hr'.valid -> "usable"
                         [] ~disturbed /\ ~hr'.valid /\ f.ok
                              -> IF held = 0 THEN "refused" ELSE "held"
                         [] OTHER -> "poor")

\* What the estimators make of a window.  One whose energy, residual or time
\* base is unusable (shHrSignalReason) is fused as one without estimates.
Estimates == {Fused(peak, fft) : peak, fft \in Bpms \union {0}}

VitalsProcess ==
    \E loud \in BOOLEAN :
      \/ ActiveWindow(loud)
      \/ WarmWindow(loud)
      \/ \E disturbed \in BOOLEAN, f \in Estimates, band \in Bands :
              CalmWindow(loud, disturbed, f, band)

Init ==
    /\ motion = "calm" /\ still = 0 /\ calm = 0 /\ left = Holdoff
    /\ last = 0 /\ rej = 0 /\ hr = [valid |-> FALSE, bpm |-> 0]
    /\ trend = "unknown" /\ trusted = FALSE
    /\ base = 0 /\ learned = 0 /\ lost = 0 /\ up = 0 /\ dn = 0
    /\ change = "unknown"
    /\ past = NoPast

\* Mutant of VitalsInit: the change of the previous wearer is kept.
VitalsInitKeepsChange ==
    /\ motion' = "calm" /\ calm' = 0 /\ left' = Holdoff
    /\ last' = 0 /\ rej' = 0 /\ hr' = [valid |-> FALSE, bpm |-> 0]
    /\ trend' = "unknown" /\ trusted' = FALSE
    /\ base' = 0 /\ learned' = 0 /\ lost' = 0 /\ up' = 0 /\ dn' = 0
    /\ past' = NoPast
    /\ UNCHANGED <<still, change>>

\* SmartHelmet_VitalsInit, from power-on and from a restart request; it does
\* not reset still_run.
VitalsInit ==
    /\ motion' = "calm" /\ calm' = 0 /\ left' = Holdoff
    /\ last' = 0 /\ rej' = 0 /\ hr' = [valid |-> FALSE, bpm |-> 0]
    /\ trend' = "unknown" /\ trusted' = FALSE
    /\ base' = 0 /\ lost' = 0 /\ learned' = 0 /\ up' = 0 /\ dn' = 0
    /\ change' = "unknown"
    /\ past' = NoPast
    /\ UNCHANGED still

Next == VitalsInit \/ VitalsProcess

Spec == Init /\ [][Next]_vars

\* The SENS_IN timer processes a window every second.
FairSpec == Spec /\ WF_vars(VitalsProcess)

-----------------------------------------------------------------------------
(* Properties. *)

\* A usable pulse comes only from a settled signal: since the last motion
\* the gate has warmed up and a whole hold-off has passed, and since the last
\* disturbance a whole hold-off (shHrDisturb, SMART_HELMET_CALM_WINDOWS_MIN).
ValidOnlySettled ==
    hr.valid => /\ past.quiet >= CalmMin + Holdoff
                /\ past.settled >= Holdoff

\* The rate that is reported as usable jumps by more than MaxDelta only after
\* Resync rejections or after a disturbance (the guard in shFuseHr).
JumpNeedsResync ==
    [][hr'.valid /\ past.seen # 0 /\ Distance(hr'.bpm, past.seen) > MaxDelta
         => past.refused >= Resync]_vars

\* The baseline stays within the rates that were measured, so it is never
\* taken for 0, "no baseline", once it is learned, and is 0 otherwise
\* (hr_base_bpm and hr_base_n in shUpdateHrChange).
BaselineInBand ==
    /\ base = 0 <=> learned = 0
    /\ base # 0 => \E lo, hi \in Bpms : lo <= base /\ base <= hi

\* A change of the pulse is reported only against a learned baseline, also
\* across motion, long gaps and restarts (sh_vitals.hr_change).
ChangeNeedsBaseline ==
    change # "unknown" => learned = BaseMin

\* A trend is trusted, and an absent pulse reported, only by a calm gate that
\* has warmed up (SmartHelmet_VitalsProcess).
TrendNeedsCalm ==
    trusted \/ trend # "unknown" => motion = "calm" /\ past.quiet >= CalmMin

\* As long as the estimators agree and nothing disturbs, the guard does not
\* lock the pulse out, however the rate jumps ("must not lock the guard out
\* forever", shFuseHr).
GuardLetsThrough ==
    <>[](past.win \in {"usable", "refused", "held"}) => []<>(hr.valid)
=============================================================================
