---------------------------- MODULE HelmetReport ----------------------------
(***************************************************************************)
(* What the report says about motion and falls.  The accelerometer is read *)
(* by the 200 ms motion poll and by every report that can be sent; steps   *)
(* and falls are latched between reports and consumed by the next report,  *)
(* which is built every 2 s whether or not it can be sent.                 *)
(*                                                                         *)
(* A sample is [axis, mg]: a helmet at rest or jolted along one axis, so   *)
(* that the magnitude of a sample and the largest change of an axis        *)
(* between two samples are both exact.                                     *)
(***************************************************************************)
EXTENDS Integers, Sequences, FiniteSetsExt, SequencesExt

CONSTANTS
    Samples,        \* what LIS3DH may read
    MotionWin,      \* MOTION_WIN (25)
    MotionRmsMg,    \* SMART_HELMET_MOTION_RMS_MG (40)
    FallRmsMg,      \* SMART_HELMET_FALL_RMS_MG (220)
    FallFreefallMg, \* SMART_HELMET_FALL_FREEFALL_MG (700)
    FallImpactMg,   \* SMART_HELMET_FALL_IMPACT_MG (1300)
    FallSwingMg,    \* SMART_HELMET_FALL_SWING_MG (400)
    StillReports    \* SMART_HELMET_MOTION_STILL_REPORTS (2)

Axes == {"x", "y", "z"}

ASSUME ReportAssumption ==
    /\ Samples \subseteq [axis : Axes, mg : Nat \ {0}]
    /\ MotionWin \in Nat \ {0, 1}
    /\ MotionRmsMg \in Nat \ {0}
    /\ {FallRmsMg, FallFreefallMg, FallImpactMg, FallSwingMg} \subseteq Nat
    /\ StillReports \in Nat \ {0}

NoSample == [axis |-> "x", mg |-> 0]      \* the zeroed sh_sensors

VARIABLES
    powered,  \* sh_powered
    lisOk,    \* sh_sensors.lis3dh_ok
    seen,     \* sh_sensors.lis3dh_x, _y, _z: the last successful read
    prev,     \* prev_x, _y, _z of the motion poll, <<>> until have_prev
    window,   \* motion_mag, the last motion_count samples, oldest first
    fall,     \* sh_fall_pending
    motion,   \* [moved, holding, quiet]: sh_motion_since_report, ...
    report,   \* the last report built: motion, fall, and if it was sent
    past      \* what the samples were, for the properties

vars == <<powered, lisOk, seen, prev, window, fall, motion, report, past>>

Seen == Samples \cup {NoSample}

(* hit: a fall sample since the last report; alarm: a fall sample or a     *)
(* window that shows a fall since then, the samples kept from before it    *)
(* included; step: a poll stepped over the gate since the last report;     *)
(* ago: reports since one that covered such a poll, since power-on; due,   *)
(* may, went: hit, alarm and ago < StillReports when the last report was   *)
(* built; unsent: a hit since the last report that was sent.               *)
Pasts == [hit : BOOLEAN, alarm : BOOLEAN, due : BOOLEAN, may : BOOLEAN,
          step : BOOLEAN, ago : 0..StillReports, went : BOOLEAN,
          unsent : BOOLEAN]

(* Every static keeps its type; the window never outgrows MOTION_WIN and   *)
(* the quiet counter never reaches the limit that ends a movement.         *)
TypeOK ==
    /\ powered \in BOOLEAN /\ lisOk \in BOOLEAN
    /\ seen \in Seen /\ prev \in {<<>>} \cup {<<s>> : s \in Seen}
    /\ window \in Seq(Nat) /\ Len(window) <= MotionWin
    /\ fall \in BOOLEAN
    /\ motion \in [moved : BOOLEAN, holding : BOOLEAN, quiet : 0..(StillReports - 1)]
    /\ report \in [moving : BOOLEAN, fall : BOOLEAN, sent : BOOLEAN]
    /\ past \in Pasts

-----------------------------------------------------------------------------
(* The accelerometer window of the vitals. *)

Diff(a, b) == IF a > b THEN a - b ELSE b - a

\* The largest change of an axis between two samples.
Step(a, b) ==
    IF a.axis = b.axis THEN Diff(a.mg, b.mg) ELSE Max({a.mg, b.mg})

\* shNoteFallMag: a magnitude of 0 is no reading.
IsHit(mag) == mag > 0 /\ (mag >= FallImpactMg \/ mag <= FallFreefallMg)

\* The ring buffer after mag, its oldest sample overwritten.
Pushed(mag) ==
    IF Len(window) < MotionWin
    THEN Append(window, mag) ELSE Append(Tail(window), mag)

SumOf(w) == FoldLeft(LAMBDA a, b : a + b, 0, w)

\* shRmsDevU16(w) >= FallRmsMg, the square root rounded down.
RmsReached(w) ==
    LET mean == SumOf(w) \div Len(w)
        squares == [i \in DOMAIN w |-> Diff(w[i], mean) * Diff(w[i], mean)]
    IN  SumOf(squares) \div Len(w) >= FallRmsMg * FallRmsMg

\* shNoteFallWindow
Alarming(w) ==
    LET mn == Min(ToSet(w))
        pk == Max(ToSet(w))
    IN  \/ RmsReached(w)
        \/ pk >= FallImpactMg
        \/ mn > 0 /\ mn <= FallFreefallMg
        \/ pk - mn >= FallSwingMg

\* VitalsProcess looks at the window once it holds two samples.
WindowFall(w) == Len(w) >= 2 /\ Alarming(w)

\* A poll leaves the last sample when the I2C read fails.
Readable == Samples \cup {seen}

-----------------------------------------------------------------------------
(* Handlers. *)

\* Mutant of VitalsInit: a fall pending at a restart of the vitals is kept.
VitalsInitKeepsFall ==
    /\ window' = <<>>
    /\ fall' = fall

VitalsInit ==
    /\ window' = <<>>
    /\ fall' = FALSE

\* The history of a window that starts empty.
Forgotten(p) == [p EXCEPT !.hit = FALSE, !.alarm = FALSE, !.unsent = FALSE]

\* ReportStart, the motion field: moving is held over StillReports quiet
\* reports.
NextMotion ==
    LET ended == motion.quiet + 1 >= StillReports
    IN  [moved |-> FALSE,
         holding |-> motion.moved \/ (motion.holding /\ ~ended),
         quiet |-> IF motion.moved \/ ~motion.holding \/ ended
                   THEN 0 ELSE motion.quiet + 1]

\* A report is built from the latches pending, TakeFall included, and clears
\* them; w is the window it leaves.
Build(pending, p, w, sent) ==
    /\ fall' = FALSE
    /\ motion' = NextMotion
    /\ report' = [moving |-> NextMotion.holding, fall |-> pending, sent |-> sent]
    /\ LET ago == IF p.step THEN 0
                  ELSE IF p.ago < StillReports THEN p.ago + 1 ELSE p.ago
       IN  past' = [hit |-> FALSE, alarm |-> WindowFall(w),
                    due |-> p.hit, may |-> p.alarm,
                    step |-> FALSE, ago |-> ago, went |-> ago < StillReports,
                    unsent |-> p.unsent /\ ~(sent /\ pending)]

\* SmartHelmet_ReportStart when it is held (no session, or I2C not ready).
ReportHeld ==
    /\ powered
    /\ Build(fall, past, window, FALSE)
    /\ UNCHANGED <<powered, lisOk, seen, prev, window>>

NotedPush(p, mag, w) ==
    [p EXCEPT !.hit = @ \/ IsHit(mag), !.unsent = @ \/ IsHit(mag),
              !.alarm = @ \/ IsHit(mag) \/ WindowFall(w)]

\* SmartHelmet_ReportStart in a session with all sensors ready: it reads
\* them, pushes the sample and processes the window first.  The UART may
\* still refuse the line.
ReportStart(s, sent) ==
    LET w == Pushed(s.mg)
    IN  /\ powered /\ lisOk
        /\ seen' = s
        /\ window' = w
        /\ Build(fall \/ IsHit(s.mg) \/ WindowFall(w),
                 NotedPush(past, s.mg, w), w, sent)
        /\ UNCHANGED <<powered, lisOk, prev>>

\* Mutant of MotionPoll: the step is taken for a level, not latched.
MotionPollUnlatched(s) ==
    LET step == prev # <<>> /\ Step(prev[1], s) >= MotionRmsMg
        w == Pushed(s.mg)
    IN  /\ powered /\ lisOk
        /\ seen' = s /\ prev' = <<s>>
        /\ window' = w
        /\ fall' = (fall \/ IsHit(s.mg))
        /\ motion' = [motion EXCEPT !.moved = step]
        /\ past' = [NotedPush(past, s.mg, w) EXCEPT !.step = @ \/ step]
        /\ UNCHANGED <<powered, lisOk, report>>

\* Mutant of MotionPoll: only the window of the next processing finds a fall.
MotionPollNoFall(s) ==
    LET step == prev # <<>> /\ Step(prev[1], s) >= MotionRmsMg
        w == Pushed(s.mg)
    IN  /\ powered /\ lisOk
        /\ seen' = s /\ prev' = <<s>>
        /\ window' = w
        /\ motion' = [motion EXCEPT !.moved = @ \/ step]
        /\ past' = [NotedPush(past, s.mg, w) EXCEPT !.step = @ \/ step]
        /\ UNCHANGED <<powered, lisOk, fall, report>>

\* SMART_HELMET_MOTION_POLL; without LIS3DH it only arms itself again.
MotionPoll(s) ==
    LET step == prev # <<>> /\ Step(prev[1], s) >= MotionRmsMg
        w == Pushed(s.mg)
    IN  /\ powered /\ lisOk
        /\ seen' = s /\ prev' = <<s>>
        /\ window' = w
        /\ fall' = (fall \/ IsHit(s.mg))
        /\ motion' = [motion EXCEPT !.moved = @ \/ step]
        /\ past' = [NotedPush(past, s.mg, w) EXCEPT !.step = @ \/ step]
        /\ UNCHANGED <<powered, lisOk, report>>

\* VitalsProcess on every 25th SENS_IN sample; a result requested before
\* power-off may still run it afterwards.
VitalsProcess ==
    /\ fall' = (fall \/ WindowFall(window))
    /\ UNCHANGED <<powered, lisOk, seen, prev, window, motion, report, past>>

\* The border router asks for RESTART_SENSOR: the vitals start over.
ModuleRestart ==
    /\ powered
    /\ VitalsInit
    /\ past' = Forgotten(past)
    /\ UNCHANGED <<powered, lisOk, seen, prev, motion, report>>

\* A verify pass finds LIS3DH late.
LisFound ==
    /\ powered /\ ~lisOk
    /\ lisOk' = TRUE
    /\ UNCHANGED <<powered, seen, prev, window, fall, motion, report, past>>

\* SmartHelmet_PowerOn probes LIS3DH (found or not), starts the vitals over
\* and builds a first report, which is held: there is no session yet.
PowerOn(found) ==
    /\ ~powered
    /\ powered' = TRUE
    /\ lisOk' = found
    /\ window' = <<>>
    /\ Build(FALSE, Forgotten(past), <<>>, FALSE)
    /\ UNCHANGED <<seen, prev>>

Calm == [moved |-> FALSE, holding |-> FALSE, quiet |-> 0]

\* SmartHelmet_PowerOff: the motion latches are cleared, what the vitals
\* hold and the statics of the motion poll are not.
PowerOff ==
    /\ powered
    /\ powered' = FALSE
    /\ lisOk' = FALSE
    /\ motion' = Calm
    /\ past' = [past EXCEPT !.step = FALSE, !.ago = StillReports, !.unsent = FALSE]
    /\ UNCHANGED <<seen, prev, window, fall, report>>

Init ==
    /\ powered = FALSE /\ lisOk = FALSE
    /\ seen = NoSample /\ prev = <<>> /\ window = <<>> /\ fall = FALSE
    /\ motion = Calm
    /\ report = [moving |-> FALSE, fall |-> FALSE, sent |-> FALSE]
    /\ past = [hit |-> FALSE, alarm |-> FALSE, due |-> FALSE, may |-> FALSE,
               step |-> FALSE, ago |-> StillReports, went |-> FALSE,
               unsent |-> FALSE]

Next ==
    \/ ReportHeld
    \/ \E s \in Readable, sent \in BOOLEAN : ReportStart(s, sent)
    \/ \E s \in Readable : MotionPoll(s)
    \/ VitalsProcess
    \/ ModuleRestart
    \/ LisFound
    \/ \E found \in BOOLEAN : PowerOn(found)
    \/ PowerOff

Spec == Init /\ [][Next]_vars

-----------------------------------------------------------------------------
(* Properties. *)

(* Whatever order polls, window processing and reports come in, a sample   *)
(* over the impact or under the free-fall limit that was pushed since the  *)
(* previous report makes the next report say fall:yes, even when the ring  *)
(* has lost the sample; only VitalsInit (power-on, RESTART_SENSOR) forgets *)
(* it (shNoteFallMag, SmartHelmet_VitalsTakeFall).                         *)
FallNeverMissed == past.due => report.fall

(* fall:yes always has a cause in the samples: one that crossed a limit    *)
(* since the previous report, or a window, no further back than MOTION_WIN *)
(* samples before that report and never across a VitalsInit, that shows a  *)
(* fall.  No report repeats a fall the ring no longer holds.               *)
FallHasCause == report.fall => past.may

(* The report says moving exactly when one of the last StillReports        *)
(* reports, this one included, covered a poll that stepped over the gate   *)
(* since power-on: one quiet window never flips it to still, and it does   *)
(* not hold on any longer (SmartHelmet_ReportStart, sh_motion_holding).    *)
MovingIsDebounced == report.moving <=> past.went

(* A hit stays latched until a report carrying it has been sent, while     *)
(* the helmet is on and the vitals are not started over: "Latch any hit    *)
(* until reported" (the comment on SMART_HELMET_FALL_RMS_MG).  The code    *)
(* consumes the latch in reports that are held or refused by the UART.     *)
HitLatchedUntilSent == past.unsent => fall
=============================================================================
