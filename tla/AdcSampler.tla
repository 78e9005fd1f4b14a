----------------------------- MODULE AdcSampler -----------------------------
(***************************************************************************)
(* The ADC front end: one converter shared by the gas scan (every channel, *)
(* SENS_IN first) and the faster SENS_IN ticks of the vitals.  A request   *)
(* is answered later by a MESSAGE_ADC_RESULT, in the order of the requests;*)
(* power-off does not recall what was requested.                           *)
(***************************************************************************)
EXTENDS Integers, Sequences, FiniteSets

CONSTANTS
    Channels,    \* smart_helmet_adc_channel_count (4: SENS_IN, CO, NH3, NO2)
    FlightMax    \* power changes are seconds apart and a conversion takes
                 \* less than a millisecond: at most one pair is overtaken (2)

ASSUME AdcAssumption ==
    /\ Channels \in Nat \ {0}
    /\ FlightMax \in Nat

\* What a power change overtakes is less than one scan.
ASSUME FlightAssumption == FlightMax <= 2 * Channels - 2

SensIn == 0
Vref == Channels               \* adcsel_vref_hq_buff
Indices == 0..(Channels - 1)

VARIABLES
    ready,     \* sh_ready
    powered,   \* sh_powered
    timers,    \* armed triggers
    mode,      \* sh_adc_mode
    index,     \* sh_adc_index
    vref,      \* sh_adc_vref_mv is known, not 0
    sample,    \* sh_adc_sample: "none" until valid, else how it was scaled
    flight,    \* results to come: source, who asked, since the last AdcInit
    fed        \* the last sample the vitals were given

power == <<ready, powered>>
vars == <<ready, powered, timers, mode, index, vref, sample, flight, fed>>

Results == [src : 0..Channels, by : {"gas", "sens"}, fresh : BOOLEAN]
Scalings == {"none", "raw", "mv"}

TypeOK ==
    /\ ready \in BOOLEAN /\ powered \in BOOLEAN
    /\ timers \subseteq {"gas", "sens"}
    /\ mode \in {"idle", "full", "sens"}
    /\ index \in 0..Channels
    /\ vref \in BOOLEAN
    /\ sample \in [Indices -> Scalings]
    /\ flight \in Seq(Results)
    /\ fed \in [scale : Scalings, by : {"none", "gas", "sens"}]

-----------------------------------------------------------------------------
(* Requests. *)

\* Mutant of Asked: the scan relies on the reference of the last tick.
AskedAlone(src, by) ==
    LET ask(s) == [src |-> s, by |-> by, fresh |-> TRUE]
    IN  IF by = "gas" THEN <<ask(src)>> ELSE <<ask(Vref), ask(src)>>

Asked(src, by) ==
    LET ask(s) == [src |-> s, by |-> by, fresh |-> TRUE]
    IN  <<ask(Vref), ask(src)>>

\* Mutant of RequestNextFull: one channel too many.
RequestNextFullPastEnd(i, q) ==
    IF i > Channels
    THEN mode' = "idle" /\ flight' = q
    ELSE mode' = "full" /\ flight' = q \o Asked(i, "gas")

\* shAdcRequestNextFull with the scan at channel i, after reading queue q.
RequestNextFull(i, q) ==
    IF i >= Channels
    THEN mode' = "idle" /\ flight' = q
    ELSE mode' = "full" /\ flight' = q \o Asked(i, "gas")

AdcRequestScan ==
    IF mode # "idle" THEN UNCHANGED <<mode, index, flight>>
    ELSE index' = 0 /\ RequestNextFull(0, flight)

\* Mutant of AdcRequestSensIn: the tick does not look at the mode.
AdcRequestSensInAlways ==
    /\ mode' = "sens" /\ index' = SensIn
    /\ flight' = flight \o Asked(SensIn, "sens")

\* A tick that finds the converter busy is dropped, and reported as dropped.
AdcRequestSensIn ==
    IF mode # "idle" THEN UNCHANGED <<mode, index, flight>>
    ELSE /\ mode' = "sens" /\ index' = SensIn
         /\ flight' = flight \o Asked(SensIn, "sens")

Stale(q) == [i \in DOMAIN q |-> [q[i] EXCEPT !.fresh = FALSE]]

-----------------------------------------------------------------------------
Init ==
    /\ ready = FALSE /\ powered = FALSE
    /\ timers = {} /\ mode = "idle" /\ index = 0 /\ vref = FALSE
    /\ sample = [i \in Indices |-> "none"]
    /\ flight = <<>>
    /\ fed = [scale |-> "none", by |-> "none"]

\* SmartHelmet_Init: Close when it was up, then AdcInit if the I2C came up.
SmartHelmetInit(i2cOk) ==
    /\ Len(flight) <= FlightMax
    /\ ready' = i2cOk
    /\ powered' = (powered /\ ~ready)
    /\ mode' = IF ready \/ i2cOk THEN "idle" ELSE mode
    /\ timers' = IF i2cOk THEN {"gas", "sens"} ELSE IF ready THEN {} ELSE timers
    /\ IF i2cOk
       THEN /\ index' = 0 /\ vref' = FALSE
            /\ sample' = [i \in Indices |-> "none"]
            /\ flight' = Stale(flight)
       ELSE UNCHANGED <<index, vref, sample, flight>>
    /\ UNCHANGED fed

\* SmartHelmet_PowerOn: AdcInit, then the first scan at once.
PowerOn ==
    /\ ready /\ ~powered /\ Len(flight) <= FlightMax
    /\ powered' = TRUE
    /\ timers' = {"gas", "sens"}
    /\ index' = 0 /\ vref' = FALSE
    /\ sample' = [i \in Indices |-> "none"]
    /\ RequestNextFull(0, Stale(flight))
    /\ UNCHANGED <<ready, fed>>

\* SmartHelmet_PowerOff: AdcStop.
PowerOff ==
    /\ powered
    /\ powered' = FALSE
    /\ timers' = {}
    /\ mode' = "idle"
    /\ UNCHANGED <<ready, index, vref, sample, flight, fed>>

\* The triggers come 40 ms and 1 s after they are armed: a result asked for
\* before the last AdcInit has arrived by then.
Due(id) == id \in timers /\ \A i \in DOMAIN flight : flight[i].fresh

GasTrigger ==
    /\ Due("gas")
    /\ AdcRequestScan
    /\ UNCHANGED <<power, timers, vref, sample, fed>>

SensTrigger ==
    /\ Due("sens")
    /\ AdcRequestSensIn
    /\ UNCHANGED <<power, timers, vref, sample, fed>>

\* SmartHelmet_PollSensors kicks a scan of its own.
PollSensors ==
    /\ ready
    /\ AdcRequestScan
    /\ UNCHANGED <<power, timers, vref, sample, fed>>

Scaled == IF vref THEN "mv" ELSE "raw"

\* Mutant of FullResult: the next channel is asked for before the index moves.
FullResultLateIndex(r) ==
    /\ mode = "full" /\ index < Channels /\ r.src = index
    /\ sample' = [sample EXCEPT ![index] = Scaled]
    /\ index' = index + 1
    /\ RequestNextFull(index, Tail(flight))
    /\ UNCHANGED <<vref, fed>>

\* The channel of the scan that is waited for; the scan goes on.
FullResult(r) ==
    /\ mode = "full" /\ index < Channels /\ r.src = index
    /\ sample' = [sample EXCEPT ![index] = Scaled]
    /\ index' = index + 1
    /\ RequestNextFull(index + 1, Tail(flight))
    /\ UNCHANGED <<vref, fed>>

\* SENS_IN for the vitals: stored, and fed to the vitals.
SensResult(r) ==
    /\ mode = "sens" /\ r.src = SensIn
    /\ sample' = [sample EXCEPT ![SensIn] = Scaled]
    /\ fed' = [scale |-> Scaled, by |-> r.by]
    /\ mode' = "idle"
    /\ flight' = Tail(flight)
    /\ UNCHANGED <<index, vref>>

VrefResult(r) ==
    /\ r.src = Vref
    /\ vref' = TRUE
    /\ flight' = Tail(flight)
    /\ UNCHANGED <<mode, index, sample, fed>>

\* Nobody waits for it: AdcHandleMessage returns FALSE.
IgnoredResult(r) ==
    /\ r.src # Vref
    /\ ~(mode = "sens" /\ r.src = SensIn)
    /\ ~(mode = "full" /\ index < Channels /\ r.src = index)
    /\ flight' = Tail(flight)
    /\ UNCHANGED <<mode, index, vref, sample, fed>>

AdcResult ==
    /\ flight # <<>>
    /\ LET r == Head(flight)
       IN  VrefResult(r) \/ SensResult(r) \/ FullResult(r) \/ IgnoredResult(r)
    /\ UNCHANGED <<power, timers>>

Next ==
    \/ \E i2cOk \in BOOLEAN : SmartHelmetInit(i2cOk)
    \/ PowerOn
    \/ PowerOff
    \/ GasTrigger
    \/ SensTrigger
    \/ PollSensors
    \/ AdcResult

Spec == Init /\ [][Next]_vars

-----------------------------------------------------------------------------
(* Properties. *)

\* The scan and the tick never wait for a result that is not coming: after
\* any sequence of stops, restarts and stale results, what sh_adc_mode and
\* sh_adc_index wait for has been requested.
NeverWedged ==
    /\ mode = "full" => \E i \in DOMAIN flight : flight[i].src = index
    /\ mode = "sens" => \E i \in DOMAIN flight : flight[i].src = SensIn

\* The vitals are fed only the conversions their own ticks asked for, in
\* millivolts: neither the SENS_IN channel of a gas scan nor one left over
\* from before a restart gets into the 25 Hz series.
VitalsOnGrid ==
    fed.by # "none" => fed.by = "sens" /\ fed.scale = "mv"

\* A converter that answers is never left busy for good.
ScanCompletes ==
    mode # "idle" ~> mode = "idle"
=============================================================================
