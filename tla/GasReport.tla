----------------------------- MODULE GasReport -----------------------------
(***************************************************************************)
(* The gas fields of the report, composed with the ADC front end that      *)
(* measures them.  The first usable reading of a channel since the chip    *)
(* started is its clean-air reference R0, for good; every report gives the *)
(* concentration band of the ratio of the sensor's resistance to R0's.     *)
(*                                                                         *)
(* The three channels are independent.  One of them, any, is followed.     *)
(***************************************************************************)
EXTENDS AdcSampler

CONSTANTS
    Millivolts,   \* readings, as they are after scaling
    Vcc           \* SMART_HELMET_MICS_VCC_MV (3300)

ASSUME GasAssumption ==
    /\ Channels = 4
    /\ Millivolts \subseteq 0..(2^16 - 1)
    /\ Vcc \in 51..(2^16 - 1)

\* The gas fields of channel ch: mv is sh_adc_sample.millivolts, r0 is sh_gas_r0_mv.
\* taken is history, how the reading R0 comes from was scaled; so is said, the reading
\* the last report was built from, its R0 and what it says.
VARIABLE gas

gasVars == <<vars, gas>>

Usable(mv) == mv >= 50 /\ mv < Vcc

\* Mutant of Resistance: the product is computed in sixteen bits.
ResistanceNarrow(mv) == (((Vcc - mv) * 1000) % 2^16) \div mv

\* The resistance of the sensor in thousandths of its load.
Resistance(mv) == ((Vcc - mv) * 1000) \div mv

shGasRatioX100(mv, r0) ==
    IF ~Usable(mv) \/ ~Usable(r0) \/ Resistance(r0) = 0 THEN 100
    ELSE ((Resistance(mv) * 100) \div Resistance(r0)) % 2^16

(* The tables: a sequence of [edge, value], and the value past the last     *)
(* edge.  RED and NH3 resistances fall with the concentration, OX rises;   *)
(* NO2 is in hundredths of a ppm.                                          *)
Table(ch) ==
    CASE ch = 1 -> <<[edge |-> 80, value |-> 1], [edge |-> 40, value |-> 10],
                     [edge |-> 20, value |-> 40], [edge |-> 10, value |-> 120],
                     [edge |-> 5, value |-> 400]>>
      [] ch = 2 -> <<[edge |-> 80, value |-> 1], [edge |-> 40, value |-> 15],
                     [edge |-> 20, value |-> 60], [edge |-> 10, value |-> 180]>>
      [] ch = 3 -> <<[edge |-> 120, value |-> 5], [edge |-> 200, value |-> 25],
                     [edge |-> 400, value |-> 100], [edge |-> 800, value |-> 400]>>

Beyond(ch) == IF ch = 2 THEN 500 ELSE 1000

Rises(ch) == ch = 3

\* shCoPpm, shNh3Ppm, shNo2PpmX100: the first row whose edge is not passed.
Ppm(ch, ratio) ==
    LET within == {i \in DOMAIN Table(ch) :
                      IF Rises(ch) THEN ratio <= Table(ch)[i].edge
                      ELSE ratio >= Table(ch)[i].edge}
    IN  IF within = {} THEN Beyond(ch)
        ELSE Table(ch)[CHOOSE i \in within : \A j \in within : i <= j].value

\* shGasValue, R0.
Latched(g) ==
    IF g.r0 = 0 /\ Usable(g.mv)
    THEN [g EXCEPT !.r0 = g.mv, !.taken = sample[g.ch]] ELSE g

\* SmartHelmet_ReportStart, the gas fields.
Reported(g) ==
    LET l == Latched(g)
        r0 == IF l.r0 = 0 THEN l.mv ELSE l.r0
    IN  [l EXCEPT !.said = [mv |-> l.mv, r0 |-> r0,
                            value |-> Ppm(l.ch, shGasRatioX100(l.mv, r0))]]

-----------------------------------------------------------------------------
\* AdcInit clears the sample.
GasInit(i2cOk) ==
    /\ SmartHelmetInit(i2cOk)
    /\ gas' = IF i2cOk THEN [gas EXCEPT !.mv = 0] ELSE gas

\* SmartHelmet_PowerOn builds its first report over the cleared sample.
GasPowerOn ==
    /\ PowerOn
    /\ gas' = Reported([gas EXCEPT !.mv = 0])

\* A result that the scan waits for is stored.
GasResult ==
    /\ AdcResult
    /\ IF mode = "full" /\ index = gas.ch /\ Head(flight).src = index
       THEN \E mv \in Millivolts : gas' = [gas EXCEPT !.mv = mv]
       ELSE UNCHANGED gas

\* SMART_HELMET_REPORT_TICK and the other reports, sent or held.
GasReportTick ==
    /\ powered
    /\ gas' = Reported(gas)
    /\ UNCHANGED vars

AdcOnly ==
    /\ PowerOff \/ GasTrigger \/ SensTrigger \/ PollSensors
    /\ UNCHANGED gas

GasNext ==
    \/ \E i2cOk \in BOOLEAN : GasInit(i2cOk)
    \/ GasPowerOn
    \/ GasResult
    \/ GasReportTick
    \/ AdcOnly

GasStart ==
    /\ Init
    /\ \E ch \in Indices \ {SensIn} :
          gas = [ch |-> ch, mv |-> 0, r0 |-> 0, taken |-> "none",
                 said |-> [mv |-> 0, r0 |-> 0, value |-> 0]]

\* The converter answers every request it accepted.
GasSpec ==
    /\ GasStart
    /\ [][GasNext]_gasVars
    /\ WF_gasVars(GasResult)

-----------------------------------------------------------------------------
(* Properties.                                                             *)

\* Whatever results a power cycle overtakes, the reading a report is built from is
\* scaled by its reference, and so is the one that R0 keeps until the chip restarts,
\* which is in range: no raw count of an abandoned scan and no cleared sample becomes
\* the clean air of later reports (shGasValue, SmartHelmet_AdcHandleMessage).
ReadingsAreScaled ==
    /\ gas.mv # 0 => sample[gas.ch] = "mv"
    /\ gas.r0 # 0 => Usable(gas.r0) /\ gas.taken = "mv"

\* The ratio of the resistances is below e per cent, or no less, however the two
\* are rounded to thousandths of the load.  Every e is a multiple of 5: in twentieths
\* the products stay within the integers of the model checker.
Below(mv, r0, e) ==
    20 * (Vcc - mv) * r0 < (e \div 5) * (Vcc - r0 - 1 - r0 \div 1000) * mv

AtLeast(mv, r0, e) ==
    20 * (Vcc - mv - 1 - mv \div 1000) * r0 >= (e \div 5) * (Vcc - r0) * mv

\* A report of a usable reading says what the exact ratio says: past an edge of
\* the table by more than the resistances can round, the value beyond it or more;
\* short of it, at most the value before it (shGasRatioX100 rounds three times).
\* Left out are an R0 so near to Vcc that its resistance rounds to 0, for which
\* every reading counts as clean air, and ratios over 655, which wrap in uint16.
GasFollowsRatio ==
    LET t == Table(gas.ch)
        mv == gas.said.mv
        r0 == gas.said.r0
        past(edge) == IF Rises(gas.ch) THEN AtLeast(mv, r0, edge + 5) ELSE Below(mv, r0, edge)
        short(edge) == IF Rises(gas.ch) THEN Below(mv, r0, edge) ELSE AtLeast(mv, r0, edge)
    IN  (Usable(mv) /\ Usable(r0) /\ Resistance(r0) # 0
            /\ (Resistance(mv) * 100) \div Resistance(r0) < 2^16)
        => \A i \in DOMAIN t :
              /\ past(t[i].edge) => gas.said.value > t[i].value
              /\ short(t[i].edge) => gas.said.value <= t[i].value
=============================================================================
