----------------------------- MODULE SensorHub -----------------------------
(***************************************************************************)
(* The I2C devices of the helmet: probing and the 1 s verify retries after *)
(* power-on, the INIT FAIL latch when the retries are used up, and the     *)
(* OLED, which is redrawn through a cache of its four lines, blanked on    *)
(* power-off and lit again in LIMBO while the charger cable is in.         *)
(*                                                                         *)
(* A probe finds any set of the missing devices.  Any transfer to the OLED *)
(* may fail; the code ignores the result or abandons the redraw.           *)
(***************************************************************************)
EXTENDS Integers, Sequences, FiniteSets

CONSTANTS
    Sensors,        \* CCS811, HDC1080, LIS3DH, MLX90614
    RetryMax,       \* SMART_HELMET_I2C_PROBE_RETRY_MAX (5)
    Levels,         \* battery percentages shown
    LinkTexts,      \* what shBrText says of the Wi-SUN link
    DisplayFaults   \* OLED transfers may fail

ASSUME HubAssumption ==
    /\ "ssd" \notin Sensors /\ IsFiniteSet(Sensors)
    /\ RetryMax \in Nat \ {0}
    /\ DisplayFaults \in BOOLEAN

Devices == Sensors \cup {"ssd"}
States == {"null", "limbo", "powering_on", "idle", "powering_off"}
StateIsOn(s) == s \in {"powering_on", "idle"}

(* A line of the OLED: what it is about, and its value.  Splash and        *)
(* garbage are what an initialisation and an abandoned redraw leave.       *)
Empty == <<"empty", "">>
Splash == <<"splash", "">>
Garbage == <<"garbage", "">>
Texts ==
    {Empty, Splash, Garbage, <<"audio", "">>, <<"initfail", "">>}
        \cup ({"state"} \X States) \cup ({"bat"} \X Levels)
        \cup ({"br"} \X LinkTexts) \cup ({"missing"} \X SUBSET Sensors)
Pages == 1..4
Dark == [i \in Pages |-> Empty]

VARIABLES
    ui,       \* sh_ui_state, the headset state
    powered,  \* sh_powered
    cable,    \* the charger is connected
    ok,       \* sh_sensors: the devices whose _ok flag is set
    tries,    \* sh_probe_try
    retry,    \* SMART_HELMET_I2C_PROBE_RETRY is armed
    disp      \* the display and the INIT FAIL latch

vars == <<ui, powered, cable, ok, tries, retry, disp>>

(* blanked, latched: sh_display_blanked, the sensors of sh_init_fail_line  *)
(* ({}: not latched); cache: sh_oled_prev, <<>> until sh_oled_have_prev;   *)
(* glass, lit: what the panel holds, and whether its pump is on; slipped:  *)
(* the last command to the panel was lost; want: the lines of the last      *)
(* refresh if nothing it sent was lost and the OLED was to be on.          *)
TypeOK ==
    /\ ui \in States /\ powered \in BOOLEAN /\ cable \in BOOLEAN
    /\ ok \subseteq Devices
    /\ tries \in 0..RetryMax
    /\ retry \in BOOLEAN
    /\ disp.blanked \in BOOLEAN /\ disp.lit \in BOOLEAN /\ disp.slipped \in BOOLEAN
    /\ disp.latched \subseteq Sensors
    /\ disp.cache = <<>> \/ disp.cache \in [Pages -> Texts]
    /\ disp.glass \in [Pages -> Texts]
    /\ disp.want = <<>> \/ disp.want \in [Pages -> Texts]

-----------------------------------------------------------------------------
(* The display.  The fault f of a call: 0 none, a page whose drawing is    *)
(* cut off, or 5 for a bus that lets nothing through.                      *)

Dead == 5
Faults == IF DisplayFaults THEN 0..Dead ELSE {0}

\* SmartHelmet_SensorsDisplayBlank
DisplayBlank(d, found, f) ==
    LET b == [d EXCEPT !.blanked = TRUE, !.cache = <<>>, !.latched = {},
                       !.want = <<>>]
    IN  IF "ssd" \notin found THEN b
        ELSE IF f = Dead THEN [b EXCEPT !.slipped = TRUE]
        ELSE [b EXCEPT !.glass = Dark, !.lit = FALSE, !.slipped = FALSE]

\* SmartHelmet_SensorsDisplayOn, DisplayResume
DisplayOn(d, found, f) ==
    IF "ssd" \notin found THEN d
    ELSE IF f = Dead THEN [d EXCEPT !.blanked = FALSE, !.slipped = TRUE]
    ELSE [d EXCEPT !.blanked = FALSE, !.lit = TRUE, !.slipped = FALSE]

\* Mutant of Lines: INIT FAIL does not name the sensors.
LinesUnnamed(state, latched, pct, br) ==
    <<  <<"state", state>>, <<"bat", pct>>,
        IF state = "limbo" THEN Empty
        ELSE IF latched # {} THEN <<"initfail", "">> ELSE <<"br", br>>,
        IF state = "limbo" THEN Empty ELSE <<"audio", "">>  >>

Lines(state, latched, pct, br) ==
    <<  <<"state", state>>, <<"bat", pct>>,
        IF state = "limbo" THEN Empty
        ELSE IF latched # {} THEN <<"initfail", "">> ELSE <<"br", br>>,
        IF state = "limbo" THEN Empty
        ELSE IF latched # {} THEN <<"missing", latched>> ELSE <<"audio", "">>  >>

\* The redraw of the lines that differ from the cache, up to page n.
Drawn(d, lines, n) ==
    [i \in Pages |-> IF i < n /\ (d.cache = <<>> \/ d.cache[i] # lines[i])
                     THEN lines[i] ELSE d.glass[i]]

Draw(d, lines, f) ==
    LET fails == f # 0 /\ f # Dead /\ (d.cache = <<>> \/ d.cache[f] # lines[f])
        cached(n) == [i \in Pages |-> IF i < n THEN lines[i] ELSE d.cache[i]]
    IN  IF f = Dead THEN [d EXCEPT !.want = <<>>]
        ELSE IF ~fails
        THEN [d EXCEPT !.glass = Drawn(d, lines, Dead), !.cache = lines,
                       !.want = lines]
        ELSE [d EXCEPT !.glass = [Drawn(d, lines, f) EXCEPT ![f] = Garbage],
                       !.cache = IF @ = <<>> THEN <<>> ELSE cached(f),
                       !.want = <<>>]

\* SmartHelmet_SensorsShowAdcMv in the headset state s.
ShowAdcMv(d, found, s, pct, br, f) ==
    LET lines == Lines(s, d.latched, pct, br)
        blank == DisplayBlank(d, found, f)
    IN  IF "ssd" \notin found THEN [d EXCEPT !.want = <<>>]
        ELSE IF d.blanked \/ ~(StateIsOn(s) \/ s = "limbo")
        THEN [blank EXCEPT !.want = IF StateIsOn(s) /\ f # Dead
                                    THEN lines ELSE <<>>]
        ELSE Draw(DisplayOn(d, found, f), lines, f)

\* shProbeSsd1315 and shInitSsd1315: the panel is switched on and shows the
\* splash; half: the initialisation failed after the panel was on.
ProbeSsd(d, found, half) ==
    IF "ssd" \in found
    THEN [d EXCEPT !.glass = <<Empty, Splash, Splash, Splash>>, !.lit = TRUE,
                   !.slipped = FALSE, !.want = <<>>]
    ELSE IF half
    THEN [d EXCEPT !.glass = [i \in Pages |-> Garbage], !.lit = TRUE,
                   !.slipped = TRUE, !.want = <<>>]
    ELSE [d EXCEPT !.slipped = TRUE]

-----------------------------------------------------------------------------
(* Power and the headset state. *)

\* SmartHelmet_PowerOff on the display: SensorsSleep, then DisplayBlank; the
\* OLED stays initialised.
Slept(d, f) == DisplayBlank([d EXCEPT !.latched = {}], ok, f)

\* SmartHelmet_PowerOn on the display: SensorsInit, then DisplayResume.
Woken(d, found, half, f) ==
    DisplayOn(ProbeSsd([d EXCEPT !.latched = {}], found, half), found, f)

\* Mutant of LimboDisplay: only the cable going in is acted on.
LimboDisplayStays(d, found, plugged, pct, br, f) ==
    IF plugged
    THEN ShowAdcMv(DisplayOn(d, found, f), found, "limbo", pct, br, f)
    ELSE d

\* headsetSmApplyLimboChargeLed: lit with the cable in, dark without.
LimboDisplay(d, found, plugged, pct, br, f) ==
    IF plugged
    THEN ShowAdcMv(DisplayOn(d, found, f), found, "limbo", pct, br, f)
    ELSE DisplayBlank(d, found, f)

Follows(s) ==
    CASE s = "null" -> {"limbo"}
      [] s = "limbo" -> {"powering_on"}
      [] s = "powering_on" -> {"idle", "powering_off"}
      [] s = "idle" -> {"idle", "powering_off"}
      [] s = "powering_off" -> {"limbo"}

\* Mutant of PowerUp: the retries of the last power-on are not forgotten.
PowerUpCounting(s, found, half, pct, br, f) ==
    /\ StateIsOn(s) /\ ~powered
    /\ powered' = TRUE
    /\ ok' = found
    /\ UNCHANGED tries
    /\ retry' = (found # Devices)
    /\ disp' = ShowAdcMv(Woken(disp, found, half, f), found, s, pct, br, f)

\* SmartHelmet_UiRefresh with a state that is on: SmartHelmet_PowerOn probes
\* every device and starts the verify retries if one is missing.
PowerUp(s, found, half, pct, br, f) ==
    /\ StateIsOn(s) /\ ~powered
    /\ powered' = TRUE
    /\ ok' = found
    /\ tries' = 0
    /\ retry' = (found # Devices)
    /\ disp' = ShowAdcMv(Woken(disp, found, half, f), found, s, pct, br, f)

\* SmartHelmet_UiRefresh with a state that is off: SmartHelmet_PowerOff.
PowerDown(s, pct, br, f) ==
    /\ ~StateIsOn(s) /\ powered
    /\ powered' = FALSE
    /\ ok' = ok \cap {"ssd"}
    /\ retry' = FALSE
    /\ disp' = ShowAdcMv(Slept(disp, f), ok, s, pct, br, f)
    /\ UNCHANGED tries

\* SmartHelmet_UiRefresh without a change of power; the entry to LIMBO sets
\* the display by the cable.
KeepPower(s, pct, br, f) ==
    /\ StateIsOn(s) = powered
    /\ LET shown == ShowAdcMv(disp, ok, s, pct, br, f)
       IN  disp' = IF s = "limbo"
                   THEN LimboDisplay(shown, ok, cable, pct, br, f) ELSE shown
    /\ UNCHANGED <<powered, ok, tries, retry>>

\* headsetSetState, and the refreshes in IDLE when a handset comes or goes.
SetState(s) ==
    /\ s \in Follows(ui)
    /\ ui' = s
    /\ \E pct \in Levels, br \in LinkTexts, f \in Faults :
        \/ \E found \in SUBSET Devices, half \in {FALSE, DisplayFaults} :
               PowerUp(s, found, half, pct, br, f)
        \/ PowerDown(s, pct, br, f)
        \/ KeepPower(s, pct, br, f)
    /\ UNCHANGED cable

\* Mutant of VerifyPass: the latch is taken before the last probe.
VerifyPassEarlyLatch(found, half, pct, br, f) ==
    LET now == ok \cup found
        d == IF "ssd" \in ok THEN disp ELSE ProbeSsd(disp, found, half)
    IN  /\ tries' = tries + 1
        /\ ok' = now
        /\ retry' = (now # Devices /\ tries + 1 < RetryMax)
        /\ disp' = IF now # Devices /\ tries + 1 >= RetryMax
                   THEN ShowAdcMv([d EXCEPT !.latched = Sensors \ ok],
                                  now, ui, pct, br, f)
                   ELSE d

\* Mutant of VerifyPass: a pass that finds a device does not arm the next.
VerifyPassOneAtATime(found, half, pct, br, f) ==
    LET now == ok \cup found
        d == IF "ssd" \in ok THEN disp ELSE ProbeSsd(disp, found, half)
    IN  /\ tries' = tries + 1
        /\ ok' = now
        /\ retry' = (found = {} /\ tries + 1 < RetryMax)
        /\ disp' = IF now # Devices /\ tries + 1 >= RetryMax
                   THEN ShowAdcMv([d EXCEPT !.latched = Sensors \ now],
                                  now, ui, pct, br, f)
                   ELSE d

\* Mutant of VerifyPass: the last pass starts over instead of giving up.
VerifyPassStartsOver(found, half, pct, br, f) ==
    LET now == ok \cup found
        d == IF "ssd" \in ok THEN disp ELSE ProbeSsd(disp, found, half)
    IN  /\ tries' = (tries + 1) % RetryMax
        /\ ok' = now
        /\ retry' = (now # Devices)
        /\ disp' = IF now # Devices /\ tries + 1 >= RetryMax
                   THEN ShowAdcMv([d EXCEPT !.latched = Sensors \ now],
                                  now, ui, pct, br, f)
                   ELSE d

\* shSensorsVerifyPass: the missing devices are probed again; the last pass
\* latches what is still missing and shows it.
VerifyPass(found, half, pct, br, f) ==
    LET now == ok \cup found
        d == IF "ssd" \in ok THEN disp ELSE ProbeSsd(disp, found, half)
    IN  /\ tries' = tries + 1
        /\ ok' = now
        /\ retry' = (now # Devices /\ tries + 1 < RetryMax)
        /\ disp' = IF now # Devices /\ tries + 1 >= RetryMax
                   THEN ShowAdcMv([d EXCEPT !.latched = Sensors \ now],
                                  now, ui, pct, br, f)
                   ELSE d

\* SMART_HELMET_I2C_PROBE_RETRY
ProbeRetry ==
    /\ retry
    /\ \E found \in SUBSET (Devices \ ok), half \in {FALSE, DisplayFaults},
          pct \in Levels, br \in LinkTexts, f \in Faults :
           VerifyPass(found, half, pct, br, f)
    /\ UNCHANGED <<ui, powered, cable>>

\* A refresh by the gas scan or the Wi-SUN link, which run while powered.
Refresh ==
    /\ powered
    /\ \E pct \in Levels, br \in LinkTexts, f \in Faults :
           disp' = ShowAdcMv(disp, ok, ui, pct, br, f)
    /\ UNCHANGED <<ui, powered, cable, ok, tries, retry>>

\* A charger or battery message; it sets the display in LIMBO only.
ChargerMessage(plugged) ==
    /\ cable' = plugged
    /\ \E pct \in Levels, br \in LinkTexts, f \in Faults :
           disp' = IF ui = "limbo"
                   THEN LimboDisplay(disp, ok, plugged, pct, br, f) ELSE disp
    /\ UNCHANGED <<ui, powered, ok, tries, retry>>

Init ==
    /\ ui = "null" /\ powered = FALSE /\ cable \in BOOLEAN
    /\ ok = {} /\ tries = 0 /\ retry = FALSE
    /\ disp = [blanked |-> FALSE, latched |-> {}, cache |-> <<>>, glass |-> Dark,
               lit |-> FALSE, slipped |-> FALSE, want |-> <<>>]

Next ==
    \/ \E s \in States : SetState(s)
    \/ ProbeRetry
    \/ Refresh
    \/ \E plugged \in BOOLEAN : ChargerMessage(plugged)

Spec == Init /\ [][Next]_vars

(* A timer that is armed is delivered. *)
FairSpec == Spec /\ WF_vars(ProbeRetry)

-----------------------------------------------------------------------------
(* Properties. *)

(* While a device is missing and passes are left, a retry is armed, and    *)
(* only then, and never while the helmet is off: probing neither stalls    *)
(* with a device left to find nor runs on (shSensorsScheduleRetry,         *)
(* SmartHelmet_SensorsStopVerify).                                         *)
RetryWhileMissing ==
    retry <=> powered /\ ok # Devices /\ tries < RetryMax

(* INIT FAIL is latched only by a power-on that has used up its passes and *)
(* names exactly the sensors that are missing now: no sensor found by the  *)
(* last pass or of an earlier power-on (shLatchInitFail, shClearInitFail). *)
LatchIsTrue ==
    disp.latched # {} =>
        powered /\ tries = RetryMax /\ disp.latched = Sensors \ ok

(* A refresh whose transfers all got through shows INIT FAIL and the names *)
(* as long as they are latched, whatever earlier redraws were cut off and  *)
(* whatever the line cache holds (SmartHelmet_SensorsShowAdcMv).           *)
InitFailShown ==
    disp.want # <<>> /\ disp.latched # {} =>
        /\ disp.glass[3] = <<"initfail", "">>
        /\ disp.glass[4] = <<"missing", Sensors \ ok>>

(* The panel is lit only while the helmet is on, or in LIMBO with the      *)
(* cable in, unless the last command to it was lost                        *)
(* (SmartHelmet_SensorsDisplayBlank, headsetSmApplyLimboChargeLed).        *)
OffIsDark ==
    disp.lit /\ ~disp.slipped => powered \/ (ui = "limbo" /\ cable)

(* Every armed retry leads to the end of probing, by success, giving up or *)
(* power-off: the delivered passes are bounded.                            *)
VerifyEnds == retry ~> ~retry

(* "Redraw OLED for the current headset state" (smart_helmet.h on          *)
(* SmartHelmet_UiRefresh): a refresh none of whose transfers is lost       *)
(* leaves a lit panel with the lines of that state.  The code skips lines  *)
(* the cache holds although SensorsInit has drawn the splash over them,    *)
(* and leaves an OLED dark that a retry found after a power-off.           *)
RefreshRedraws ==
    disp.want # <<>> => disp.lit /\ disp.glass = disp.want
=============================================================================
