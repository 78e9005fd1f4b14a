-------------------------- MODULE SensorHubProofs --------------------------
(***************************************************************************)
(* Proofs about SensorHub, for every set of sensors, every number of       *)
(* retries, every text and with or without lost transfers to the OLED.     *)
(* The operators on the display are characterised by one lemma each, which *)
(* speaks of the latch and of whether the panel may be lit.                *)
(***************************************************************************)
EXTENDS SensorHub, TLAPS

Fields == {"blanked", "latched", "cache", "glass", "lit", "slipped", "want"}
HasFields(d) == Fields \subseteq DOMAIN d

\* The panel is dark, or the last command to it was lost.
Unlit(d) == ~(d.lit /\ ~d.slipped)

\* The latch is kept or cleared.
KeepsLatch(d, e) == e.latched = d.latched \/ e.latched = {}

-----------------------------------------------------------------------------
(* The display. *)

\* Blanking clears the latch, and darkens a panel that was found.
LEMMA BlankFacts ==
    ASSUME NEW d, HasFields(d), NEW found, NEW f
    PROVE  LET e == DisplayBlank(d, found, f)
           IN  /\ HasFields(e) /\ e.latched = {} /\ e.blanked = TRUE
               /\ "ssd" \in found => Unlit(e)
               /\ "ssd" \notin found /\ Unlit(d) => Unlit(e)
<1> DEFINE b == [d EXCEPT !.blanked = TRUE, !.cache = <<>>, !.latched = {}, !.want = <<>>]
           e == DisplayBlank(d, found, f)
<1>1. /\ HasFields(b) /\ b.latched = {} /\ b.blanked = TRUE
      /\ b.lit = d.lit /\ b.slipped = d.slipped
  BY DEF HasFields, Fields
<1>2. e = IF "ssd" \notin found THEN b
          ELSE IF f = Dead THEN [b EXCEPT !.slipped = TRUE]
          ELSE [b EXCEPT !.glass = Dark, !.lit = FALSE, !.slipped = FALSE]
  BY DEF DisplayBlank
<1> HIDE DEF b, e
<1>3. HasFields(e) /\ e.latched = {} /\ e.blanked = TRUE
  BY <1>1, <1>2 DEF HasFields, Fields
<1>4. "ssd" \in found => e.slipped = TRUE \/ e.lit = FALSE
  BY <1>1, <1>2 DEF HasFields, Fields
<1>5. "ssd" \notin found => e.lit = d.lit /\ e.slipped = d.slipped
  BY <1>1, <1>2
<1>6. QED
  BY <1>3, <1>4, <1>5 DEF Unlit, e

\* Switching the panel on leaves the latch, and a panel that was not found.
LEMMA OnFacts ==
    ASSUME NEW d, HasFields(d), NEW found, NEW f
    PROVE  LET e == DisplayOn(d, found, f)
           IN  /\ HasFields(e) /\ e.latched = d.latched
               /\ "ssd" \notin found => e = d
  BY DEF DisplayOn, HasFields, Fields

\* Drawing leaves the latch.
LEMMA DrawFacts ==
    ASSUME NEW d, HasFields(d), NEW lines, NEW f
    PROVE  LET e == Draw(d, lines, f) IN HasFields(e) /\ e.latched = d.latched
<1>1. \E g, c, w : Draw(d, lines, f) = [d EXCEPT !.glass = g, !.cache = c, !.want = w]
                \/ Draw(d, lines, f) = [d EXCEPT !.want = w]
  BY DEF Draw
<1>2. QED
  BY <1>1 DEF HasFields, Fields

\* A refresh keeps or clears the latch, and does not light a panel that was not
\* found or that is blanked.
LEMMA ShowFacts ==
    ASSUME NEW d, HasFields(d), NEW found, NEW s, NEW pct, NEW br, NEW f
    PROVE  LET e == ShowAdcMv(d, found, s, pct, br, f)
           IN  /\ HasFields(e) /\ KeepsLatch(d, e)
               /\ "ssd" \notin found => (Unlit(d) => Unlit(e)) /\ e.latched = d.latched
               /\ "ssd" \in found /\ d.blanked = TRUE => Unlit(e)
<1> DEFINE e == ShowAdcMv(d, found, s, pct, br, f)
           blank == DisplayBlank(d, found, f)
           on == DisplayOn(d, found, f)
           lines == Lines(s, d.latched, pct, br)
<1>1. HasFields(blank) /\ blank.latched = {} /\ ("ssd" \in found => Unlit(blank))
  BY BlankFacts
<1>2. HasFields(on) /\ on.latched = d.latched
  BY OnFacts
<1>3. HasFields(Draw(on, lines, f)) /\ Draw(on, lines, f).latched = d.latched
  BY <1>2, DrawFacts
<1>4. \/ "ssd" \notin found /\ e = [d EXCEPT !.want = <<>>]
      \/ "ssd" \in found /\ \E w : e = [blank EXCEPT !.want = w]
      \/ "ssd" \in found /\ d.blanked # TRUE /\ e = Draw(on, lines, f)
  BY DEF ShowAdcMv
<1> HIDE DEF e, blank, on, lines
<1>5. CASE "ssd" \notin found /\ e = [d EXCEPT !.want = <<>>]
  <2>1. HasFields(e) /\ e.latched = d.latched /\ e.lit = d.lit /\ e.slipped = d.slipped
    BY <1>5 DEF HasFields, Fields
  <2>2. QED
    BY <1>5, <2>1 DEF KeepsLatch, Unlit, e
<1>6. CASE "ssd" \in found /\ \E w : e = [blank EXCEPT !.want = w]
  <2>1. HasFields(e) /\ e.latched = {} /\ e.lit = blank.lit /\ e.slipped = blank.slipped
    BY <1>1, <1>6 DEF HasFields, Fields
  <2>2. QED
    BY <1>1, <1>6, <2>1 DEF KeepsLatch, Unlit, e
<1>7. CASE "ssd" \in found /\ d.blanked # TRUE /\ e = Draw(on, lines, f)
  BY <1>3, <1>7 DEF KeepsLatch, e
<1>8. QED
  BY <1>4, <1>5, <1>6, <1>7

\* A probe of the panel leaves the latch; one that fails counts as a lost command.
LEMMA ProbeFacts ==
    ASSUME NEW d, HasFields(d), NEW found, NEW half
    PROVE  LET e == ProbeSsd(d, found, half)
           IN  /\ HasFields(e) /\ e.latched = d.latched
               /\ "ssd" \notin found => Unlit(e)
<1> DEFINE e == ProbeSsd(d, found, half)
<1>1. HasFields(e) /\ e.latched = d.latched /\ ("ssd" \notin found => e.slipped = TRUE)
  BY DEF ProbeSsd, HasFields, Fields
<1>2. QED
  BY <1>1 DEF Unlit

\* The display in LIMBO: dark without the cable, and in any case if not found.
LEMMA LimboFacts ==
    ASSUME NEW d, HasFields(d), NEW found, NEW plugged \in BOOLEAN, NEW pct, NEW br, NEW f
    PROVE  LET e == LimboDisplay(d, found, plugged, pct, br, f)
           IN  /\ HasFields(e) /\ KeepsLatch(d, e)
               /\ "ssd" \in found /\ ~plugged => Unlit(e)
               /\ "ssd" \notin found /\ Unlit(d) => Unlit(e)
<1> DEFINE e == LimboDisplay(d, found, plugged, pct, br, f)
           on == DisplayOn(d, found, f)
<1>1. HasFields(on) /\ on.latched = d.latched /\ ("ssd" \notin found => on = d)
  BY OnFacts
<1>2. CASE plugged
  <2>1. e = ShowAdcMv(on, found, "limbo", pct, br, f)
    BY <1>2 DEF LimboDisplay
  <2> HIDE DEF on
  <2>2. HasFields(e) /\ KeepsLatch(on, e) /\ ("ssd" \notin found => (Unlit(on) => Unlit(e)))
    BY <1>1, <2>1, ShowFacts
  <2>3. QED
    BY <1>1, <1>2, <2>2 DEF KeepsLatch
<1>3. CASE ~plugged
  BY <1>3, BlankFacts DEF LimboDisplay, KeepsLatch
<1>4. QED
  BY <1>2, <1>3

-----------------------------------------------------------------------------
(* The steps. *)

\* The helmet is powered in the states that are on, and a panel that was never
\* found is dark or has lost a command.
IInv ==
    /\ powered \in BOOLEAN /\ (powered <=> StateIsOn(ui))
    /\ ok \subseteq Devices
    /\ tries \in 0..RetryMax
    /\ HasFields(disp)
    /\ "ssd" \notin ok => Unlit(disp)
    /\ RetryWhileMissing
    /\ LatchIsTrue
    /\ OffIsDark

\* The start.
LEMMA InitIInv == Init => IInv
<1> SUFFICES ASSUME Init PROVE IInv
  OBVIOUS
<1>1. /\ HasFields(disp) /\ disp.latched = {} /\ disp.lit = FALSE
  BY DEF Init, HasFields, Fields
<1>2. powered = FALSE /\ retry = FALSE /\ ~StateIsOn(ui)
  BY DEF Init, StateIsOn
<1>3. ok \subseteq Devices /\ tries \in 0..RetryMax
  BY HubAssumption DEF Init
<1>4. Unlit(disp) /\ RetryWhileMissing /\ LatchIsTrue /\ OffIsDark
  BY <1>1, <1>2 DEF Unlit, RetryWhileMissing, LatchIsTrue, OffIsDark
<1>5. QED
  BY <1>1, <1>2, <1>3, <1>4 DEF IInv

\* SmartHelmet_PowerOn.
LEMMA PowerUpKeeps ==
    ASSUME IInv, NEW s, ui' = s, NEW found \in SUBSET Devices, NEW half, NEW pct, NEW br,
           NEW f, PowerUp(s, found, half, pct, br, f)
    PROVE  IInv'
<1> DEFINE c == [disp EXCEPT !.latched = {}]
           p == ProbeSsd(c, found, half)
           w == DisplayOn(p, found, f)
<1>1. HasFields(c) /\ c.latched = {}
  BY DEF IInv, HasFields, Fields
<1> HIDE DEF c
<1>2. HasFields(p) /\ p.latched = {} /\ ("ssd" \notin found => Unlit(p))
  BY <1>1, ProbeFacts
<1> HIDE DEF p
<1>3. HasFields(w) /\ w.latched = {} /\ ("ssd" \notin found => Unlit(w))
  BY <1>2, OnFacts
<1>4. disp' = ShowAdcMv(w, found, s, pct, br, f)
  BY DEF PowerUp, Woken, w, p, c
<1> HIDE DEF w
<1>5. HasFields(disp') /\ disp'.latched = {} /\ ("ssd" \notin found => Unlit(disp'))
  BY <1>3, <1>4, ShowFacts DEF KeepsLatch
<1>6. /\ powered' = TRUE /\ StateIsOn(s) /\ ok' = found /\ tries' = 0
      /\ retry' = (found # Devices)
  BY DEF PowerUp
<1>7. powered' \in BOOLEAN /\ powered' /\ StateIsOn(ui')
  BY <1>6 DEF StateIsOn
<1>8. ok' \subseteq Devices /\ tries' \in 0..RetryMax /\ tries' < RetryMax
  BY <1>6, HubAssumption
<1>9. RetryWhileMissing' /\ LatchIsTrue' /\ OffIsDark'
  BY <1>5, <1>6, <1>7, <1>8 DEF RetryWhileMissing, LatchIsTrue, OffIsDark
<1>10. "ssd" \notin ok' => Unlit(disp')
  BY <1>5, <1>6
<1>11. QED
  BY <1>5, <1>7, <1>8, <1>9, <1>10 DEF IInv, StateIsOn, Unlit, HasFields

\* SmartHelmet_PowerOff.
LEMMA PowerDownKeeps ==
    ASSUME IInv, NEW s, ui' = s, cable' = cable, NEW pct, NEW br, NEW f,
           PowerDown(s, pct, br, f)
    PROVE  IInv'
<1> DEFINE c == [disp EXCEPT !.latched = {}]
           b == DisplayBlank(c, ok, f)
<1>1. HasFields(c) /\ c.lit = disp.lit /\ c.slipped = disp.slipped
  BY DEF IInv, HasFields, Fields
<1> HIDE DEF c
<1>2. Unlit(disp) => Unlit(c)
  BY <1>1 DEF Unlit
<1>3. HasFields(b) /\ b.latched = {} /\ b.blanked = TRUE /\ Unlit(b)
  BY <1>1, <1>2, BlankFacts DEF IInv
<1>4. disp' = ShowAdcMv(b, ok, s, pct, br, f)
  BY DEF PowerDown, Slept, b, c
<1> HIDE DEF b
<1>5. HasFields(disp') /\ disp'.latched = {} /\ Unlit(disp')
  BY <1>3, <1>4, ShowFacts DEF KeepsLatch
<1>6. /\ powered' = FALSE /\ ~StateIsOn(s) /\ ok' = ok \cap {"ssd"} /\ tries' = tries
      /\ retry' = FALSE
  BY DEF PowerDown
<1>7. ok' \subseteq Devices /\ tries' \in 0..RetryMax
  BY <1>6 DEF IInv
<1>8. powered' \in BOOLEAN /\ (powered' <=> StateIsOn(ui'))
  BY <1>6 DEF StateIsOn
<1>9. RetryWhileMissing' /\ LatchIsTrue' /\ OffIsDark'
  BY <1>5, <1>6 DEF RetryWhileMissing, LatchIsTrue, OffIsDark, Unlit
<1>10. QED
  BY <1>5, <1>7, <1>8, <1>9 DEF IInv, StateIsOn, Unlit, HasFields

\* What the latch, the retries and the power say when only the display changes.
LEMMA DisplayKeeps ==
    ASSUME IInv, UNCHANGED <<powered, ok, tries, retry>>, (powered <=> StateIsOn(ui')),
           HasFields(disp'), KeepsLatch(disp, disp'),
           "ssd" \notin ok => Unlit(disp'),
           powered \/ (ui' = "limbo" /\ cable') \/ Unlit(disp')
    PROVE  IInv'
<1>1. RetryWhileMissing'
  BY DEF IInv, RetryWhileMissing
<1>2. LatchIsTrue'
  BY DEF IInv, LatchIsTrue, KeepsLatch
<1>3. OffIsDark'
  BY DEF OffIsDark, Unlit
<1>4. ok' \subseteq Devices /\ tries' \in 0..RetryMax /\ powered' \in BOOLEAN /\ (powered' <=> StateIsOn(ui'))
  BY DEF IInv
<1>5. "ssd" \notin ok' => Unlit(disp')
  OBVIOUS
<1>6. QED
  BY <1>1, <1>2, <1>3, <1>4, <1>5 DEF IInv, StateIsOn, Unlit, HasFields

\* A refresh without a change of power, and the entry to LIMBO.
LEMMA KeepPowerKeeps ==
    ASSUME IInv, NEW s \in Follows(ui), ui \in States, ui' = s, cable' = cable,
           cable \in BOOLEAN, NEW pct, NEW br, NEW f, KeepPower(s, pct, br, f)
    PROVE  IInv'
<1> DEFINE e == ShowAdcMv(disp, ok, s, pct, br, f)
           l == LimboDisplay(e, ok, cable, pct, br, f)
<1>1. HasFields(e) /\ KeepsLatch(disp, e) /\ ("ssd" \notin ok => Unlit(e))
  BY ShowFacts DEF IInv
<1>2. disp' = IF s = "limbo" THEN l ELSE e
  BY DEF KeepPower
<1> HIDE DEF e
<1>3. /\ HasFields(l) /\ KeepsLatch(e, l) /\ ("ssd" \notin ok => Unlit(l))
      /\ (~cable => Unlit(l))
  BY <1>1, LimboFacts
<1> HIDE DEF l
<1>4. powered \/ s = "limbo"
  BY DEF IInv, KeepPower, Follows, StateIsOn, States
<1>5. KeepsLatch(disp, disp') /\ HasFields(disp') /\ ("ssd" \notin ok => Unlit(disp'))
  BY <1>1, <1>2, <1>3 DEF KeepsLatch
<1>6. powered \/ (ui' = "limbo" /\ cable') \/ Unlit(disp')
  BY <1>2, <1>3, <1>4
<1>7. UNCHANGED <<powered, ok, tries, retry>> /\ (powered <=> StateIsOn(ui'))
  BY DEF KeepPower, StateIsOn
<1>8. QED
  BY <1>5, <1>6, <1>7, DisplayKeeps

\* A verify pass: it ends the retries, and latches what is still missing.
LEMMA RetryKeeps ==
    ASSUME IInv, ProbeRetry
    PROVE  IInv'
<1>0. PICK found \in SUBSET (Devices \ ok) :
         \E half, pct, br, f : VerifyPass(found, half, pct, br, f)
  BY DEF ProbeRetry
<1>1. PICK half, pct, br, f : VerifyPass(found, half, pct, br, f)
  BY <1>0
<1> DEFINE now == ok \cup found
           p == ProbeSsd(disp, found, half)
           d == IF "ssd" \in ok THEN disp ELSE p
           m == [d EXCEPT !.latched = Sensors \ now]
           e == ShowAdcMv(m, now, ui, pct, br, f)
           last == now # Devices /\ tries + 1 >= RetryMax
<1>2. retry /\ powered /\ ok # Devices /\ tries < RetryMax /\ tries \in Nat /\ RetryMax \in Nat
  BY HubAssumption DEF IInv, RetryWhileMissing, ProbeRetry
<1>3. disp.latched = {}
  BY <1>2 DEF IInv, LatchIsTrue
<1>4. HasFields(p) /\ p.latched = {} /\ ("ssd" \notin found => Unlit(p))
  BY <1>3, ProbeFacts DEF IInv
<1>5. /\ tries' = tries + 1 /\ ok' = now /\ retry' = (now # Devices /\ tries + 1 < RetryMax)
      /\ disp' = IF last THEN e ELSE d
      /\ UNCHANGED <<ui, powered, cable>>
  BY <1>1 DEF VerifyPass, ProbeRetry
<1> HIDE DEF p
<1>6. HasFields(d) /\ d.latched = {} /\ ("ssd" \notin now => Unlit(d))
  BY <1>3, <1>4 DEF IInv
<1> HIDE DEF d
<1>7. HasFields(m) /\ m.latched = Sensors \ now /\ m.lit = d.lit /\ m.slipped = d.slipped
  BY <1>6 DEF HasFields, Fields
<1> HIDE DEF m
<1>8. "ssd" \notin now => Unlit(m)
  BY <1>6, <1>7 DEF Unlit
<1>9. HasFields(e) /\ KeepsLatch(m, e) /\ ("ssd" \notin now => Unlit(e))
  BY <1>7, <1>8, ShowFacts
<1> HIDE DEF e
<1>10. HasFields(disp') /\ ("ssd" \notin ok' => Unlit(disp'))
  BY <1>5, <1>6, <1>9
<1>11. LatchIsTrue'
  <2>1. CASE last
    BY <1>2, <1>5, <1>7, <1>9, <2>1 DEF LatchIsTrue, KeepsLatch
  <2>2. CASE ~last
    BY <1>5, <1>6, <2>2 DEF LatchIsTrue
  <2>3. QED
    BY <2>1, <2>2
<1>12. RetryWhileMissing' /\ OffIsDark'
  BY <1>2, <1>5 DEF RetryWhileMissing, OffIsDark
<1>13. powered' \in BOOLEAN /\ (powered' <=> StateIsOn(ui'))
  BY <1>5 DEF IInv, StateIsOn
<1>14. ok' \subseteq Devices /\ tries' \in 0..RetryMax
  BY <1>2, <1>5 DEF IInv
<1>15. QED
  BY <1>10, <1>11, <1>12, <1>13, <1>14 DEF IInv, StateIsOn, Unlit, HasFields

\* The state and the cable keep their type.
SmallType == ui \in States /\ cable \in BOOLEAN

\* A change of the headset state.
LEMMA SetStateKeeps ==
    ASSUME IInv, SmallType, NEW s \in States, SetState(s)
    PROVE  IInv' /\ SmallType'
<1>1. s \in Follows(ui) /\ ui' = s /\ cable' = cable
  BY DEF SetState
<1>2. PICK pct, br, f :
        \/ \E found \in SUBSET Devices, half \in {FALSE, DisplayFaults} :
               PowerUp(s, found, half, pct, br, f)
        \/ PowerDown(s, pct, br, f)
        \/ KeepPower(s, pct, br, f)
  BY DEF SetState
<1>3. QED
  BY <1>1, <1>2, PowerUpKeeps, PowerDownKeeps, KeepPowerKeeps DEF SmallType

\* A refresh while powered.
LEMMA RefreshKeeps ==
    ASSUME IInv, Refresh
    PROVE  IInv'
<1>1. PICK pct, br, f : disp' = ShowAdcMv(disp, ok, ui, pct, br, f)
  BY DEF Refresh
<1>2. HasFields(disp') /\ KeepsLatch(disp, disp') /\ ("ssd" \notin ok => Unlit(disp'))
  BY <1>1, ShowFacts DEF IInv
<1>3. UNCHANGED <<powered, ok, tries, retry>> /\ powered /\ (powered <=> StateIsOn(ui'))
  BY DEF Refresh, IInv, StateIsOn
<1>4. QED
  BY <1>2, <1>3, DisplayKeeps

\* A charger or battery message.
LEMMA ChargerKeeps ==
    ASSUME IInv, NEW plugged \in BOOLEAN, ChargerMessage(plugged)
    PROVE  IInv'
<1>1. PICK pct, br, f : disp' = IF ui = "limbo"
                               THEN LimboDisplay(disp, ok, plugged, pct, br, f) ELSE disp
  BY DEF ChargerMessage
<1>2. /\ UNCHANGED <<powered, ok, tries, retry>> /\ ui' = ui /\ cable' = plugged
      /\ (powered <=> StateIsOn(ui'))
  BY DEF ChargerMessage, IInv, StateIsOn
<1>3. CASE ui = "limbo"
  BY <1>1, <1>2, <1>3, LimboFacts, DisplayKeeps DEF IInv
<1>4. CASE ui # "limbo"
  <2>1. disp' = disp /\ (powered \/ Unlit(disp))
    BY <1>1, <1>4 DEF IInv, OffIsDark, Unlit
  <2>2. KeepsLatch(disp, disp') /\ HasFields(disp')
    BY <2>1 DEF KeepsLatch, IInv
  <2>3. ("ssd" \notin ok => Unlit(disp')) /\ (powered \/ Unlit(disp'))
    BY <2>1 DEF IInv
  <2>4. QED
    BY <1>2, <2>2, <2>3, DisplayKeeps
<1>5. QED
  BY <1>3, <1>4

\* Every step keeps the invariant.
LEMMA NextKeeps ==
    ASSUME IInv, SmallType, [Next]_vars
    PROVE  IInv' /\ SmallType'
<1>1. CASE \E s \in States : SetState(s)
  BY <1>1, SetStateKeeps
<1>2. CASE ProbeRetry
  BY <1>2, RetryKeeps DEF ProbeRetry, SmallType
<1>3. CASE Refresh
  BY <1>3, RefreshKeeps DEF Refresh, SmallType
<1>4. CASE \E plugged \in BOOLEAN : ChargerMessage(plugged)
  BY <1>4, ChargerKeeps DEF ChargerMessage, SmallType
<1>5. CASE UNCHANGED vars
  BY <1>5 DEF vars, IInv, SmallType, StateIsOn, Unlit, HasFields, RetryWhileMissing,
              LatchIsTrue, OffIsDark
<1>6. QED
  BY <1>1, <1>2, <1>3, <1>4, <1>5 DEF Next

\* The invariant holds throughout.
LEMMA Invariant == Spec => [](IInv /\ SmallType)
<1>1. Init => IInv /\ SmallType
  BY InitIInv DEF Init, SmallType, States
<1>2. (IInv /\ SmallType) /\ [Next]_vars => (IInv /\ SmallType)'
  BY NextKeeps
<1>3. QED
  BY <1>1, <1>2, PTL DEF Spec

-----------------------------------------------------------------------------
\* A retry is armed exactly while the helmet is on, a device is missing and a
\* pass is left (shSensorsVerifyPass, SmartHelmet_SensorsStopVerify).
THEOREM RetriesUntilFound == Spec => []RetryWhileMissing
<1>1. IInv => RetryWhileMissing
  BY DEF IInv
<1>2. QED
  BY Invariant, <1>1, PTL

\* INIT FAIL names the sensors that are missing now, and only after the last pass
\* (shLatchInitFail, shClearInitFail).
THEOREM LatchNamesMissing == Spec => []LatchIsTrue
<1>1. IInv => LatchIsTrue
  BY DEF IInv
<1>2. QED
  BY Invariant, <1>1, PTL

\* Off, the panel is dark unless a command to it was lost
\* (SmartHelmet_SensorsDisplayBlank, headsetSmApplyLimboChargeLed).
THEOREM OffStaysDark == Spec => []OffIsDark
<1>1. IInv => OffIsDark
  BY DEF IInv
<1>2. QED
  BY Invariant, <1>1, PTL

-----------------------------------------------------------------------------
(* What the panel shows. *)

\* The display is well formed.
DispType(d) ==
    /\ HasFields(d)
    /\ d.blanked \in BOOLEAN /\ d.lit \in BOOLEAN /\ d.slipped \in BOOLEAN
    /\ d.latched \subseteq Sensors
    /\ d.cache = <<>> \/ d.cache \in [Pages -> Texts]
    /\ d.glass \in [Pages -> Texts]
    /\ d.want = <<>> \/ d.want \in [Pages -> Texts]

InitFail == <<"initfail", "">>

\* A line of the cache that says INIT FAIL, or names the missing sensors, says
\* what is latched, and the panel shows it.
CacheTrue(d) ==
    d.cache # <<>> =>
        /\ d.cache[3] = InitFail => d.latched # {} /\ d.glass[3] = InitFail
        /\ d.cache[4][1] = "missing" => /\ d.latched # {}
                                        /\ d.cache[4] = <<"missing", d.latched>>
                                        /\ d.glass[4] = d.cache[4]

\* A refresh that got through shows what is latched.
Shown(d) ==
    d.want # <<>> /\ d.latched # {} =>
        d.glass[3] = InitFail /\ d.glass[4] = <<"missing", d.latched>>

\* The fields that the texts on the panel depend on.
SameTexts(d, e) ==
    /\ e.latched = d.latched /\ e.cache = d.cache
    /\ e.glass = d.glass /\ e.want = d.want

\* The display is true to its texts if one with the same texts is.
LEMMA SameTextsTrue ==
    ASSUME NEW d, NEW e, SameTexts(d, e)
    PROVE  (CacheTrue(d) => CacheTrue(e)) /\ (Shown(d) => Shown(e))
  BY DEF SameTexts, CacheTrue, Shown

\* The lines of a state.
LEMMA LinesType ==
    ASSUME NEW s \in States, NEW latched \in SUBSET Sensors, NEW pct \in Levels,
           NEW br \in LinkTexts
    PROVE  LET l == Lines(s, latched, pct, br)
           IN  /\ l \in [Pages -> Texts] /\ l # <<>>
               /\ l[3] = InitFail => latched # {} /\ s # "limbo"
               /\ l[4][1] = "missing" => latched # {} /\ s # "limbo"
               /\ latched # {} /\ s # "limbo" =>
                     l[3] = InitFail /\ l[4] = <<"missing", latched>>
<1> DEFINE l == Lines(s, latched, pct, br)
           l1 == <<"state", s>>
           l2 == <<"bat", pct>>
           l3 == IF s = "limbo" THEN Empty
                 ELSE IF latched # {} THEN <<"initfail", "">> ELSE <<"br", br>>
           l4 == IF s = "limbo" THEN Empty
                 ELSE IF latched # {} THEN <<"missing", latched>> ELSE <<"audio", "">>
<1>1. l1 \in Texts /\ l2 \in Texts
  BY DEF Texts
<1>2. l3 \in Texts
  BY DEF Texts
<1>3. l4 \in Texts
  BY DEF Texts
<1>4. l = <<l1, l2, l3, l4>>
  BY DEF Lines
<1>5. /\ l3 = InitFail => latched # {} /\ s # "limbo"
      /\ latched # {} /\ s # "limbo" => l3 = InitFail
  BY DEF InitFail, Empty
<1>6. /\ l4[1] = "missing" => latched # {} /\ s # "limbo"
      /\ latched # {} /\ s # "limbo" => l4 = <<"missing", latched>>
  BY DEF Empty
<1> HIDE DEF l, l1, l2, l3, l4
<1>7. l \in [Pages -> Texts] /\ l[3] = l3 /\ l[4] = l4 /\ l # <<>>
  BY <1>1, <1>2, <1>3, <1>4 DEF Pages
<1>8. QED
  BY <1>5, <1>6, <1>7 DEF l

\* Blanking empties the cache, and nothing is asked for.
LEMMA BlankShows ==
    ASSUME NEW d, DispType(d), NEW found, NEW f
    PROVE  LET e == DisplayBlank(d, found, f)
           IN  DispType(e) /\ e.cache = <<>> /\ e.want = <<>> /\ e.latched = {}
<1> DEFINE b == [d EXCEPT !.blanked = TRUE, !.cache = <<>>, !.latched = {}, !.want = <<>>]
           e == DisplayBlank(d, found, f)
<1>1. /\ HasFields(b) /\ b.latched = {} /\ b.blanked = TRUE /\ b.cache = <<>>
      /\ b.want = <<>> /\ b.glass = d.glass /\ b.lit = d.lit /\ b.slipped = d.slipped
  BY DEF DispType, HasFields, Fields
<1>2. e = IF "ssd" \notin found THEN b
          ELSE IF f = Dead THEN [b EXCEPT !.slipped = TRUE]
          ELSE [b EXCEPT !.glass = Dark, !.lit = FALSE, !.slipped = FALSE]
  BY DEF DisplayBlank
<1>3. Dark \in [Pages -> Texts]
  BY DEF Dark, Texts
<1> HIDE DEF b, e
<1>4. /\ HasFields(e) /\ e.latched = {} /\ e.blanked = TRUE /\ e.cache = <<>>
      /\ e.want = <<>> /\ e.glass \in {d.glass, Dark} /\ e.lit \in {d.lit, FALSE}
      /\ e.slipped \in {d.slipped, TRUE, FALSE}
  BY <1>1, <1>2 DEF HasFields, Fields
<1>5. QED
  BY <1>3, <1>4 DEF DispType, e

\* Switching the panel on leaves its texts.
LEMMA OnShows ==
    ASSUME NEW d, DispType(d), NEW found, NEW f
    PROVE  LET e == DisplayOn(d, found, f) IN DispType(e) /\ SameTexts(d, e)
<1> DEFINE e == DisplayOn(d, found, f)
<1>1. /\ HasFields(e) /\ SameTexts(d, e) /\ e.blanked \in {d.blanked, FALSE}
      /\ e.lit \in {d.lit, TRUE} /\ e.slipped \in {d.slipped, TRUE, FALSE}
  BY DEF DisplayOn, SameTexts, DispType, HasFields, Fields
<1>2. QED
  BY <1>1 DEF DispType, SameTexts

\* A redraw of a state's lines keeps the cache true to the panel, wherever it is
\* cut off, and shows what is latched if it is not.
LEMMA DrawShows ==
    ASSUME NEW d, DispType(d), CacheTrue(d), NEW f \in 0..Dead,
           NEW s \in States, NEW pct \in Levels, NEW br \in LinkTexts,
           d.latched = {} \/ s # "limbo"
    PROVE  LET e == Draw(d, Lines(s, d.latched, pct, br), f)
           IN  DispType(e) /\ CacheTrue(e) /\ Shown(e)
<1> DEFINE l == Lines(s, d.latched, pct, br)
           e == Draw(d, l, f)
           fails == f # 0 /\ f # Dead /\ (d.cache = <<>> \/ d.cache[f] # l[f])
           c == [i \in Pages |-> IF i < f THEN l[i] ELSE d.cache[i]]
           all == Drawn(d, l, Dead)
           g == [Drawn(d, l, f) EXCEPT ![f] = Garbage]
<1>1. /\ l \in [Pages -> Texts] /\ l # <<>>
      /\ l[3] = InitFail => d.latched # {}
      /\ l[4][1] = "missing" => d.latched # {}
      /\ d.latched # {} => l[3] = InitFail /\ l[4] = <<"missing", d.latched>>
  <2>1. d.latched \in SUBSET Sensors
    BY DEF DispType
  <2>2. /\ l \in [Pages -> Texts] /\ l # <<>>
        /\ l[3] = InitFail => d.latched # {} /\ s # "limbo"
        /\ l[4][1] = "missing" => d.latched # {} /\ s # "limbo"
        /\ d.latched # {} /\ s # "limbo" =>
              l[3] = InitFail /\ l[4] = <<"missing", d.latched>>
    BY <2>1, LinesType
  <2> HIDE DEF l
  <2>3. QED
    BY <2>2, SMTT(30)
<1>2. /\ HasFields(d) /\ d.latched \subseteq Sensors /\ d.glass \in [Pages -> Texts]
      /\ d.cache = <<>> \/ d.cache \in [Pages -> Texts]
  BY DEF DispType
<1> HIDE DEF l
<1>3. all \in [Pages -> Texts] /\ all = [i \in Pages |->
                IF d.cache = <<>> \/ d.cache[i] # l[i] THEN l[i] ELSE d.glass[i]]
  BY <1>1, <1>2 DEF Drawn, Pages, Dead
<1>4. CASE f = Dead
  <2>1. e = [d EXCEPT !.want = <<>>]
    BY <1>4 DEF Draw
  <2>2. /\ HasFields(e) /\ e.want = <<>> /\ e.latched = d.latched /\ e.cache = d.cache
        /\ e.glass = d.glass /\ e.blanked = d.blanked /\ e.lit = d.lit
        /\ e.slipped = d.slipped
    BY <2>1 DEF DispType, HasFields, Fields
  <2> HIDE DEF e
  <2>3. QED
    BY <2>2 DEF DispType, CacheTrue, Shown, e, l
<1>5. CASE f # Dead /\ ~fails
  <2>1. e = [d EXCEPT !.glass = all, !.cache = l, !.want = l]
    BY <1>5 DEF Draw
  <2> HIDE DEF all
  <2>2. /\ HasFields(e) /\ e.want = l /\ e.latched = d.latched /\ e.cache = l
        /\ e.glass = all /\ e.blanked = d.blanked /\ e.lit = d.lit
        /\ e.slipped = d.slipped
    BY <2>1 DEF DispType, HasFields, Fields
  <2>3. DispType(e)
    BY <1>1, <1>3, <2>2 DEF DispType
  <2>4. ASSUME d.latched # {}
        PROVE  all[3] = InitFail /\ all[4] = <<"missing", d.latched>>
    <3>1. l[3] = InitFail /\ l[4] = <<"missing", d.latched>> /\ l[4][1] = "missing"
      BY <1>1, <2>4
    <3>2. all[3] = InitFail
      BY <1>3, <3>1 DEF CacheTrue, Pages
    <3>3. all[4] = <<"missing", d.latched>>
      BY <1>3, <3>1 DEF CacheTrue, Pages
    <3>4. QED
      BY <3>2, <3>3
  <2> HIDE DEF e
  <2>5. CacheTrue(e) /\ Shown(e)
    BY <1>1, <2>2, <2>4 DEF CacheTrue, Shown
  <2>6. QED
    BY <2>3, <2>5 DEF e, l
<1>6. CASE f # Dead /\ fails
  <2>1. /\ e = [d EXCEPT !.glass = g, !.cache = IF d.cache = <<>> THEN <<>> ELSE c,
                         !.want = <<>>]
        /\ f \in Pages
    BY <1>6 DEF Draw, Pages, Dead
  <2>2. /\ g \in [Pages -> Texts]
        /\ \A i \in Pages : i # f => g[i] =
              IF i < f /\ (d.cache = <<>> \/ d.cache[i] # l[i]) THEN l[i] ELSE d.glass[i]
    BY <1>1, <1>2, <2>1, ZenonT(40) DEF Drawn, Texts
  <2>3. d.cache # <<>> => c \in [Pages -> Texts]
    BY <1>1, <1>2
  <2> HIDE DEF g
  <2>4. /\ HasFields(e) /\ e.want = <<>> /\ e.latched = d.latched
        /\ e.cache = (IF d.cache = <<>> THEN <<>> ELSE c)
        /\ e.glass = g /\ e.blanked = d.blanked /\ e.lit = d.lit
        /\ e.slipped = d.slipped
    BY <2>1 DEF DispType, HasFields, Fields
  <2>5. DispType(e) /\ Shown(e)
    BY <2>2, <2>3, <2>4, SMTT(30) DEF DispType, Shown
  <2>6. CASE d.cache = <<>>
    BY <2>4, <2>5, <2>6 DEF CacheTrue, e, l
  <2>7. CASE d.cache # <<>>
    <3>1. d.cache[f] # l[f] /\ e.cache = c
      BY <1>6, <2>4, <2>7
    <3>2. ASSUME c[3] = InitFail
          PROVE  d.latched # {} /\ g[3] = InitFail
      <4>1. 3 \in Pages /\ c[3] = IF 3 < f THEN l[3] ELSE d.cache[3]
        BY DEF Pages
      <4>2. d.latched # {}
        BY <1>1, <2>7, <3>2, <4>1 DEF CacheTrue
      <4>3. l[3] = InitFail /\ (d.cache[3] = InitFail => d.glass[3] = InitFail)
        BY <1>1, <2>7, <4>2 DEF CacheTrue
      <4>4. f # 3
        BY <3>1, <3>2, <4>1, <4>3
      <4>5. QED
        BY <2>2, <2>7, <3>2, <4>1, <4>2, <4>3, <4>4
    <3>3. ASSUME c[4][1] = "missing"
          PROVE  /\ d.latched # {} /\ c[4] = <<"missing", d.latched>>
                 /\ g[4] = c[4]
      <4>1. 4 \in Pages /\ c[4] = IF 4 < f THEN l[4] ELSE d.cache[4]
        BY DEF Pages
      <4>2. d.latched # {}
        BY <1>1, <2>7, <3>3, <4>1 DEF CacheTrue
      <4>3. ~(4 < f)
        BY <2>1 DEF Pages
      <4>4. c[4] = d.cache[4] /\ d.cache[4] = <<"missing", d.latched>>
            /\ d.glass[4] = d.cache[4] /\ l[4] = d.cache[4]
        BY <1>1, <2>7, <3>3, <4>1, <4>2, <4>3 DEF CacheTrue
      <4>5. f # 4
        BY <3>1, <4>4
      <4>6. g[4] = d.glass[4]
        BY <2>2, <4>1, <4>3, <4>5
      <4>7. QED
        BY <4>2, <4>4, <4>6
    <3> HIDE DEF c, e
    <3>4. CacheTrue(e)
      BY <2>4, <3>1, <3>2, <3>3 DEF CacheTrue
    <3>5. QED
      BY <2>5, <3>4 DEF e, l
  <2>8. QED
    BY <2>6, <2>7
<1>7. QED
  BY <1>4, <1>5, <1>6

\* A refresh keeps the cache true and shows what is latched.
LEMMA RefreshShows ==
    ASSUME NEW d, DispType(d), CacheTrue(d), NEW found, NEW f \in 0..Dead,
           NEW s \in States, NEW pct \in Levels, NEW br \in LinkTexts,
           d.latched = {} \/ s # "limbo"
    PROVE  LET e == ShowAdcMv(d, found, s, pct, br, f)
           IN  DispType(e) /\ CacheTrue(e) /\ Shown(e)
<1> DEFINE e == ShowAdcMv(d, found, s, pct, br, f)
           lines == Lines(s, d.latched, pct, br)
           blank == DisplayBlank(d, found, f)
           on == DisplayOn(d, found, f)
           w == IF StateIsOn(s) /\ f # Dead THEN lines ELSE <<>>
<1>1. DispType(blank) /\ blank.cache = <<>> /\ blank.latched = {}
  BY BlankShows
<1>2. DispType(on) /\ SameTexts(d, on)
  BY OnShows
<1>3. lines \in [Pages -> Texts]
  BY LinesType DEF DispType
<1>4. CASE "ssd" \notin found
  <2>1. e = [d EXCEPT !.want = <<>>]
    BY <1>4 DEF ShowAdcMv
  <2>2. /\ HasFields(e) /\ e.want = <<>> /\ e.latched = d.latched /\ e.cache = d.cache
        /\ e.glass = d.glass /\ e.blanked = d.blanked /\ e.lit = d.lit
        /\ e.slipped = d.slipped
    BY <2>1, SMTT(30) DEF DispType, HasFields, Fields
  <2> HIDE DEF e
  <2>3. QED
    BY <2>2, SMTT(30) DEF DispType, CacheTrue, Shown, e
<1>5. CASE "ssd" \in found /\ (d.blanked \/ ~(StateIsOn(s) \/ s = "limbo"))
  <2>1. e = [blank EXCEPT !.want = w]
    BY <1>5 DEF ShowAdcMv
  <2>2. w = <<>> \/ w \in [Pages -> Texts]
    BY <1>3
  <2> HIDE DEF blank, w
  <2>3. /\ HasFields(e) /\ e.want = w /\ e.latched = {} /\ e.cache = <<>>
        /\ e.glass = blank.glass /\ e.blanked = blank.blanked /\ e.lit = blank.lit
        /\ e.slipped = blank.slipped
    BY <1>1, <2>1 DEF DispType, HasFields, Fields
  <2> HIDE DEF e
  <2>4. QED
    BY <1>1, <2>2, <2>3 DEF DispType, CacheTrue, Shown, e
<1>6. CASE "ssd" \in found /\ ~(d.blanked \/ ~(StateIsOn(s) \/ s = "limbo"))
  <2>1. e = Draw(on, lines, f)
    BY <1>6 DEF ShowAdcMv
  <2>2. lines = Lines(s, on.latched, pct, br) /\ (on.latched = {} \/ s # "limbo")
    BY <1>2 DEF SameTexts
  <2>3. CacheTrue(on)
    BY <1>2, SameTextsTrue
  <2> HIDE DEF on, lines
  <2>4. QED
    BY <1>2, <2>1, <2>2, <2>3, DrawShows
<1>7. QED
  BY <1>4, <1>5, <1>6

\* Nothing in the cache or on the latch speaks of missing sensors.
Unlatched(d) ==
    /\ d.latched = {}
    /\ d.cache # <<>> => d.cache[3] # InitFail /\ d.cache[4][1] # "missing"

\* Without a latch, that is what a true cache is.
LEMMA UnlatchedTrue ==
    ASSUME NEW d, d.latched = {}
    PROVE  (CacheTrue(d) <=> Unlatched(d)) /\ Shown(d)
  BY DEF CacheTrue, Unlatched, Shown

\* A probe of the panel leaves the cache and the latch.
LEMMA ProbeShows ==
    ASSUME NEW d, DispType(d), NEW found, NEW half
    PROVE  LET e == ProbeSsd(d, found, half)
           IN  DispType(e) /\ e.cache = d.cache /\ e.latched = d.latched
<1> DEFINE e == ProbeSsd(d, found, half)
           g1 == <<Empty, Splash, Splash, Splash>>
           g2 == [i \in Pages |-> Garbage]
<1>1. Empty \in Texts /\ Splash \in Texts /\ Garbage \in Texts
  BY DEF Texts
<1>2. g1 \in [Pages -> Texts] /\ g2 \in [Pages -> Texts]
  BY <1>1 DEF Pages
<1>3. e = IF "ssd" \in found
          THEN [d EXCEPT !.glass = g1, !.lit = TRUE, !.slipped = FALSE, !.want = <<>>]
          ELSE IF half
          THEN [d EXCEPT !.glass = g2, !.lit = TRUE, !.slipped = TRUE, !.want = <<>>]
          ELSE [d EXCEPT !.slipped = TRUE]
  BY DEF ProbeSsd
<1> HIDE DEF e, g1, g2
<1>4. /\ HasFields(e) /\ e.cache = d.cache /\ e.latched = d.latched
      /\ e.blanked = d.blanked /\ e.glass \in {g1, g2, d.glass} /\ e.lit \in {d.lit, TRUE}
      /\ e.slipped \in {TRUE, FALSE} /\ e.want \in {d.want, <<>>}
  BY <1>3 DEF DispType, HasFields, Fields
<1>5. QED
  BY <1>2, <1>4 DEF DispType, e

\* Clearing the latch of a display without one changes nothing.
LEMMA ClearShows ==
    ASSUME NEW d, DispType(d), Unlatched(d)
    PROVE  LET e == [d EXCEPT !.latched = {}] IN DispType(e) /\ Unlatched(e)
<1> DEFINE e == [d EXCEPT !.latched = {}]
<1>1. /\ HasFields(e) /\ e.want = d.want /\ e.latched = {} /\ e.cache = d.cache
      /\ e.glass = d.glass /\ e.blanked = d.blanked /\ e.lit = d.lit
      /\ e.slipped = d.slipped
  BY DEF DispType, HasFields, Fields
<1> HIDE DEF e
<1>2. QED
  BY <1>1 DEF DispType, Unlatched, e

\* The display in LIMBO, where nothing is latched.
LEMMA LimboShows ==
    ASSUME NEW d, DispType(d), Unlatched(d), NEW found, NEW plugged \in BOOLEAN,
           NEW f \in 0..Dead, NEW pct \in Levels, NEW br \in LinkTexts
    PROVE  LET e == LimboDisplay(d, found, plugged, pct, br, f)
           IN  DispType(e) /\ CacheTrue(e) /\ Shown(e)
<1> DEFINE e == LimboDisplay(d, found, plugged, pct, br, f)
           on == DisplayOn(d, found, f)
<1>1. DispType(on) /\ SameTexts(d, on)
  BY OnShows
<1>2. CASE plugged
  <2>1. e = ShowAdcMv(on, found, "limbo", pct, br, f)
    BY <1>2 DEF LimboDisplay
  <2> HIDE DEF on
  <2>2. on.latched = {} /\ CacheTrue(on) /\ "limbo" \in States
    BY <1>1, UnlatchedTrue, SameTextsTrue, SMTT(30) DEF Unlatched, SameTexts, States
  <2>3. QED
    BY <1>1, <2>1, <2>2, RefreshShows
<1>3. CASE ~plugged
  BY <1>3, BlankShows, SMTT(30) DEF LimboDisplay, CacheTrue, Shown
<1>4. QED
  BY <1>2, <1>3

ShowInv == DispType(disp) /\ CacheTrue(disp) /\ Shown(disp) /\ retry \in BOOLEAN

\* Nothing is latched before the last pass, or while the helmet is off.
LEMMA NotLatched ==
    ASSUME IInv, ShowInv, ~powered \/ tries # RetryMax
    PROVE  Unlatched(disp)
<1>1. disp.latched = {}
  BY SMTT(30) DEF IInv, LatchIsTrue
<1>2. QED
  BY <1>1, UnlatchedTrue DEF ShowInv

\* SmartHelmet_PowerOn.
LEMMA PowerUpShows ==
    ASSUME IInv, ShowInv, NEW s \in States, NEW found, NEW half, NEW pct \in Levels,
           NEW br \in LinkTexts, NEW f \in 0..Dead, PowerUp(s, found, half, pct, br, f)
    PROVE  ShowInv'
<1> DEFINE c == [disp EXCEPT !.latched = {}]
           p == ProbeSsd(c, found, half)
           w == DisplayOn(p, found, f)
<1>1. DispType(c) /\ Unlatched(c)
  <2>1. Unlatched(disp) /\ DispType(disp)
    BY NotLatched, SMTT(30) DEF PowerUp, ShowInv
  <2>2. QED
    BY <2>1, ClearShows
<1> HIDE DEF c
<1>2. DispType(p) /\ Unlatched(p)
  BY <1>1, ProbeShows DEF Unlatched
<1> HIDE DEF p
<1>3. DispType(w) /\ Unlatched(w)
  BY <1>2, OnShows DEF Unlatched, SameTexts
<1>4. disp' = ShowAdcMv(w, found, s, pct, br, f) /\ retry' \in BOOLEAN
  BY DEF PowerUp, Woken, w, p, c
<1> HIDE DEF w
<1>5. w.latched = {} /\ CacheTrue(w)
  BY <1>3, UnlatchedTrue DEF Unlatched
<1>6. DispType(disp') /\ CacheTrue(disp') /\ Shown(disp')
  BY <1>3, <1>4, <1>5, RefreshShows
<1>7. QED
  BY <1>4, <1>6 DEF ShowInv, DispType, CacheTrue, Shown, HasFields

\* SmartHelmet_PowerOff.
LEMMA PowerDownShows ==
    ASSUME ShowInv, NEW s \in States, NEW pct \in Levels,
           NEW br \in LinkTexts, NEW f \in 0..Dead, PowerDown(s, pct, br, f)
    PROVE  ShowInv'
<1> DEFINE c == [disp EXCEPT !.latched = {}]
           b == DisplayBlank(c, ok, f)
<1>1. DispType(c)
  <2>1. /\ HasFields(c) /\ c.want = disp.want /\ c.latched = {} /\ c.cache = disp.cache
        /\ c.glass = disp.glass /\ c.blanked = disp.blanked /\ c.lit = disp.lit
        /\ c.slipped = disp.slipped
    BY DEF ShowInv, DispType, HasFields, Fields
  <2> HIDE DEF c
  <2>2. QED
    BY <2>1 DEF ShowInv, DispType
<1> HIDE DEF c
<1>2. DispType(b) /\ b.latched = {} /\ b.cache = <<>>
  BY <1>1, BlankShows
<1>3. disp' = ShowAdcMv(b, ok, s, pct, br, f) /\ retry' \in BOOLEAN
  BY DEF PowerDown, Slept, b, c
<1> HIDE DEF b
<1>4. CacheTrue(b)
  BY <1>2 DEF CacheTrue
<1>5. DispType(disp') /\ CacheTrue(disp') /\ Shown(disp')
  BY <1>2, <1>3, <1>4, RefreshShows
<1>6. QED
  BY <1>3, <1>5 DEF ShowInv, DispType, CacheTrue, Shown, HasFields

\* A refresh without a change of power: what LIMBO shows is not latched.
LEMMA KeepPowerShows ==
    ASSUME IInv, ShowInv, SmallType, NEW s \in States, NEW pct \in Levels,
           NEW br \in LinkTexts, NEW f \in 0..Dead, KeepPower(s, pct, br, f)
    PROVE  ShowInv'
<1> DEFINE e == ShowAdcMv(disp, ok, s, pct, br, f)
           l == LimboDisplay(e, ok, cable, pct, br, f)
<1>1. s = "limbo" => Unlatched(disp) /\ disp.latched = {}
  BY NotLatched DEF KeepPower, StateIsOn, Unlatched
<1>2. DispType(e) /\ CacheTrue(e) /\ Shown(e)
  BY <1>1, RefreshShows DEF ShowInv
<1>3. s = "limbo" => e.latched = {}
  <2>1. KeepsLatch(disp, e)
    BY ShowFacts DEF IInv
  <2>2. QED
    BY <1>1, <2>1 DEF KeepsLatch
<1>4. disp' = (IF s = "limbo" THEN l ELSE e) /\ retry' = retry
  BY DEF KeepPower
<1> HIDE DEF e
<1>5. s = "limbo" => DispType(l) /\ CacheTrue(l) /\ Shown(l)
  BY <1>2, <1>3, UnlatchedTrue, LimboShows, SMTT(30) DEF SmallType
<1> HIDE DEF l
<1>6. DispType(disp') /\ CacheTrue(disp') /\ Shown(disp')
  BY <1>2, <1>4, <1>5
<1>7. QED
  BY <1>4, <1>6 DEF ShowInv, DispType, CacheTrue, Shown, HasFields

\* A verify pass: what it latches, it shows.
LEMMA RetryShows ==
    ASSUME IInv, ShowInv, SmallType, ProbeRetry
    PROVE  ShowInv'
<1>0. PICK pct \in Levels, br \in LinkTexts, f \in Faults :
         \E found, half : VerifyPass(found, half, pct, br, f)
  BY DEF ProbeRetry
<1>1. PICK found, half : VerifyPass(found, half, pct, br, f)
  BY <1>0
<1> DEFINE now == ok \cup found
           p == ProbeSsd(disp, found, half)
           d == IF "ssd" \in ok THEN disp ELSE p
           m == [d EXCEPT !.latched = Sensors \ now]
           e == ShowAdcMv(m, now, ui, pct, br, f)
           last == now # Devices /\ tries + 1 >= RetryMax
<1>2. f \in 0..Dead
  BY DEF Faults, Dead
<1>3. powered /\ tries < RetryMax /\ tries \in Nat /\ RetryMax \in Nat
  BY HubAssumption DEF IInv, RetryWhileMissing, ProbeRetry
<1>4. Unlatched(disp) /\ DispType(disp)
  BY <1>3, NotLatched DEF ShowInv
<1>5. DispType(p) /\ Unlatched(p)
  BY <1>4, ProbeShows DEF Unlatched
<1>6. /\ disp' = IF last THEN e ELSE d
      /\ retry' \in BOOLEAN
  BY <1>1 DEF VerifyPass
<1> HIDE DEF p
<1>7. DispType(d) /\ Unlatched(d)
  BY <1>4, <1>5
<1> HIDE DEF d
<1>8. DispType(m) /\ CacheTrue(m)
  <2>1. /\ HasFields(m) /\ m.want = d.want /\ m.latched = Sensors \ now
        /\ m.cache = d.cache /\ m.glass = d.glass /\ m.blanked = d.blanked
        /\ m.lit = d.lit /\ m.slipped = d.slipped
    BY <1>7 DEF DispType, HasFields, Fields
  <2> HIDE DEF m
  <2>2. QED
    BY <1>7, <2>1 DEF DispType, Unlatched, CacheTrue
<1> HIDE DEF m
<1>9. ui \in States /\ ui # "limbo"
  BY <1>3 DEF SmallType, IInv, StateIsOn
<1>10. DispType(e) /\ CacheTrue(e) /\ Shown(e)
  BY <1>2, <1>8, <1>9, RefreshShows
<1> HIDE DEF e
<1>11. DispType(d) /\ CacheTrue(d) /\ Shown(d)
  BY <1>7, UnlatchedTrue DEF Unlatched
<1>12. DispType(disp') /\ CacheTrue(disp') /\ Shown(disp')
  BY <1>6, <1>10, <1>11
<1>13. QED
  BY <1>6, <1>12 DEF ShowInv, DispType, CacheTrue, Shown, HasFields

\* Every step keeps what the panel shows true.
LEMMA NextShows ==
    ASSUME IInv, ShowInv, SmallType, [Next]_vars
    PROVE  ShowInv'
<1>0. Faults \subseteq 0..Dead
  BY DEF Faults, Dead
<1>1. ASSUME NEW s \in States, SetState(s) PROVE ShowInv'
  BY <1>0, <1>1, PowerUpShows, PowerDownShows, KeepPowerShows, ZenonT(40) DEF SetState
<1>2. CASE ProbeRetry
  BY <1>2, RetryShows
<1>3. CASE Refresh
  <2>1. PICK pct \in Levels, br \in LinkTexts, f \in 0..Dead :
           disp' = ShowAdcMv(disp, ok, ui, pct, br, f)
    BY <1>0, <1>3 DEF Refresh
  <2>2. ui \in States /\ ui # "limbo" /\ retry' = retry
    BY <1>3 DEF Refresh, SmallType, IInv, StateIsOn
  <2>3. DispType(disp') /\ CacheTrue(disp') /\ Shown(disp')
    BY <2>1, <2>2, RefreshShows DEF ShowInv
  <2>4. QED
    BY <2>2, <2>3 DEF ShowInv, DispType, CacheTrue, Shown, HasFields
<1>4. ASSUME NEW plugged \in BOOLEAN, ChargerMessage(plugged) PROVE ShowInv'
  <2>1. PICK pct \in Levels, br \in LinkTexts, f \in 0..Dead :
           disp' = IF ui = "limbo"
                   THEN LimboDisplay(disp, ok, plugged, pct, br, f) ELSE disp
    BY <1>0, <1>4 DEF ChargerMessage
  <2>2. ui = "limbo" => Unlatched(disp)
    BY NotLatched DEF IInv, StateIsOn
  <2>3. DispType(disp') /\ CacheTrue(disp') /\ Shown(disp')
    BY <2>1, <2>2, LimboShows DEF ShowInv
  <2>4. QED
    BY <1>4, <2>3 DEF ChargerMessage, ShowInv, DispType, CacheTrue, Shown, HasFields
<1>5. CASE UNCHANGED vars
  BY <1>5 DEF vars, ShowInv, DispType, CacheTrue, Shown, HasFields
<1>6. QED
  BY <1>1, <1>2, <1>3, <1>4, <1>5 DEF Next

\* The panel shows nothing at the start.
LEMMA InitShows ==
    Init => ShowInv
<1> SUFFICES ASSUME Init PROVE ShowInv
  OBVIOUS
<1>1. Dark \in [Pages -> Texts]
  BY DEF Dark, Texts
<1>2. /\ HasFields(disp) /\ disp.latched = {} /\ disp.lit = FALSE /\ disp.blanked = FALSE
      /\ disp.slipped = FALSE /\ disp.cache = <<>> /\ disp.want = <<>> /\ disp.glass = Dark
  BY DEF Init, HasFields, Fields
<1>3. retry \in BOOLEAN
  BY DEF Init
<1>4. QED
  BY <1>1, <1>2, <1>3 DEF ShowInv, DispType, CacheTrue, Shown

\* What the panel shows stays true.
LEMMA ShowInvariant == Spec => []ShowInv
<1>1. (IInv /\ SmallType) /\ ShowInv /\ [Next]_vars => ShowInv'
  BY NextShows
<1>2. QED
  BY <1>1, InitShows, Invariant, PTL DEF Spec

\* The variables keep their types, the lines of the OLED and of its cache included
\* (sh_oled_prev holds four lines or is not valid).
THEOREM TypeCorrect == Spec => []TypeOK
<1>1. IInv /\ SmallType /\ ShowInv => TypeOK
  BY DEF IInv, SmallType, ShowInv, DispType, TypeOK
<1>2. QED
  BY <1>1, Invariant, ShowInvariant, PTL

\* A refresh that got through shows INIT FAIL and the missing sensors as long as
\* they are latched, whatever redraws were cut off before and whatever the line
\* cache made it skip (SmartHelmet_SensorsShowAdcMv).
THEOREM InitFailIsShown == Spec => []InitFailShown
<1>1. IInv /\ ShowInv => InitFailShown
  BY DEF IInv, ShowInv, Shown, InitFail, InitFailShown, LatchIsTrue
<1>2. QED
  BY <1>1, Invariant, ShowInvariant, PTL
=============================================================================
