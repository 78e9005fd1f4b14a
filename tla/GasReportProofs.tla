-------------------------- MODULE GasReportProofs --------------------------
(***************************************************************************)
(* Proofs about the ADC front end (AdcSampler) and the gas fields built on *)
(* it (GasReport).                                                         *)
(*                                                                         *)
(* The ADC never waits for a result that is not coming, whatever piles up  *)
(* in flight.  NeverWedged alone is not inductive: a scan past its last    *)
(* channel would match the reference, so InScan says that a running scan   *)
(* stands at a channel.  The proofs about the front end do not use the     *)
(* number of channels, which the gas fields fix at four.                   *)
(***************************************************************************)
EXTENDS GasReport, SequenceTheorems, TLAPS

InScan == mode = "full" => index \in Indices

Inv == TypeOK /\ InScan /\ NeverWedged

\* What a running scan or tick waits for is among the results q.
Awaited(m, i, q) ==
    /\ m = "full" => \E k \in DOMAIN q : q[k].src = i
    /\ m = "sens" => \E k \in DOMAIN q : q[k].src = SensIn

-----------------------------------------------------------------------------
\* A request queues two results behind the ones in flight, and the channel's
\* is one of them (shAdcRequestNextFull, shAdcStartSens).
LEMMA AskedQueued ==
    ASSUME NEW q \in Seq(Results), NEW s \in 0..Channels,
           NEW by \in {"gas", "sens"}
    PROVE  /\ q \o Asked(s, by) \in Seq(Results)
           /\ \E k \in DOMAIN (q \o Asked(s, by)) :
                  (q \o Asked(s, by))[k].src = s
<1> DEFINE a == [src |-> Vref, by |-> by, fresh |-> TRUE]
           b == [src |-> s, by |-> by, fresh |-> TRUE]
<1>1. a \in Results /\ b \in Results /\ b.src = s
  BY AdcAssumption DEF Results, Vref
<1>2. Asked(s, by) = <<a, b>>
  BY DEF Asked
<1> HIDE DEF a, b
<1>3. <<a, b>> \in Seq(Results) /\ Len(<<a, b>>) = 2 /\ <<a, b>>[2] = b
  BY <1>1
<1>4. /\ q \o <<a, b>> \in Seq(Results)
      /\ Len(q \o <<a, b>>) = Len(q) + 2
      /\ (q \o <<a, b>>)[Len(q) + 2] = b
  BY <1>3
<1>5. Len(q) + 2 \in DOMAIN (q \o <<a, b>>)
  BY <1>4
<1>6. QED
  BY <1>1, <1>2, <1>4, <1>5

\* Reading a result that is not the awaited one keeps the awaited one.
LEMMA TailKeeps ==
    ASSUME NEW q \in Seq(Results), q # <<>>, NEW s,
           Head(q).src # s, NEW k \in DOMAIN q, q[k].src = s
    PROVE  \E j \in DOMAIN Tail(q) : Tail(q)[j].src = s
<1>1. k \in 1..Len(q) /\ k # 1
  OBVIOUS
<1>2. k - 1 \in DOMAIN Tail(q) /\ Tail(q)[k - 1] = q[k]
  BY <1>1
<1>3. QED
  BY <1>2

\* AdcInit forgets which request a result answers, not its source.
LEMMA StaleQueue ==
    ASSUME NEW q \in Seq(Results)
    PROVE  Stale(q) \in Seq(Results)
<1>1. ASSUME NEW i \in DOMAIN q
      PROVE  [q[i] EXCEPT !.fresh = FALSE] \in Results
  <2>1. q[i] \in Results /\ FALSE \in BOOLEAN
    OBVIOUS
  <2>2. ASSUME NEW r \in Results
        PROVE  [r EXCEPT !.fresh = FALSE] \in Results
    BY Zenon DEF Results
  <2>3. QED
    BY <2>1, <2>2
<1>2. Stale(q) \in [1..Len(q) -> Results] /\ Len(q) \in Nat
  BY <1>1 DEF Stale
<1>3. QED
  BY <1>2, IsASeq DEF Stale

\* shAdcRequestNextFull: the scan asks for channel i or ends.
LEMMA NextFull ==
    ASSUME NEW q \in Seq(Results), NEW i \in 0..Channels,
           RequestNextFull(i, q)
    PROVE  /\ mode' \in {"idle", "full"} /\ flight' \in Seq(Results)
           /\ mode' = "full" => i \in Indices
           /\ Awaited(mode', i, flight')
<1>1. CASE i >= Channels
  BY <1>1 DEF RequestNextFull, Awaited
<1>2. CASE ~(i >= Channels)
  <2>1. mode' = "full" /\ flight' = q \o Asked(i, "gas")
    BY <1>2 DEF RequestNextFull
  <2>2. i \in Indices
    BY <1>2, AdcAssumption DEF Indices
  <2>3. flight' \in Seq(Results) /\ \E k \in DOMAIN flight' : flight'[k].src = i
    BY <2>1, AskedQueued
  <2>4. QED
    BY <2>1, <2>2, <2>3 DEF Awaited
<1>3. QED
  BY <1>1, <1>2

\* SmartHelmet_AdcRequestScan starts a scan only on an idle converter.
LEMMA RequestScan ==
    ASSUME Inv, AdcRequestScan
    PROVE  /\ mode' \in {"idle", "full", "sens"} /\ index' \in 0..Channels
           /\ flight' \in Seq(Results)
           /\ InScan' /\ NeverWedged'
<1>1. CASE mode # "idle"
  BY <1>1 DEF AdcRequestScan, Inv, TypeOK, InScan, NeverWedged
<1>2. CASE mode = "idle"
  <2>1. index' = 0 /\ RequestNextFull(0, flight)
    BY <1>2 DEF AdcRequestScan
  <2>2. 0 \in 0..Channels /\ flight \in Seq(Results)
    BY AdcAssumption DEF Inv, TypeOK
  <2>3. /\ mode' \in {"idle", "full"} /\ flight' \in Seq(Results)
        /\ mode' = "full" => 0 \in Indices
        /\ Awaited(mode', 0, flight')
    BY <2>1, <2>2, NextFull
  <2>4. QED
    BY <2>1, <2>2, <2>3 DEF InScan, NeverWedged, Awaited
<1>3. QED
  BY <1>1, <1>2

-----------------------------------------------------------------------------
\* SmartHelmet_Init stops the converter or leaves it alone.
LEMMA InitStep ==
    ASSUME Inv, NEW ok \in BOOLEAN, SmartHelmetInit(ok)
    PROVE  Inv'
<1>1. /\ ready \in BOOLEAN /\ powered \in BOOLEAN
      /\ ready' \in BOOLEAN /\ powered' \in BOOLEAN
  BY DEF Inv, TypeOK, SmartHelmetInit
<1>2. timers' \subseteq {"gas", "sens"} /\ fed' = fed
  BY DEF Inv, TypeOK, SmartHelmetInit
<1>3. CASE ok
  <2>1. mode' = "idle" /\ index' = 0 /\ vref' = FALSE
    BY <1>3 DEF SmartHelmetInit
  <2>2. sample' = [i \in Indices |-> "none"] /\ flight' = Stale(flight)
    BY <1>3 DEF SmartHelmetInit
  <2>3. flight' \in Seq(Results)
    BY <2>2, StaleQueue DEF Inv, TypeOK
  <2>4. sample' \in [Indices -> Scalings]
    BY <2>2 DEF Scalings
  <2>5. index' \in 0..Channels
    BY <2>1, AdcAssumption
  <2>6. TypeOK'
    <3>1. mode' \in {"idle", "full", "sens"} /\ vref' \in BOOLEAN
      BY <2>1
    <3>2. fed' \in [scale : Scalings, by : {"none", "gas", "sens"}]
      BY <1>2 DEF Inv, TypeOK
    <3>3. QED
      BY <1>1, <1>2, <2>3, <2>4, <2>5, <3>1, <3>2, Zenon DEF TypeOK
  <2>7. QED
    BY <2>1, <2>6 DEF Inv, InScan, NeverWedged
<1>4. CASE ~ok
  <2>1. UNCHANGED <<index, vref, sample, flight>>
    BY <1>4 DEF SmartHelmetInit
  <2>2. mode' = "idle" \/ mode' = mode
    BY DEF SmartHelmetInit
  <2>3. QED
    BY <1>1, <1>2, <2>1, <2>2 DEF Inv, TypeOK, InScan, NeverWedged
<1>5. QED
  BY <1>3, <1>4

\* SmartHelmet_PowerOn starts the first scan over what is still in flight.
LEMMA PowerOnStep ==
    ASSUME Inv, PowerOn
    PROVE  Inv'
<1>1. /\ ready' \in BOOLEAN /\ powered' \in BOOLEAN /\ vref' \in BOOLEAN
      /\ timers' \subseteq {"gas", "sens"} /\ fed' = fed /\ index' = 0
  BY DEF Inv, TypeOK, PowerOn
<1>2. sample' \in [Indices -> Scalings]
  BY DEF PowerOn, Scalings
<1>3. Stale(flight) \in Seq(Results) /\ 0 \in 0..Channels
  BY StaleQueue, AdcAssumption DEF Inv, TypeOK
<1>4. RequestNextFull(0, Stale(flight))
  BY DEF PowerOn
<1>5. /\ mode' \in {"idle", "full"} /\ flight' \in Seq(Results)
      /\ mode' = "full" => 0 \in Indices
      /\ Awaited(mode', 0, flight')
  BY <1>3, <1>4, NextFull
<1>6. QED
  BY <1>1, <1>2, <1>3, <1>5 DEF Inv, TypeOK, InScan, NeverWedged, Awaited

\* The SENS_IN tick waits for the conversion it has just requested.
LEMMA SensStep ==
    ASSUME Inv, SensTrigger
    PROVE  Inv'
<1>1. UNCHANGED <<ready, powered, timers, vref, sample, fed>>
  BY DEF SensTrigger, power
<1>2. CASE mode # "idle"
  <2>1. UNCHANGED <<mode, index, flight>>
    BY <1>2 DEF SensTrigger, AdcRequestSensIn
  <2>2. QED
    BY <1>1, <2>1 DEF Inv, TypeOK, InScan, NeverWedged
<1>3. CASE mode = "idle"
  <2>1. /\ mode' = "sens" /\ index' = SensIn
        /\ flight' = flight \o Asked(SensIn, "sens")
    BY <1>3 DEF SensTrigger, AdcRequestSensIn
  <2>2. SensIn \in 0..Channels /\ flight \in Seq(Results)
    BY AdcAssumption DEF Inv, TypeOK, SensIn
  <2>3. /\ flight' \in Seq(Results)
        /\ \E k \in DOMAIN flight' : flight'[k].src = SensIn
    BY <2>1, <2>2, AskedQueued
  <2>4. QED
    BY <1>1, <2>1, <2>2, <2>3 DEF Inv, TypeOK, InScan, NeverWedged
<1>4. QED
  BY <1>2, <1>3

\* AdcHandleMessage: a result is the awaited one, or the wait goes on.
LEMMA ResultStep ==
    ASSUME Inv, AdcResult
    PROVE  Inv'
<1> DEFINE r == Head(flight)
<1>1. /\ flight \in Seq(Results) /\ flight # <<>>
      /\ UNCHANGED <<ready, powered, timers>>
  BY DEF AdcResult, Inv, TypeOK, power
<1>2. r \in Results /\ Tail(flight) \in Seq(Results)
  BY <1>1
<1>3. Scaled \in Scalings
  BY DEF Scaled, Scalings
<1>4. ASSUME flight' = Tail(flight), UNCHANGED <<mode, index>>,
             mode = "full" => r.src # index,
             mode = "sens" => r.src # SensIn
      PROVE  NeverWedged'
  BY <1>1, <1>4, TailKeeps, ZenonT(40) DEF Inv, NeverWedged
<1>5. CASE VrefResult(r)
  <2>1. /\ r.src = Vref /\ vref' = TRUE /\ flight' = Tail(flight)
        /\ UNCHANGED <<mode, index, sample, fed>>
    BY <1>5 DEF VrefResult
  <2>2. Vref # SensIn /\ (mode = "full" => Vref # index)
    BY AdcAssumption DEF Inv, InScan, Indices, Vref, SensIn
  <2>3. NeverWedged'
    BY <1>4, <2>1, <2>2
  <2>4. QED
    BY <1>1, <1>2, <2>1, <2>3 DEF Inv, TypeOK, InScan
<1>6. CASE SensResult(r)
  <2>1. /\ mode' = "idle" /\ flight' = Tail(flight)
        /\ sample' = [sample EXCEPT ![SensIn] = Scaled]
        /\ fed' = [scale |-> Scaled, by |-> r.by]
        /\ UNCHANGED <<index, vref>>
    BY <1>6 DEF SensResult
  <2>2. sample' \in [Indices -> Scalings]
    BY <1>3, <2>1 DEF Inv, TypeOK
  <2>3. fed' \in [scale : Scalings, by : {"none", "gas", "sens"}]
    BY <1>2, <1>3, <2>1 DEF Results
  <2>4. QED
    BY <1>1, <1>2, <2>1, <2>2, <2>3 DEF Inv, TypeOK, InScan, NeverWedged
<1>7. CASE FullResult(r)
  <2>1. /\ mode = "full" /\ index < Channels /\ index' = index + 1
        /\ sample' = [sample EXCEPT ![index] = Scaled]
        /\ RequestNextFull(index + 1, Tail(flight))
        /\ UNCHANGED <<vref, fed>>
    BY <1>7 DEF FullResult
  <2>2. index + 1 \in 0..Channels
    BY <2>1, AdcAssumption DEF Inv, TypeOK
  <2>3. sample' \in [Indices -> Scalings]
    BY <1>3, <2>1 DEF Inv, TypeOK
  <2>4. /\ mode' \in {"idle", "full"} /\ flight' \in Seq(Results)
        /\ mode' = "full" => index + 1 \in Indices
        /\ Awaited(mode', index + 1, flight')
    BY <1>2, <2>1, <2>2, NextFull
  <2>5. QED
    BY <1>1, <2>1, <2>2, <2>3, <2>4
    DEF Inv, TypeOK, InScan, NeverWedged, Awaited
<1>8. CASE IgnoredResult(r)
  <2>1. /\ flight' = Tail(flight)
        /\ UNCHANGED <<mode, index, vref, sample, fed>>
    BY <1>8 DEF IgnoredResult
  <2>2. (mode = "full" => r.src # index) /\ (mode = "sens" => r.src # SensIn)
    BY <1>8, AdcAssumption DEF IgnoredResult, Inv, InScan, Indices
  <2>3. NeverWedged'
    BY <1>4, <2>1, <2>2
  <2>4. QED
    BY <1>1, <1>2, <2>1, <2>3 DEF Inv, TypeOK, InScan
<1>9. QED
  BY <1>5, <1>6, <1>7, <1>8 DEF AdcResult

-----------------------------------------------------------------------------
\* The converter starts idle, with nothing in flight.
LEMMA InitInv ==
    Init => Inv
<1> SUFFICES ASSUME Init
             PROVE  Inv
  OBVIOUS
<1>1. index \in 0..Channels
  BY AdcAssumption DEF Init
<1>2. sample \in [Indices -> Scalings]
  BY DEF Init, Scalings
<1>3. flight \in Seq(Results)
  BY DEF Init
<1>4. fed \in [scale : Scalings, by : {"none", "gas", "sens"}]
  BY DEF Init, Scalings
<1>5. /\ ready \in BOOLEAN /\ powered \in BOOLEAN /\ vref \in BOOLEAN
      /\ timers \subseteq {"gas", "sens"}
      /\ mode \in {"idle", "full", "sens"}
  BY DEF Init
<1>6. TypeOK
  BY <1>1, <1>2, <1>3, <1>4, <1>5, Zenon DEF TypeOK
<1>7. InScan /\ NeverWedged
  BY DEF Init, InScan, NeverWedged
<1>8. QED
  BY <1>6, <1>7 DEF Inv

\* Every step of the converter and of its users preserves the invariant.
LEMMA NextInv ==
    Inv /\ [Next]_vars => Inv'
<1> SUFFICES ASSUME Inv, [Next]_vars
             PROVE  Inv'
  OBVIOUS
<1>1. ASSUME NEW ok \in BOOLEAN, SmartHelmetInit(ok)
      PROVE  Inv'
  BY <1>1, InitStep
<1>2. CASE PowerOn
  BY <1>2, PowerOnStep
<1>3. CASE PowerOff
  BY <1>3 DEF PowerOff, Inv, TypeOK, InScan, NeverWedged
<1>4. CASE GasTrigger
  BY <1>4, RequestScan DEF GasTrigger, power, Inv, TypeOK
<1>5. CASE SensTrigger
  BY <1>5, SensStep
<1>6. CASE PollSensors
  BY <1>6, RequestScan DEF PollSensors, power, Inv, TypeOK
<1>7. CASE AdcResult
  BY <1>7, ResultStep
<1>8. CASE UNCHANGED vars
  BY <1>8 DEF vars, Inv, TypeOK, InScan, NeverWedged
<1>9. QED
  BY <1>1, <1>2, <1>3, <1>4, <1>5, <1>6, <1>7, <1>8 DEF Next

\* The inductive invariant: types, a running scan stands at a channel, and
\* what sh_adc_mode waits for is in flight.
THEOREM Invariance == Spec => []Inv
  BY InitInv, NextInv, PTL DEF Spec

\* The statics of smart_helmet_adc.c keep their types and ranges.
THEOREM TypeCorrect == Spec => []TypeOK
<1>1. Inv => TypeOK
  BY DEF Inv
<1>2. QED
  BY <1>1, Invariance, PTL

\* The converter is never busy waiting for a result that is not coming.
THEOREM NotWedged == Spec => []NeverWedged
<1>1. Inv => NeverWedged
  BY DEF Inv
<1>2. QED
  BY <1>1, Invariance, PTL

-----------------------------------------------------------------------------
(* Every source is asked for together with the reference in front of it,   *)
(* and results arrive in the order of the requests.                        *)

\* The results in flight are pairs, the first of which may be half read: from
\* the end, a source and a reference in turn.
Pairs(q) == \A k \in DOMAIN q : (q[k].src = Vref) <=> ((Len(q) - k) % 2 = 1)

\* No reference was read since AdcInit: then no channel after SENS_IN can be
\* matched by the result at the head.
RawOnlyFirst ==
    ~vref /\ flight # <<>> /\ flight[1].src # Vref => index = 0

PairInv == Inv /\ Pairs(flight) /\ RawOnlyFirst

\* A request puts a pair behind the results in flight.
LEMMA AskedPair ==
    ASSUME NEW q \in Seq(Results), NEW s \in 0..Channels, NEW by \in {"gas", "sens"}
    PROVE  LET p == q \o Asked(s, by)
           IN  /\ p \in Seq(Results) /\ Len(p) = Len(q) + 2
               /\ \A k \in 1..Len(q) : p[k] = q[k]
               /\ p[Len(q) + 1] = [src |-> Vref, by |-> by, fresh |-> TRUE]
               /\ p[Len(q) + 2] = [src |-> s, by |-> by, fresh |-> TRUE]
<1> DEFINE a == [src |-> Vref, by |-> by, fresh |-> TRUE]
           b == [src |-> s, by |-> by, fresh |-> TRUE]
<1>1. a \in Results /\ b \in Results
  BY AdcAssumption DEF Results, Vref
<1>2. Asked(s, by) = <<a, b>>
  BY DEF Asked
<1> HIDE DEF a, b
<1>3. <<a, b>> \in Seq(Results) /\ Len(<<a, b>>) = 2
      /\ <<a, b>>[1] = a /\ <<a, b>>[2] = b
  BY <1>1
<1>4. /\ q \o <<a, b>> \in Seq(Results)
      /\ Len(q \o <<a, b>>) = Len(q) + 2
      /\ \A k \in 1..Len(q) : (q \o <<a, b>>)[k] = q[k]
      /\ (q \o <<a, b>>)[Len(q) + 1] = a
      /\ (q \o <<a, b>>)[Len(q) + 2] = b
  BY <1>3
<1>5. QED
  BY <1>2, <1>4 DEF a, b

\* A pair behind pairs makes pairs, and the head stays or is a reference.
LEMMA AskedPairs ==
    ASSUME NEW q \in Seq(Results), Pairs(q), NEW s \in Indices,
           NEW by \in {"gas", "sens"}
    PROVE  LET p == q \o Asked(s, by)
           IN  /\ Pairs(p)
               /\ IF q = <<>> THEN p[1].src = Vref ELSE p[1] = q[1]
<1> DEFINE p == q \o Asked(s, by)
<1>1. s \in 0..Channels /\ s # Vref /\ Len(q) \in Nat
  BY AdcAssumption DEF Indices, Vref
<1>2. /\ p \in Seq(Results) /\ Len(p) = Len(q) + 2
      /\ \A k \in 1..Len(q) : p[k] = q[k]
      /\ p[Len(q) + 1] = [src |-> Vref, by |-> by, fresh |-> TRUE]
      /\ p[Len(q) + 2] = [src |-> s, by |-> by, fresh |-> TRUE]
  BY <1>1, AskedPair
<1> HIDE DEF p
<1>3. DOMAIN p = 1..(Len(q) + 2) /\ DOMAIN q = 1..Len(q)
  BY <1>2
<1>4. Pairs(p)
  <2> SUFFICES ASSUME NEW k \in DOMAIN p
               PROVE  (p[k].src = Vref) <=> ((Len(p) - k) % 2 = 1)
    BY DEF Pairs
  <2>1. CASE k \in 1..Len(q)
    <3>1. (q[k].src = Vref) <=> ((Len(q) - k) % 2 = 1)
      BY <1>3, <2>1 DEF Pairs
    <3>2. (Len(p) - k) % 2 = (Len(q) - k) % 2
      BY <1>1, <1>2, <2>1
    <3>3. QED
      BY <1>2, <2>1, <3>1, <3>2
  <2>2. CASE k = Len(q) + 1
    BY <1>1, <1>2, <2>2
  <2>3. CASE k = Len(q) + 2
    BY <1>1, <1>2, <2>3
  <2>4. QED
    BY <1>1, <1>3, <2>1, <2>2, <2>3
<1>5. IF q = <<>> THEN p[1].src = Vref ELSE p[1] = q[1]
  <2>1. CASE q = <<>>
    BY <1>2, <2>1
  <2>2. CASE q # <<>>
    BY <1>1, <1>2, <2>2
  <2>3. QED
    BY <2>1, <2>2
<1>6. QED
  BY <1>4, <1>5 DEF p

\* Reading the first result leaves pairs, and behind a source a reference.
LEMMA TailPairs ==
    ASSUME NEW q \in Seq(Results), Pairs(q), q # <<>>
    PROVE  LET t == Tail(q)
           IN  /\ t \in Seq(Results) /\ Len(t) = Len(q) - 1
               /\ \A k \in 1..Len(t) : t[k] = q[k + 1]
               /\ Pairs(t)
               /\ t # <<>> /\ q[1].src # Vref => t[1].src = Vref
<1> DEFINE t == Tail(q)
<1>1. /\ t \in Seq(Results) /\ Len(t) = Len(q) - 1 /\ Len(q) \in Nat \ {0}
      /\ \A k \in 1..Len(t) : t[k] = q[k + 1]
  OBVIOUS
<1> HIDE DEF t
<1>2. DOMAIN t = 1..Len(t) /\ DOMAIN q = 1..Len(q)
  BY <1>1
<1>3. Pairs(t)
  <2> SUFFICES ASSUME NEW k \in 1..Len(t)
               PROVE  (t[k].src = Vref) <=> ((Len(t) - k) % 2 = 1)
    BY <1>2 DEF Pairs
  <2>1. k + 1 \in DOMAIN q /\ Len(t) - k = Len(q) - (k + 1)
    BY <1>1, <1>2
  <2>2. QED
    BY <1>1, <2>1 DEF Pairs
<1>4. ASSUME t # <<>>, q[1].src # Vref
      PROVE  t[1].src = Vref
  <2>1. Len(q) >= 2
    BY <1>1, <1>4
  <2>2. 1 \in DOMAIN q /\ 2 \in DOMAIN q
    BY <1>1, <1>2, <2>1
  <2>3. (Len(q) - 1) % 2 # 1
    BY <1>4, <2>2 DEF Pairs
  <2>4. (Len(q) - 2) % 2 = 1
    <3>1. \A n \in Nat : (n + 1) % 2 # 1 => n % 2 = 1
      BY SMTT(30)
    <3>2. Len(q) - 2 \in Nat /\ (Len(q) - 2) + 1 = Len(q) - 1
      BY <1>1, <2>1
    <3>3. QED
      BY <2>3, <3>1, <3>2, Zenon
  <2>5. q[2].src = Vref
    BY <2>2, <2>4 DEF Pairs
  <2>6. t[1] = q[2]
    BY <1>1, <2>1
  <2>7. QED
    BY <2>5, <2>6
<1>5. QED
  BY <1>1, <1>3, <1>4 DEF t

\* AdcInit keeps the results in flight, as results of before.
LEMMA StalePairs ==
    ASSUME NEW q \in Seq(Results), Pairs(q)
    PROVE  /\ Stale(q) \in Seq(Results) /\ Len(Stale(q)) = Len(q)
           /\ \A k \in DOMAIN Stale(q) : ~Stale(q)[k].fresh
           /\ Pairs(Stale(q))
<1>1. Stale(q) \in Seq(Results) /\ DOMAIN Stale(q) = DOMAIN q
  BY StaleQueue DEF Stale
<1>2. \A k \in DOMAIN q : Stale(q)[k].src = q[k].src /\ ~Stale(q)[k].fresh
  <2> TAKE k \in DOMAIN q
  <2>1. q[k] \in Results
    OBVIOUS
  <2>2. Stale(q)[k] = [q[k] EXCEPT !.fresh = FALSE]
    BY DEF Stale
  <2>3. QED
    BY <2>1, <2>2 DEF Results
<1>3. Len(Stale(q)) = Len(q)
  BY <1>1
<1>4. QED
  BY <1>1, <1>2, <1>3 DEF Pairs

\* shAdcRequestNextFull from a queue of pairs.
LEMMA NextFullPairs ==
    ASSUME NEW q \in Seq(Results), Pairs(q), NEW i \in 0..Channels,
           RequestNextFull(i, q)
    PROVE  /\ Pairs(flight')
           /\ q # <<>> => flight'[1] = q[1]
           /\ q = <<>> /\ flight' # <<>> => flight'[1].src = Vref
<1>1. CASE i >= Channels
  BY <1>1 DEF RequestNextFull
<1>2. CASE ~(i >= Channels)
  <2>1. flight' = q \o Asked(i, "gas") /\ i \in Indices
    BY <1>2, AdcAssumption DEF RequestNextFull, Indices
  <2>2. QED
    BY <2>1, AskedPairs
<1>3. QED
  BY <1>1, <1>2

\* A result is read: behind it are pairs, and a source is followed by a
\* reference.
LEMMA ResultPairs ==
    ASSUME PairInv, AdcResult
    PROVE  Pairs(flight') /\ RawOnlyFirst'
<1> DEFINE r == Head(flight)
           t == Tail(flight)
<1>1. flight \in Seq(Results) /\ flight # <<>> /\ Pairs(flight) /\ r = flight[1]
  BY DEF AdcResult, PairInv, Inv, TypeOK
<1>2. /\ t \in Seq(Results) /\ Pairs(t)
      /\ t # <<>> /\ r.src # Vref => t[1].src = Vref
  BY <1>1, TailPairs
<1>3. CASE VrefResult(r)
  BY <1>2, <1>3 DEF VrefResult, RawOnlyFirst
<1>4. CASE SensResult(r)
  <2>1. flight' = t /\ r.src # Vref
    BY <1>4, AdcAssumption DEF SensResult, SensIn, Vref
  <2>2. QED
    BY <1>2, <2>1 DEF RawOnlyFirst
<1>5. CASE FullResult(r)
  <2>1. RequestNextFull(index + 1, t) /\ index < Channels /\ r.src = index
    BY <1>5 DEF FullResult
  <2>2. index + 1 \in 0..Channels /\ r.src # Vref
    BY <2>1, AdcAssumption DEF PairInv, Inv, TypeOK, Vref
  <2>3. /\ Pairs(flight')
        /\ t # <<>> => flight'[1] = t[1]
        /\ t = <<>> /\ flight' # <<>> => flight'[1].src = Vref
    BY <1>2, <2>1, <2>2, NextFullPairs
  <2>4. QED
    BY <1>2, <2>2, <2>3 DEF RawOnlyFirst
<1>6. CASE IgnoredResult(r)
  BY <1>2, <1>6 DEF IgnoredResult, RawOnlyFirst
<1>7. QED
  BY <1>3, <1>4, <1>5, <1>6 DEF AdcResult

\* Every step keeps the pairs.
LEMMA NextPairInv ==
    PairInv /\ [Next]_vars => PairInv'
<1> SUFFICES ASSUME PairInv, [Next]_vars
             PROVE  Pairs(flight') /\ RawOnlyFirst'
  BY NextInv DEF PairInv
<1>0. flight \in Seq(Results) /\ Pairs(flight) /\ 0 \in 0..Channels /\ 0 \in Indices
  BY AdcAssumption DEF PairInv, Inv, TypeOK, Indices
<1>1. Stale(flight) \in Seq(Results) /\ Pairs(Stale(flight))
  BY <1>0, StalePairs
<1>2. ASSUME NEW ok \in BOOLEAN, SmartHelmetInit(ok)
      PROVE  Pairs(flight') /\ RawOnlyFirst'
  <2>1. CASE ok
    BY <1>1, <1>2, <2>1 DEF SmartHelmetInit, RawOnlyFirst
  <2>2. CASE ~ok
    BY <1>2, <2>2 DEF SmartHelmetInit, PairInv, RawOnlyFirst
  <2>3. QED
    BY <2>1, <2>2
<1>3. CASE PowerOn
  BY <1>0, <1>1, <1>3, NextFullPairs DEF PowerOn, RawOnlyFirst
<1>4. CASE PowerOff
  BY <1>4 DEF PowerOff, PairInv, RawOnlyFirst
<1>5. CASE GasTrigger \/ PollSensors
  <2>1. AdcRequestScan /\ vref' = vref
    BY <1>5 DEF GasTrigger, PollSensors
  <2>2. CASE mode # "idle"
    BY <2>1, <2>2 DEF AdcRequestScan, PairInv, RawOnlyFirst
  <2>3. CASE mode = "idle"
    BY <1>0, <2>1, <2>3, NextFullPairs DEF AdcRequestScan, RawOnlyFirst
  <2>4. QED
    BY <2>2, <2>3
<1>6. CASE SensTrigger
  <2>1. CASE mode # "idle"
    BY <1>6, <2>1 DEF SensTrigger, AdcRequestSensIn, PairInv, RawOnlyFirst
  <2>2. CASE mode = "idle"
    BY <1>0, <1>6, <2>2, AskedPairs
    DEF SensTrigger, AdcRequestSensIn, RawOnlyFirst, SensIn
  <2>3. QED
    BY <2>1, <2>2
<1>7. CASE AdcResult
  BY <1>7, ResultPairs
<1>8. CASE UNCHANGED vars
  BY <1>8 DEF vars, PairInv, RawOnlyFirst
<1>9. QED
  BY <1>2, <1>3, <1>4, <1>5, <1>6, <1>7, <1>8 DEF Next

\* Nothing is in flight when the chip boots.
LEMMA InitPairInv ==
    Init => PairInv
<1> SUFFICES ASSUME Init PROVE PairInv
  OBVIOUS
<1>1. flight = <<>>
  BY DEF Init
<1>2. Pairs(flight) /\ RawOnlyFirst
  BY <1>1 DEF Pairs, RawOnlyFirst
<1>3. QED
  BY <1>2, InitInv DEF PairInv

-----------------------------------------------------------------------------
(* The vitals stay on their own grid.                                      *)

\* While the triggers are armed.  An idle converter has only results of before
\* AdcInit in flight.  A tick has exactly its own pair.  A scan at channel i
\* has asked for the channels 0..i since AdcInit: these results are the last
\* 2 * (i + 1) in flight, those of them that are still to come, and older ones
\* in front of them are too few to complete the scan in their place.
Grid(m, i, q, known) ==
    /\ m = "idle" => Len(q) <= FlightMax /\ \A k \in DOMAIN q : ~q[k].fresh
    /\ m = "sens" => /\ Len(q) \in {1, 2}
                     /\ q[Len(q)].src = SensIn /\ q[Len(q)].by = "sens"
                     /\ Len(q) = 1 => known
    /\ m = "full" => /\ \A k \in DOMAIN q : q[k].fresh <=> k > Len(q) - 2 * (i + 1)
                     /\ \A k \in DOMAIN q :
                           q[k].fresh /\ q[k].src # Vref =>
                               2 * (i - q[k].src) = Len(q) - k
                     /\ Len(q) > 2 * (i + 1) => Len(q) <= 2 * Channels

GridInv ==
    /\ PairInv
    /\ mode = "sens" => timers # {}
    /\ timers # {} => Grid(mode, index, flight, vref)
    /\ VitalsOnGrid

\* A scan that starts over results of before.
LEMMA ScanStarts ==
    ASSUME NEW q \in Seq(Results), Len(q) <= FlightMax,
           \A k \in DOMAIN q : ~q[k].fresh, RequestNextFull(0, q), NEW known
    PROVE  Grid(mode', 0, flight', known) /\ mode' # "sens"
<1>1. mode' = "full" /\ flight' = q \o Asked(0, "gas") /\ 0 \in 0..Channels
  BY AdcAssumption DEF RequestNextFull
<1> DEFINE p == flight'
<1>2. /\ p \in Seq(Results) /\ Len(p) = Len(q) + 2
      /\ \A k \in 1..Len(q) : p[k] = q[k]
      /\ p[Len(q) + 1] = [src |-> Vref, by |-> "gas", fresh |-> TRUE]
      /\ p[Len(q) + 2] = [src |-> 0, by |-> "gas", fresh |-> TRUE]
  BY <1>1, AskedPair
<1>3. Len(q) \in Nat /\ DOMAIN q = 1..Len(q) /\ DOMAIN p = 1..(Len(q) + 2)
  BY <1>2
<1> HIDE DEF p
<1>4. ASSUME NEW k \in DOMAIN p
      PROVE  /\ p[k].fresh <=> k > Len(p) - 2 * (0 + 1)
             /\ p[k].fresh /\ p[k].src # Vref => 2 * (0 - p[k].src) = Len(p) - k
  <2>1. CASE k \in 1..Len(q)
    <3>1. ~p[k].fresh /\ ~(k > Len(p) - 2)
      BY <1>2, <1>3, <2>1
    <3>2. QED
      BY <3>1
  <2>2. CASE k = Len(q) + 1
    BY <1>2, <1>3, <2>2
  <2>3. CASE k = Len(q) + 2
    BY <1>2, <1>3, <2>3
  <2>4. QED
    BY <1>3, <1>4, <2>1, <2>2, <2>3
<1>5. Len(p) <= 2 * Channels
  BY <1>2, <1>3, AdcAssumption, FlightAssumption
<1>6. Grid("full", 0, p, known)
  BY <1>4, <1>5 DEF Grid
<1>7. QED
  BY <1>1, <1>6 DEF p

\* A result that nobody waits for leaves the scan where it was.
LEMMA ScanWaits ==
    ASSUME NEW q \in Seq(Results), Pairs(q), q # <<>>, NEW i \in 0..Channels,
           NEW known, NEW later, Grid("full", i, q, known)
    PROVE  Grid("full", i, Tail(q), later)
<1> DEFINE t == Tail(q)
<1>1. /\ t \in Seq(Results) /\ Len(t) = Len(q) - 1
      /\ \A k \in 1..Len(t) : t[k] = q[k + 1]
      /\ Len(q) \in Nat \ {0}
  BY TailPairs
<1> HIDE DEF t
<1>2. DOMAIN t = 1..Len(t) /\ DOMAIN q = 1..Len(q)
  BY <1>1
<1>3. ASSUME NEW k \in DOMAIN t
      PROVE  /\ t[k].fresh <=> k > Len(t) - 2 * (i + 1)
             /\ t[k].fresh /\ t[k].src # Vref => 2 * (i - t[k].src) = Len(t) - k
  <2>1. k + 1 \in DOMAIN q /\ t[k] = q[k + 1] /\ k \in Nat
    BY <1>1, <1>2
  <2>2. /\ q[k + 1].fresh <=> k + 1 > Len(q) - 2 * (i + 1)
        /\ q[k + 1].fresh /\ q[k + 1].src # Vref =>
              2 * (i - q[k + 1].src) = Len(q) - (k + 1)
    BY <2>1 DEF Grid
  <2>3. /\ k + 1 > Len(q) - 2 * (i + 1) <=> k > Len(t) - 2 * (i + 1)
        /\ Len(q) - (k + 1) = Len(t) - k
    BY <1>1, <2>1
  <2>4. QED
    BY <2>1, <2>2, <2>3
<1>4. Len(t) > 2 * (i + 1) => Len(t) <= 2 * Channels
  BY <1>1, AdcAssumption DEF Grid
<1>5. QED
  BY <1>3, <1>4 DEF Grid, t

\* Arithmetic of the positions: an even bound on an odd length leaves room.
LEMMA OddLength ==
    ASSUME NEW n \in Nat, NEW c \in Nat, (n - 1) % 2 # 1, n <= 2 * c
    PROVE  n + 1 <= 2 * c
  OBVIOUS

\* Arithmetic of the positions: the next channel is one pair further on.
LEMMA NextPosition ==
    ASSUME NEW n \in Int, NEW k \in Int, NEW i \in Int, NEW s \in Int,
           2 * (i - s) = n - (k + 1)
    PROVE  2 * ((i + 1) - s) = n + 1 - k
  OBVIOUS

\* The awaited result of a scan: an older one in its place never completes the
\* scan, and its own is the last in flight.
LEMMA ScanAdvances ==
    ASSUME NEW q \in Seq(Results), Pairs(q), q # <<>>, NEW i \in Indices,
           q[1].src = i, NEW known, Grid("full", i, q, known),
           RequestNextFull(i + 1, Tail(q))
    PROVE  Grid(mode', i + 1, flight', known) /\ mode' # "sens"
<1> DEFINE t == Tail(q)
           p == flight'
<1>1. /\ t \in Seq(Results) /\ Len(t) = Len(q) - 1
      /\ \A k \in 1..Len(t) : t[k] = q[k + 1]
      /\ Len(q) \in Nat \ {0} /\ DOMAIN q = 1..Len(q)
  BY TailPairs
<1>2. i \in Nat /\ i < Channels /\ i # Vref /\ 1 \in DOMAIN q
  BY <1>1, AdcAssumption DEF Indices, Vref
<1>3. (Len(q) - 1) % 2 # 1
  BY <1>2 DEF Pairs
<1>4. q[1].fresh <=> 1 > Len(q) - 2 * (i + 1)
  BY <1>2 DEF Grid
<1>5. CASE i + 1 >= Channels
  <2>1. q[1].fresh
    <3>1. ASSUME ~q[1].fresh PROVE FALSE
      <4>1. Len(q) > 2 * (i + 1)
        BY <1>1, <1>2, <1>4, <3>1
      <4>2. Len(q) <= 2 * Channels
        BY <4>1 DEF Grid
      <4>3. QED
        BY <1>1, <1>2, <1>3, <1>5, <4>1, <4>2, AdcAssumption
    <3>2. QED
      BY <3>1
  <2>2. 2 * (i - i) = Len(q) - 1
    BY <1>2, <2>1 DEF Grid
  <2>3. Len(t) = 0
    <3>1. i - i = 0
      BY <1>2
    <3>2. QED
      BY <1>1, <2>2, <3>1
  <2>4. mode' = "idle" /\ p = <<>>
    BY <1>1, <1>5, <2>3 DEF RequestNextFull
  <2>5. QED
    BY <2>4, AdcAssumption DEF Grid
<1>6. CASE i + 1 < Channels
  <2>1. mode' = "full" /\ p = t \o Asked(i + 1, "gas") /\ i + 1 \in 0..Channels
    BY <1>2, <1>6, AdcAssumption DEF RequestNextFull
  <2> HIDE DEF t
  <2>2. /\ p \in Seq(Results) /\ Len(p) = Len(t) + 2
        /\ \A k \in 1..Len(t) : p[k] = t[k]
        /\ p[Len(t) + 1] = [src |-> Vref, by |-> "gas", fresh |-> TRUE]
        /\ p[Len(t) + 2] = [src |-> i + 1, by |-> "gas", fresh |-> TRUE]
    BY <1>1, <2>1, AskedPair, ZenonT(40)
  <2>3. Len(p) = Len(q) + 1 /\ DOMAIN p = 1..(Len(q) + 1)
    BY <1>1, <2>2
  <2> HIDE DEF p
  <2>4. ASSUME NEW k \in DOMAIN p
        PROVE  /\ p[k].fresh <=> k > Len(p) - 2 * (i + 2)
               /\ p[k].fresh /\ p[k].src # Vref =>
                     2 * ((i + 1) - p[k].src) = Len(p) - k
    <3>1. CASE k \in 1..Len(t)
      <4>1. k + 1 \in DOMAIN q /\ p[k] = q[k + 1] /\ k \in Nat
        BY <1>1, <2>2, <3>1
      <4>2. /\ q[k + 1].fresh <=> k + 1 > Len(q) - 2 * (i + 1)
            /\ q[k + 1].fresh /\ q[k + 1].src # Vref =>
                  2 * (i - q[k + 1].src) = Len(q) - (k + 1)
        BY <4>1 DEF Grid
      <4>3. k + 1 > Len(q) - 2 * (i + 1) <=> k > Len(p) - 2 * (i + 2)
        BY <1>1, <1>2, <2>3, <4>1
      <4>4. q[k + 1].src \in Int
        <5>1. q[k + 1] \in Results
          BY <4>1
        <5>2. QED
          BY <5>1, AdcAssumption DEF Results
      <4>5. 2 * (i - q[k + 1].src) = Len(q) - (k + 1) =>
               2 * ((i + 1) - q[k + 1].src) = Len(p) - k
        <5> DEFINE s == q[k + 1].src
                   n == Len(q)
        <5>1. s \in Int /\ n \in Int /\ k \in Int /\ i \in Int /\ Len(p) = n + 1
          BY <1>1, <1>2, <2>3, <4>1, <4>4
        <5> HIDE DEF s, n
        <5>2. 2 * (i - s) = n - (k + 1) => 2 * ((i + 1) - s) = Len(p) - k
          BY <5>1, NextPosition
        <5>3. QED
          BY <5>2 DEF s, n
      <4>6. QED
        BY <4>1, <4>2, <4>3, <4>5
    <3>2. CASE k = Len(q)
      <4>1. k = Len(t) + 1 /\ k > Len(p) - 2 * (i + 2)
        BY <1>1, <1>2, <2>3, <3>2
      <4>2. p[k].src = Vref /\ p[k].fresh
        BY <2>2, <4>1
      <4>3. QED
        BY <4>1, <4>2
    <3>3. CASE k = Len(q) + 1
      <4>1. k = Len(t) + 2 /\ k > Len(p) - 2 * (i + 2) /\ Len(p) - k = 0
        BY <1>1, <1>2, <2>3, <3>3
      <4>2. p[k].src = i + 1 /\ p[k].fresh
        BY <2>2, <4>1
      <4>3. 2 * ((i + 1) - p[k].src) = 0
        BY <1>2, <4>2
      <4>4. QED
        BY <4>1, <4>2, <4>3
    <3>4. QED
      BY <1>1, <2>3, <2>4, <3>1, <3>2, <3>3
  <2>5. ASSUME Len(p) > 2 * (i + 2)
        PROVE  Len(p) <= 2 * Channels
    <3>1. Len(q) > 2 * (i + 1)
      BY <1>1, <1>2, <2>3, <2>5
    <3>2. Len(q) <= 2 * Channels
      BY <3>1 DEF Grid
    <3>3. QED
      BY <1>1, <1>3, <2>3, <3>2, AdcAssumption, OddLength
  <2>6. 2 * (i + 2) = 2 * (i + 1 + 1)
    BY <1>2
  <2>7. Grid("full", i + 1, p, known)
    <3> DEFINE j == i + 1
    <3>1. \A k \in DOMAIN p : p[k].fresh <=> k > Len(p) - 2 * (j + 1)
      BY <2>4, <2>6
    <3>2. ASSUME NEW k \in DOMAIN p, p[k].fresh, p[k].src # Vref
          PROVE  2 * (j - p[k].src) = Len(p) - k
      BY <2>4, <3>2, Zenon
    <3>3. Len(p) > 2 * (j + 1) => Len(p) <= 2 * Channels
      BY <2>5, <2>6
    <3> HIDE DEF j
    <3>4. Grid("full", j, p, known)
      BY <3>1, <3>2, <3>3 DEF Grid
    <3>5. QED
      BY <3>4 DEF j
  <2>8. QED
    BY <2>1, <2>7 DEF p
<1>7. QED
  BY <1>2, <1>5, <1>6, AdcAssumption

\* A result: the vitals get only the conversion their own tick asked for.
LEMMA ResultGrid ==
    ASSUME GridInv, AdcResult
    PROVE  /\ mode' = "sens" => timers' # {}
           /\ timers' # {} => Grid(mode', index', flight', vref')
           /\ VitalsOnGrid'
<1> DEFINE r == Head(flight)
           t == Tail(flight)
<1>1. /\ flight \in Seq(Results) /\ flight # <<>> /\ Pairs(flight)
      /\ r = flight[1] /\ index \in 0..Channels /\ timers' = timers
      /\ 1 \in DOMAIN flight /\ Len(flight) \in Nat \ {0}
      /\ mode \in {"idle", "full", "sens"}
  BY DEF AdcResult, GridInv, PairInv, Inv, TypeOK
<1>2. /\ t \in Seq(Results) /\ Len(t) = Len(flight) - 1
      /\ \A k \in 1..Len(t) : t[k] = flight[k + 1]
  BY <1>1, TailPairs
<1> HIDE DEF t
<1>3. ASSUME flight' = t, mode' = mode, index' = index, timers # {},
             mode = "sens" => Len(flight) = 2 /\ vref'
      PROVE  Grid(mode', index', flight', vref')
  <2>1. Grid(mode, index, flight, vref)
    BY <1>3 DEF GridInv
  <2>2. CASE mode = "full"
    BY <1>1, <1>3, <2>1, <2>2, ScanWaits DEF t
  <2>3. CASE mode = "idle"
    <3>1. Len(t) <= FlightMax
      BY <1>1, <1>2, <2>1, <2>3, AdcAssumption DEF Grid
    <3>2. ASSUME NEW k \in DOMAIN t PROVE ~t[k].fresh
      <4>1. k \in 1..Len(t) /\ k + 1 \in DOMAIN flight
        BY <1>1, <1>2
      <4>2. QED
        BY <1>2, <2>1, <2>3, <4>1 DEF Grid
    <3>3. QED
      BY <1>3, <2>3, <3>1, <3>2 DEF Grid
  <2>4. CASE mode = "sens"
    <3>0. Len(flight) = 2
      BY <1>3, <2>4, Zenon
    <3>1. Len(flight) = 2 /\ Len(t) = 1
      BY <1>2, <3>0
    <3>2. t[1] = flight[1 + 1]
      BY <1>2, <3>1
    <3>3. t[Len(t)] = flight[Len(flight)]
      BY <3>1, <3>2
    <3>4. QED
      BY <1>3, <2>1, <2>4, <3>1, <3>3 DEF Grid
  <2>5. QED
    BY <1>1, <2>2, <2>3, <2>4
<1>4. ASSUME mode = "sens"
      PROVE  /\ timers # {}
             /\ IF r.src = Vref THEN Len(flight) = 2
                ELSE Len(flight) = 1 /\ r.src = SensIn /\ r.by = "sens" /\ vref
  <2>1. timers # {} /\ Grid("sens", index, flight, vref)
    BY <1>4 DEF GridInv
  <2>2. Len(flight) \in {1, 2} /\ (r.src = Vref <=> (Len(flight) - 1) % 2 = 1)
    BY <1>1, <2>1 DEF Grid, Pairs
  <2>3. CASE Len(flight) = 2
    <3>1. r.src = Vref
      BY <2>2, <2>3
    <3>2. QED
      BY <2>1, <2>3, <3>1
  <2>4. CASE Len(flight) = 1
    <3>1. r.src # Vref
      BY <2>2, <2>4
    <3>2. QED
      BY <1>1, <2>1, <2>4, <3>1 DEF Grid
  <2>5. QED
    BY <2>2, <2>3, <2>4
<1>5. CASE VrefResult(r)
  <2>1. /\ r.src = Vref /\ vref' = TRUE /\ flight' = t /\ fed' = fed
        /\ mode' = mode /\ index' = index
    BY <1>5 DEF VrefResult, t
  <2>2. timers # {} => Grid(mode', index', flight', vref')
    BY <1>3, <1>4, <2>1
  <2>3. QED
    BY <1>1, <2>1, <2>2 DEF GridInv, VitalsOnGrid
<1>6. CASE SensResult(r)
  <2>1. /\ mode = "sens" /\ r.src = SensIn /\ mode' = "idle" /\ flight' = t
        /\ fed' = [scale |-> Scaled, by |-> r.by]
    BY <1>6 DEF SensResult, t
  <2>2. r.src # Vref
    BY <2>1, AdcAssumption DEF SensIn, Vref
  <2>3. Len(flight) = 1 /\ r.by = "sens" /\ vref
    BY <1>4, <2>1, <2>2
  <2>4. Len(t) = 0
    BY <1>2, <2>3
  <2>5. Grid(mode', index', flight', vref')
    <3>1. \A k \in DOMAIN t : ~t[k].fresh
      BY <1>2, <2>4
    <3>2. QED
      BY <2>1, <2>4, <3>1, AdcAssumption DEF Grid
  <2>6. VitalsOnGrid'
    BY <2>1, <2>3 DEF VitalsOnGrid, Scaled
  <2>7. QED
    BY <2>1, <2>5, <2>6
<1>7. CASE FullResult(r)
  <2>1. /\ mode = "full" /\ index < Channels /\ r.src = index /\ index' = index + 1
        /\ RequestNextFull(index + 1, Tail(flight)) /\ vref' = vref /\ fed' = fed
    BY <1>7 DEF FullResult
  <2>2. index \in Indices
    BY <1>1, <2>1, AdcAssumption DEF Indices
  <2>3. timers # {} => Grid(mode', index', flight', vref')
    BY <1>1, <2>1, <2>2, ScanAdvances DEF GridInv
  <2>4. mode' # "sens"
    BY <2>1 DEF RequestNextFull
  <2>5. QED
    BY <1>1, <2>1, <2>3, <2>4 DEF GridInv, VitalsOnGrid
<1>8. CASE IgnoredResult(r)
  <2>1. /\ r.src # Vref /\ ~(mode = "sens" /\ r.src = SensIn) /\ flight' = t
        /\ fed' = fed /\ mode' = mode /\ index' = index /\ vref' = vref
    BY <1>8 DEF IgnoredResult, t
  <2>2. mode # "sens"
    BY <1>4, <2>1
  <2>3. timers # {} => Grid(mode', index', flight', vref')
    BY <1>3, <2>1, <2>2
  <2>4. QED
    BY <1>1, <2>1, <2>2, <2>3 DEF GridInv, VitalsOnGrid
<1>9. QED
  BY <1>5, <1>6, <1>7, <1>8 DEF AdcResult

\* A scan or a tick that a trigger or a poll starts, or not.
LEMMA RequestGrid ==
    ASSUME GridInv, timers' = timers, vref' = vref, fed' = fed,
           \/ AdcRequestScan
           \/ AdcRequestSensIn /\ Due("sens")
    PROVE  /\ mode' = "sens" => timers' # {}
           /\ timers' # {} => Grid(mode', index', flight', vref')
           /\ VitalsOnGrid'
<1>1. VitalsOnGrid' /\ flight \in Seq(Results)
  BY DEF GridInv, VitalsOnGrid, PairInv, Inv, TypeOK
<1>2. CASE mode # "idle"
  <2>1. UNCHANGED <<mode, index, flight>>
    BY <1>2 DEF AdcRequestScan, AdcRequestSensIn
  <2>2. QED
    BY <1>1, <2>1 DEF GridInv
<1>3. CASE mode = "idle" /\ AdcRequestScan
  <2>1. index' = 0 /\ RequestNextFull(0, flight)
    BY <1>3 DEF AdcRequestScan
  <2>2. mode' # "sens"
    BY <2>1 DEF RequestNextFull
  <2>3. ASSUME timers # {} PROVE Grid(mode', index', flight', vref')
    <3>1. Len(flight) <= FlightMax /\ \A k \in DOMAIN flight : ~flight[k].fresh
      BY <1>3, <2>3 DEF GridInv, Grid
    <3>2. QED
      BY <1>1, <2>1, <3>1, ScanStarts
  <2>4. QED
    BY <1>1, <2>2, <2>3
<1>4. CASE mode = "idle" /\ AdcRequestSensIn /\ Due("sens")
  <2>1. /\ timers # {} /\ mode' = "sens"
        /\ flight' = flight \o Asked(SensIn, "sens")
    BY <1>4 DEF AdcRequestSensIn, Due
  <2>2. flight = <<>>
    <3>1. \A k \in DOMAIN flight : flight[k].fresh /\ ~flight[k].fresh
      BY <1>4, <2>1 DEF Due, GridInv, Grid
    <3>2. QED
      BY <1>1, <3>1
  <2>3. SensIn \in 0..Channels
    BY AdcAssumption DEF SensIn
  <2>4. /\ Len(flight') = Len(flight) + 2
        /\ flight'[Len(flight) + 2] = [src |-> SensIn, by |-> "sens", fresh |-> TRUE]
    BY <1>1, <2>1, <2>3, AskedPair
  <2>5. Len(flight') = 2 /\ flight'[2].src = SensIn /\ flight'[2].by = "sens"
    BY <2>2, <2>4
  <2>6. Grid(mode', index', flight', vref')
    BY <2>1, <2>5 DEF Grid
  <2>7. QED
    BY <1>1, <2>1, <2>6
<1>5. QED
  BY <1>2, <1>3, <1>4

\* Every step keeps the vitals on their grid.
LEMMA NextGridInv ==
    GridInv /\ [Next]_vars => GridInv'
<1> SUFFICES ASSUME GridInv, [Next]_vars
             PROVE  /\ mode' = "sens" => timers' # {}
                    /\ timers' # {} => Grid(mode', index', flight', vref')
                    /\ VitalsOnGrid'
  BY NextPairInv DEF GridInv
<1>0. flight \in Seq(Results) /\ Pairs(flight)
  BY DEF GridInv, PairInv, Inv, TypeOK
<1>1. /\ Stale(flight) \in Seq(Results) /\ Len(Stale(flight)) = Len(flight)
      /\ \A k \in DOMAIN Stale(flight) : ~Stale(flight)[k].fresh
  BY <1>0, StalePairs
<1>2. ASSUME NEW ok \in BOOLEAN, SmartHelmetInit(ok)
      PROVE  /\ mode' = "sens" => timers' # {}
             /\ timers' # {} => Grid(mode', index', flight', vref')
             /\ VitalsOnGrid'
  <2>1. VitalsOnGrid'
    BY <1>2 DEF SmartHelmetInit, GridInv, VitalsOnGrid
  <2>2. CASE ok
    <3>1. mode' = "idle" /\ flight' = Stale(flight) /\ Len(flight) <= FlightMax
      BY <1>2, <2>2 DEF SmartHelmetInit
    <3>2. Grid(mode', index', flight', vref')
      BY <1>1, <3>1 DEF Grid
    <3>3. QED
      BY <2>1, <3>1, <3>2
  <2>3. CASE ~ok /\ ready
    BY <1>2, <2>1, <2>3 DEF SmartHelmetInit
  <2>4. CASE ~ok /\ ~ready
    BY <1>2, <2>1, <2>4 DEF SmartHelmetInit, GridInv
  <2>5. QED
    BY <2>2, <2>3, <2>4 DEF GridInv, PairInv, Inv, TypeOK
<1>3. CASE PowerOn
  <2>1. /\ RequestNextFull(0, Stale(flight)) /\ Len(Stale(flight)) <= FlightMax
        /\ index' = 0 /\ fed' = fed
    BY <1>1, <1>3 DEF PowerOn
  <2>2. Grid(mode', index', flight', vref') /\ mode' # "sens"
    BY <1>1, <2>1, ScanStarts
  <2>3. QED
    BY <2>1, <2>2 DEF GridInv, VitalsOnGrid
<1>4. CASE PowerOff
  BY <1>4 DEF PowerOff, GridInv, VitalsOnGrid
<1>5. CASE GasTrigger \/ PollSensors
  BY <1>5, RequestGrid DEF GasTrigger, PollSensors
<1>6. CASE SensTrigger
  BY <1>6, RequestGrid DEF SensTrigger
<1>7. CASE AdcResult
  BY <1>7, ResultGrid
<1>8. CASE UNCHANGED vars
  BY <1>8 DEF vars, GridInv, VitalsOnGrid
<1>9. QED
  BY <1>2, <1>3, <1>4, <1>5, <1>6, <1>7, <1>8 DEF Next

\* The grid is empty when the chip boots.
LEMMA InitGridInv ==
    Init => GridInv
  BY InitPairInv DEF Init, GridInv, VitalsOnGrid

\* SmartHelmet_AdcHandleMessage feeds the vitals only the SENS_IN conversions
\* their 40 ms tick asked for, scaled by a reference, as long as a power change
\* overtakes less than one whole scan.
THEOREM VitalsStayOnGrid == Spec => []VitalsOnGrid
<1>1. GridInv => VitalsOnGrid
  BY DEF GridInv
<1>2. QED
  BY <1>1, InitGridInv, NextGridInv, PTL DEF Spec

-----------------------------------------------------------------------------
(* The gas fields.                                                         *)

\* The gas record of one of the three channels.
GasType ==
    /\ gas.ch \in Indices \ {SensIn}
    /\ DOMAIN gas = {"ch", "mv", "r0", "taken", "said"}

GasInv == PairInv /\ GasType /\ ReadingsAreScaled

\* A report changes R0 only by taking a usable reading, and what was said.
LEMMA ReportedGas ==
    ASSUME NEW g, DOMAIN g = {"ch", "mv", "r0", "taken", "said"}
    PROVE  LET y == Reported(g)
           IN  /\ DOMAIN y = DOMAIN g /\ y.ch = g.ch /\ y.mv = g.mv
               /\ \/ y.r0 = g.r0 /\ y.taken = g.taken
                  \/ Usable(g.mv) /\ y.r0 = g.mv /\ y.taken = sample[g.ch]
<1> DEFINE l == Latched(g)
<1>1. /\ DOMAIN l = DOMAIN g /\ l.ch = g.ch /\ l.mv = g.mv
      /\ \/ l.r0 = g.r0 /\ l.taken = g.taken
         \/ Usable(g.mv) /\ l.r0 = g.mv /\ l.taken = sample[g.ch]
  BY DEF Latched
<1> DEFINE s == [mv |-> l.mv, r0 |-> IF l.r0 = 0 THEN l.mv ELSE l.r0,
                 value |-> Ppm(l.ch, shGasRatioX100(l.mv, IF l.r0 = 0 THEN l.mv ELSE l.r0))]
<1>2. Reported(g) = [l EXCEPT !.said = s]
  BY DEF Reported
<1> HIDE DEF l, s
<1>3. QED
  BY <1>1, <1>2

\* A report over readings that are scaled latches none that is not.
LEMMA ReportScaled ==
    ASSUME NEW g, DOMAIN g = {"ch", "mv", "r0", "taken", "said"},
           g.mv # 0 => sample[g.ch] = "mv",
           g.r0 # 0 => Usable(g.r0) /\ g.taken = "mv"
    PROVE  LET y == Reported(g)
           IN  /\ DOMAIN y = DOMAIN g /\ y.ch = g.ch /\ y.mv = g.mv
               /\ y.r0 # 0 => Usable(y.r0) /\ y.taken = "mv"
<1> DEFINE y == Reported(g)
<1>1. /\ DOMAIN y = DOMAIN g /\ y.ch = g.ch /\ y.mv = g.mv
      /\ \/ y.r0 = g.r0 /\ y.taken = g.taken
         \/ Usable(g.mv) /\ y.r0 = g.mv /\ y.taken = sample[g.ch]
  BY ReportedGas
<1> HIDE DEF y
<1>2. ASSUME Usable(g.mv) PROVE g.mv # 0
  BY <1>2 DEF Usable
<1>3. QED
  BY <1>1, <1>2 DEF y

\* A result stored in the followed channel is scaled by a reference, since the
\* channel is not the first of the scan; no other result touches the channel.
LEMMA ResultScaled ==
    ASSUME PairInv, AdcResult, NEW ch \in Indices \ {SensIn}
    PROVE  IF mode = "full" /\ index = ch /\ Head(flight).src = index
           THEN sample'[ch] = "mv" ELSE sample'[ch] = sample[ch]
<1> DEFINE r == Head(flight)
<1>1. /\ flight \in Seq(Results) /\ flight # <<>> /\ r = flight[1]
      /\ sample \in [Indices -> Scalings] /\ index \in 0..Channels
      /\ ch \in Indices /\ ch # SensIn
  BY DEF AdcResult, PairInv, Inv, TypeOK
<1>2. CASE VrefResult(r)
  BY <1>1, <1>2, AdcAssumption DEF VrefResult, Vref, Indices
<1>3. CASE SensResult(r)
  BY <1>1, <1>3 DEF SensResult
<1>4. CASE FullResult(r)
  <2>1. index = ch => vref
    BY <1>1, <1>4, AdcAssumption DEF FullResult, PairInv, RawOnlyFirst, Vref, SensIn, Indices
  <2>2. /\ mode = "full" /\ r.src = index
        /\ sample' = [sample EXCEPT ![index] = Scaled]
    BY <1>4 DEF FullResult
  <2>3. CASE index = ch
    BY <1>1, <2>1, <2>2, <2>3 DEF Scaled
  <2>4. CASE index # ch
    BY <1>1, <2>2, <2>4
  <2>5. QED
    BY <2>3, <2>4
<1>5. CASE IgnoredResult(r)
  BY <1>1, <1>5, AdcAssumption DEF IgnoredResult, Indices
<1>6. QED
  BY <1>2, <1>3, <1>4, <1>5 DEF AdcResult

\* A step of the composition is a step of the front end, or leaves it alone.
LEMMA GasStepsAreSteps ==
    [GasNext]_gasVars => [Next]_vars
  BY DEF GasNext, gasVars, vars, GasInit, GasPowerOn, GasResult, GasReportTick,
         AdcOnly, Next

\* The front end under the gas fields is the one that the earlier theorems are
\* about, so they hold of the composition too.
THEOREM GasFrontEnd == GasSpec => Spec
<1>1. GasStart => Init
  BY DEF GasStart
<1>2. QED
  BY <1>1, GasStepsAreSteps, PTL DEF GasSpec, Spec

\* Every step keeps the readings scaled.
LEMMA NextGasInv ==
    GasInv /\ [GasNext]_gasVars => GasInv'
<1> SUFFICES ASSUME GasInv, [GasNext]_gasVars
             PROVE  GasType' /\ ReadingsAreScaled'
  BY GasStepsAreSteps, NextPairInv DEF GasInv
<1> DEFINE c == gas.ch
           h == [gas EXCEPT !.mv = 0]
<1>1. /\ c \in Indices \ {SensIn} /\ DOMAIN gas = {"ch", "mv", "r0", "taken", "said"}
      /\ gas.mv # 0 => sample[c] = "mv"
      /\ gas.r0 # 0 => Usable(gas.r0) /\ gas.taken = "mv"
  BY DEF GasInv, GasType, ReadingsAreScaled
<1>2. /\ DOMAIN h = DOMAIN gas /\ h.ch = c /\ h.mv = 0 /\ h.r0 = gas.r0
      /\ h.taken = gas.taken
  BY <1>1
<1> HIDE DEF h
<1>3. ASSUME NEW ok \in BOOLEAN, GasInit(ok)
      PROVE  GasType' /\ ReadingsAreScaled'
  <2>1. CASE ok
    BY <1>1, <1>2, <1>3, <2>1 DEF GasInit, GasType, ReadingsAreScaled, h
  <2>2. CASE ~ok
    <3>1. gas' = gas /\ sample' = sample
      BY <1>3, <2>2 DEF GasInit, SmartHelmetInit
    <3>2. QED
      BY <1>1, <3>1 DEF GasType, ReadingsAreScaled
  <2>3. QED
    BY <2>1, <2>2
<1>4. CASE GasPowerOn
  <2>1. gas' = Reported(h)
    BY <1>4 DEF GasPowerOn, h
  <2>2. /\ DOMAIN gas' = DOMAIN h /\ gas'.ch = h.ch /\ gas'.mv = h.mv
        /\ gas'.r0 # 0 => Usable(gas'.r0) /\ gas'.taken = "mv"
    BY <1>1, <1>2, <2>1, ReportScaled
  <2>3. QED
    BY <1>1, <1>2, <2>2 DEF GasType, ReadingsAreScaled
<1>5. CASE GasResult
  <2>1. IF mode = "full" /\ index = c /\ Head(flight).src = index
        THEN sample'[c] = "mv" ELSE sample'[c] = sample[c]
    BY <1>1, <1>5, ResultScaled DEF GasResult, GasInv
  <2>2. CASE mode = "full" /\ index = c /\ Head(flight).src = index
    <3>1. PICK mv \in Millivolts : gas' = [gas EXCEPT !.mv = mv]
      BY <1>5, <2>2 DEF GasResult
    <3>2. /\ DOMAIN gas' = DOMAIN gas /\ gas'.ch = c /\ gas'.r0 = gas.r0
          /\ gas'.taken = gas.taken
      BY <1>1, <3>1
    <3>3. QED
      BY <1>1, <2>1, <2>2, <3>2 DEF GasType, ReadingsAreScaled
  <2>3. CASE ~(mode = "full" /\ index = c /\ Head(flight).src = index)
    <3>1. gas' = gas /\ sample'[c] = sample[c]
      BY <1>5, <2>1, <2>3 DEF GasResult
    <3>2. QED
      BY <1>1, <3>1 DEF GasType, ReadingsAreScaled
  <2>4. QED
    BY <2>2, <2>3
<1>6. CASE GasReportTick
  <2>1. gas' = Reported(gas) /\ sample' = sample
    BY <1>6 DEF GasReportTick, vars
  <2>2. /\ DOMAIN gas' = DOMAIN gas /\ gas'.ch = c /\ gas'.mv = gas.mv
        /\ gas'.r0 # 0 => Usable(gas'.r0) /\ gas'.taken = "mv"
    BY <1>1, <2>1, ReportScaled
  <2>3. QED
    BY <1>1, <2>1, <2>2 DEF GasType, ReadingsAreScaled
<1>7. CASE AdcOnly \/ UNCHANGED gasVars
  <2>1. gas' = gas /\ sample' = sample
    BY <1>7 DEF AdcOnly, PowerOff, GasTrigger, SensTrigger, PollSensors, gasVars, vars
  <2>2. QED
    BY <1>1, <2>1 DEF GasType, ReadingsAreScaled
<1>8. QED
  BY <1>3, <1>4, <1>5, <1>6, <1>7 DEF GasNext

\* No reading is stored when the chip boots.
LEMMA InitGasInv ==
    GasStart => GasInv
  BY InitPairInv DEF GasStart, GasInv, GasType, ReadingsAreScaled

\* shGasValue never latches a raw count or a cleared sample as the clean-air
\* reference, and no report is built from one, whatever results a power cycle
\* overtakes and however many of them.
THEOREM ReadingsStayScaled == GasSpec => []ReadingsAreScaled
<1>1. GasInv => ReadingsAreScaled
  BY DEF GasInv
<1>2. QED
  BY <1>1, InitGasInv, NextGasInv, PTL DEF GasSpec

-----------------------------------------------------------------------------
(* The bands.                                                              *)

\* What an integer division leaves.
LEMMA DivBounds ==
    ASSUME NEW a \in Nat, NEW b \in Nat \ {0}
    PROVE  LET q == a \div b IN q \in Nat /\ b * q <= a /\ a < b * (q + 1)
  BY SMTT(30)

\* x and y are A/m and B/r rounded down to thousandths, q their ratio rounded
\* down to hundredths, and d the whole thousands of r: the rounded ratio is
\* below 5f per cent when the exact one is, with B smaller by 1 + d.
LEMMA RoundedBelow ==
    ASSUME NEW A \in Nat, NEW B \in Nat, NEW m \in Nat \ {0}, NEW r \in Nat \ {0},
           NEW x \in Nat, NEW y \in Nat \ {0}, NEW q \in Nat, NEW d \in Nat, NEW f \in Nat,
           m * x <= 1000 * A, 1000 * B < r * (y + 1), y * q <= 100 * x,
           r < 1000 * (d + 1),
           20 * A * r < f * (B - 1 - d) * m
    PROVE  q < 5 * f
  BY SMTT(60)

\* And it is no less than 5f per cent when the exact one is not, with A smaller
\* by 1 + d, where d is the whole thousands of m.
LEMMA RoundedAtLeast ==
    ASSUME NEW A \in Nat, NEW B \in Nat, NEW m \in Nat \ {0}, NEW r \in Nat \ {0},
           NEW x \in Nat, NEW y \in Nat \ {0}, NEW q \in Nat, NEW d \in Nat, NEW f \in Nat,
           1000 * A < m * (x + 1), r * y <= 1000 * B, 100 * x < y * (q + 1),
           m < 1000 * (d + 1),
           20 * (A - 1 - d) * r >= f * B * m
    PROVE  q >= 5 * f
  BY SMTT(60)

\* A usable reading leaves a voltage on both sides of the divider.
LEMMA UsableRange ==
    ASSUME NEW m \in 0..(2^16 - 1), Usable(m)
    PROVE  m \in Nat \ {0} /\ Vcc - m \in Nat \ {0}
<1> DEFINE top == 2^16 - 1
<1>1. Vcc \in 51..top /\ m \in 0..top
  BY GasAssumption, Zenon
<1> HIDE DEF top
<1>2. Vcc \in Int /\ m \in Int
  BY <1>1
<1>3. m >= 50 /\ m < Vcc
  BY DEF Usable
<1>4. QED
  BY <1>2, <1>3

\* A resistance, as what the division leaves.
LEMMA ResistanceBounds ==
    ASSUME NEW m \in Nat \ {0}, Vcc - m \in Nat
    PROVE  LET x == Resistance(m)
           IN  x \in Nat /\ m * x <= 1000 * (Vcc - m) /\ 1000 * (Vcc - m) < m * (x + 1)
<1> DEFINE A == Vcc - m
           a == A * 1000
<1>1. a \in Nat /\ a = 1000 * A
  <2>1. A \in Nat
    OBVIOUS
  <2> HIDE DEF A
  <2>2. QED
    BY <2>1
<1> HIDE DEF a
<1>2. a \div m \in Nat /\ m * (a \div m) <= a /\ a < m * ((a \div m) + 1)
  BY <1>1, DivBounds
<1>3. Resistance(m) = a \div m
  BY DEF Resistance, a
<1>4. QED
  BY <1>1, <1>2, <1>3

\* x and y are A/m and B/r in thousandths, q their ratio in hundredths, rounded down.
Rounded(m, r, A, B, x, y, q) ==
    /\ m \in Nat \ {0} /\ r \in Nat \ {0} /\ A \in Nat /\ B \in Nat
    /\ x \in Nat /\ y \in Nat \ {0} /\ q \in Nat
    /\ m * x <= 1000 * A /\ 1000 * A < m * (x + 1)
    /\ r * y <= 1000 * B /\ 1000 * B < r * (y + 1)
    /\ y * q <= 100 * x /\ 100 * x < y * (q + 1)

\* The two resistances of shGasRatioX100 and the ratio it returns.
LEMMA RatioBounds ==
    ASSUME NEW m \in 0..(2^16 - 1), NEW r \in 0..(2^16 - 1), Usable(m), Usable(r),
           Resistance(r) # 0, (Resistance(m) * 100) \div Resistance(r) < 2^16
    PROVE  Rounded(m, r, Vcc - m, Vcc - r, Resistance(m), Resistance(r), shGasRatioX100(m, r))
<1> DEFINE x == Resistance(m)
           y == Resistance(r)
           q == (x * 100) \div y
<1>1. m \in Nat \ {0} /\ r \in Nat \ {0} /\ Vcc - m \in Nat /\ Vcc - r \in Nat
  BY UsableRange
<1>2. x \in Nat /\ m * x <= 1000 * (Vcc - m) /\ 1000 * (Vcc - m) < m * (x + 1)
  BY <1>1, ResistanceBounds
<1>3. y \in Nat /\ r * y <= 1000 * (Vcc - r) /\ 1000 * (Vcc - r) < r * (y + 1)
  BY <1>1, ResistanceBounds
<1>4. x \in Nat /\ y \in Nat \ {0} /\ q < 2^16
  BY <1>2, <1>3
<1> HIDE DEF x, y
<1>5. q \in Nat /\ y * q <= x * 100 /\ x * 100 < y * (q + 1)
  BY <1>4, DivBounds
<1>6. shGasRatioX100(m, r) = q % 2^16
  BY DEF shGasRatioX100, x, y
<1> HIDE DEF q
<1>7. shGasRatioX100(m, r) = q
  BY <1>4, <1>5, <1>6
<1>8. QED
  BY <1>1, <1>2, <1>3, <1>4, <1>5, <1>7 DEF Rounded, x, y

\* shGasRatioX100 is below an edge, or not, when the exact ratio is.
LEMMA RatioFollows ==
    ASSUME NEW m \in 0..(2^16 - 1), NEW r \in 0..(2^16 - 1), Usable(m), Usable(r),
           Resistance(r) # 0, (Resistance(m) * 100) \div Resistance(r) < 2^16,
           NEW f \in Nat
    PROVE  /\ Below(m, r, 5 * f) => shGasRatioX100(m, r) < 5 * f
           /\ AtLeast(m, r, 5 * f) => shGasRatioX100(m, r) >= 5 * f
<1> DEFINE x == Resistance(m)
           y == Resistance(r)
           q == shGasRatioX100(m, r)
           A == Vcc - m
           B == Vcc - r
           d == m \div 1000
           c == r \div 1000
<1>1. Rounded(m, r, A, B, x, y, q)
  BY RatioBounds
<1>2. c \in Nat /\ r < 1000 * (c + 1) /\ d \in Nat /\ m < 1000 * (d + 1)
  BY <1>1
<1>3. (5 * f) \div 5 = f
  OBVIOUS
<1>4. Below(m, r, 5 * f) <=> 20 * A * r < f * (B - 1 - c) * m
  BY <1>3 DEF Below
<1>5. AtLeast(m, r, 5 * f) <=> 20 * (A - 1 - d) * r >= f * B * m
  BY <1>3 DEF AtLeast
<1> HIDE DEF x, y, q, A, B, c, d
<1>6. ASSUME 20 * A * r < f * (B - 1 - c) * m PROVE q < 5 * f
  BY <1>1, <1>2, <1>6, RoundedBelow DEF Rounded
<1>7. ASSUME 20 * (A - 1 - d) * r >= f * B * m PROVE q >= 5 * f
  BY <1>1, <1>2, <1>7, RoundedAtLeast DEF Rounded
<1>8. QED
  BY <1>4, <1>5, <1>6, <1>7 DEF q

\* The tables: the edges move away from clean air and the values grow.
Sorted(t, rises, beyond) ==
    /\ DOMAIN t \in {1..4, 1..5} /\ beyond \in Nat
    /\ \A i \in DOMAIN t : /\ t[i].value \in Nat /\ t[i].value < beyond
                           /\ t[i].edge \in Nat
                           /\ t[i].edge = 5 * (t[i].edge \div 5)
    /\ \A i, j \in DOMAIN t :
          i < j => /\ t[i].value < t[j].value
                   /\ IF rises THEN t[i].edge < t[j].edge ELSE t[i].edge > t[j].edge

LEMMA TableSorted ==
    ASSUME NEW ch \in 1..3
    PROVE  Sorted(Table(ch), Rises(ch), Beyond(ch))
<1>1. CASE ch = 1
  <2> DEFINE t == <<[edge |-> 80, value |-> 1], [edge |-> 40, value |-> 10],
                    [edge |-> 20, value |-> 40], [edge |-> 10, value |-> 120],
                    [edge |-> 5, value |-> 400]>>
  <2>1. /\ DOMAIN t = 1..5
        /\ t[1].edge = 80 /\ t[2].edge = 40 /\ t[3].edge = 20 /\ t[4].edge = 10
        /\ t[5].edge = 5
        /\ t[1].value = 1 /\ t[2].value = 10 /\ t[3].value = 40 /\ t[4].value = 120
        /\ t[5].value = 400
    OBVIOUS
  <2>2. Table(ch) = t /\ ~Rises(ch) /\ Beyond(ch) = 1000
    BY <1>1 DEF Table, Rises, Beyond
  <2> HIDE DEF t
  <2>3. ASSUME NEW i \in DOMAIN t
        PROVE  /\ t[i].value \in Nat /\ t[i].value < 1000
               /\ t[i].edge \in Nat /\ t[i].edge = 5 * (t[i].edge \div 5)
    <3>1. i \in {1, 2, 3, 4, 5}
      BY <2>1
    <3>2. QED
      BY <2>1, <3>1
  <2>4. ASSUME NEW i \in DOMAIN t, NEW j \in DOMAIN t, i < j
        PROVE  t[i].value < t[j].value /\ t[i].edge > t[j].edge
    <3>1. i \in {1, 2, 3, 4, 5} /\ j \in {1, 2, 3, 4, 5}
      BY <2>1
    <3>2. QED
      BY <2>1, <2>4, <3>1
  <2>5. Sorted(t, FALSE, 1000)
    <3>1. DOMAIN t \in {1..4, 1..5} /\ 1000 \in Nat
      BY <2>1
    <3>2. QED
      BY <2>3, <2>4, <3>1 DEF Sorted
  <2>6. Rises(ch) = FALSE
    BY <1>1 DEF Rises
  <2>7. QED
    BY <2>2, <2>5, <2>6
<1>2. CASE ch = 2
  <2> DEFINE t == <<[edge |-> 80, value |-> 1], [edge |-> 40, value |-> 15],
                    [edge |-> 20, value |-> 60], [edge |-> 10, value |-> 180]>>
  <2>1. /\ DOMAIN t = 1..4
        /\ t[1].edge = 80 /\ t[2].edge = 40 /\ t[3].edge = 20 /\ t[4].edge = 10
        /\ t[1].value = 1 /\ t[2].value = 15 /\ t[3].value = 60 /\ t[4].value = 180
    OBVIOUS
  <2>2. Table(ch) = t /\ ~Rises(ch) /\ Beyond(ch) = 500
    BY <1>2 DEF Table, Rises, Beyond
  <2> HIDE DEF t
  <2>3. QED
    BY <2>1, <2>2 DEF Sorted
<1>3. CASE ch = 3
  <2> DEFINE t == <<[edge |-> 120, value |-> 5], [edge |-> 200, value |-> 25],
                    [edge |-> 400, value |-> 100], [edge |-> 800, value |-> 400]>>
  <2>1. /\ DOMAIN t = 1..4
        /\ t[1].edge = 120 /\ t[2].edge = 200 /\ t[3].edge = 400 /\ t[4].edge = 800
        /\ t[1].value = 5 /\ t[2].value = 25 /\ t[3].value = 100 /\ t[4].value = 400
    OBVIOUS
  <2>2. Table(ch) = t /\ Rises(ch) /\ Beyond(ch) = 1000
    BY <1>3 DEF Table, Rises, Beyond
  <2> HIDE DEF t
  <2>3. QED
    BY <2>1, <2>2 DEF Sorted
<1>4. QED
  BY <1>1, <1>2, <1>3

\* The edge is on the clean side of the ratio, or the ratio on it.
Within(t, rises, ratio, i) ==
    IF rises THEN ratio <= t[i].edge ELSE ratio >= t[i].edge

\* A set of rows has a first one.
LEMMA FirstRow ==
    ASSUME NEW w \in SUBSET (1..5), w # {}
    PROVE  \E i \in w : \A j \in w : i <= j
<1>1. \A i \in w : i \in {1, 2, 3, 4, 5}
  OBVIOUS
<1>2. CASE 1 \in w
  BY <1>1, <1>2
<1>3. CASE 1 \notin w /\ 2 \in w
  BY <1>1, <1>3
<1>4. CASE 1 \notin w /\ 2 \notin w /\ 3 \in w
  BY <1>1, <1>4
<1>5. CASE 1 \notin w /\ 2 \notin w /\ 3 \notin w /\ 4 \in w
  BY <1>1, <1>5
<1>6. CASE 1 \notin w /\ 2 \notin w /\ 3 \notin w /\ 4 \notin w
  <2>1. \A j \in w : j = 5
    BY <1>1, <1>6
  <2>2. PICK i \in w : TRUE
    OBVIOUS
  <2>3. QED
    BY <2>1, <2>2
<1>7. QED
  BY <1>2, <1>3, <1>4, <1>5, <1>6

\* shCoPpm, shNh3Ppm and shNo2PpmX100 order the bands as the tables do: a row
\* that the ratio is within bounds the value, one that it is past is exceeded.
LEMMA PpmOrdered ==
    ASSUME NEW ch \in 1..3, NEW ratio \in Nat, NEW i \in DOMAIN Table(ch)
    PROVE  IF Within(Table(ch), Rises(ch), ratio, i) THEN Ppm(ch, ratio) <= Table(ch)[i].value
           ELSE Ppm(ch, ratio) > Table(ch)[i].value
<1> DEFINE t == Table(ch)
           b == Beyond(ch)
           p == Ppm(ch, ratio)
           w == {j \in DOMAIN t : Within(t, Rises(ch), ratio, j)}
           c == CHOOSE k \in w : \A j \in w : k <= j
<1>1. Sorted(t, Rises(ch), b) /\ Rises(ch) \in BOOLEAN
  BY TableSorted DEF Rises
<1>2. p = IF w = {} THEN b ELSE t[c].value
  BY DEF Ppm, Within
<1> HIDE DEF t, b, p
<1>3. DOMAIN t \subseteq 1..5 /\ w \in SUBSET (1..5)
  BY <1>1 DEF Sorted
<1>4. CASE w = {}
  BY <1>1, <1>2, <1>4 DEF Sorted, t, p
<1>5. CASE w # {}
  <2>1. c \in w /\ \A j \in w : c <= j
    BY <1>3, <1>5, FirstRow
  <2>2. p = t[c].value /\ c \in DOMAIN t /\ i \in DOMAIN t
    BY <1>2, <1>5, <2>1 DEF t
  <2> HIDE DEF c
  <2>3. CASE Within(t, Rises(ch), ratio, i)
    <3>1. c <= i
      BY <2>1, <2>2, <2>3
    <3>2. c = i \/ c < i
      BY <1>3, <2>2, <3>1
    <3>3. p <= t[i].value
      BY <1>1, <2>2, <3>2 DEF Sorted
    <3>4. QED
      BY <2>3, <3>3 DEF t, p
  <2>4. CASE ~Within(t, Rises(ch), ratio, i)
    <3>1. Within(t, Rises(ch), ratio, c)
      BY <2>1
    <3>2. t[i].edge \in Nat /\ t[c].edge \in Nat /\ c # i
      BY <1>1, <2>2, <2>4, <3>1 DEF Sorted
    <3>3. ~(c < i)
      <4>1. SUFFICES ASSUME c < i PROVE FALSE
        OBVIOUS
      <4>2. IF Rises(ch) THEN t[c].edge < t[i].edge ELSE t[c].edge > t[i].edge
        BY <1>1, <2>2, <4>1 DEF Sorted
      <4>3. QED
        BY <1>1, <2>4, <3>1, <3>2, <4>2 DEF Within
    <3>4. i < c
      BY <1>3, <2>2, <3>2, <3>3
    <3>5. p > t[i].value
      BY <1>1, <2>2, <3>4 DEF Sorted
    <3>6. QED
      BY <2>4, <3>5 DEF t, p
  <2>5. QED
    BY <2>3, <2>4
<1>6. QED
  BY <1>4, <1>5

\* What the last report said is the band of the ratio it was built from.
SaidInv ==
    /\ gas.mv \in 0..(2^16 - 1) /\ gas.r0 \in 0..(2^16 - 1)
    /\ gas.said.mv \in 0..(2^16 - 1) /\ gas.said.r0 \in 0..(2^16 - 1)
    /\ Usable(gas.said.mv) =>
          gas.said.value = Ppm(gas.ch, shGasRatioX100(gas.said.mv, gas.said.r0))

\* A report says the band of the ratio of its reading to R0.
LEMMA ReportSays ==
    ASSUME NEW g, DOMAIN g = {"ch", "mv", "r0", "taken", "said"},
           g.mv \in 0..(2^16 - 1), g.r0 \in 0..(2^16 - 1)
    PROVE  LET y == Reported(g)
           IN  /\ y.r0 \in 0..(2^16 - 1)
               /\ y.said.mv \in 0..(2^16 - 1) /\ y.said.r0 \in 0..(2^16 - 1)
               /\ y.said.value = Ppm(y.ch, shGasRatioX100(y.said.mv, y.said.r0))
<1> DEFINE l == Latched(g)
           z == IF l.r0 = 0 THEN l.mv ELSE l.r0
           v == Ppm(l.ch, shGasRatioX100(l.mv, z))
           s == [mv |-> l.mv, r0 |-> z, value |-> v]
           y == Reported(g)
<1>1. DOMAIN l = DOMAIN g /\ l.mv = g.mv /\ l.r0 \in {g.r0, g.mv}
  BY DEF Latched
<1>2. y = [l EXCEPT !.said = s]
  BY DEF Reported
<1> HIDE DEF l, y
<1>3. z \in 0..(2^16 - 1) /\ l.r0 \in 0..(2^16 - 1) /\ l.mv \in 0..(2^16 - 1)
  BY <1>1
<1>4. s.mv = l.mv /\ s.r0 = z /\ s.value = v
  OBVIOUS
<1> HIDE DEF z, s
<1>5. y.said = s /\ y.ch = l.ch /\ y.r0 = l.r0
  BY <1>1, <1>2
<1>6. QED
  BY <1>3, <1>4, <1>5 DEF y

\* Every step keeps what was said true to its ratio.
LEMMA NextSaidInv ==
    GasInv /\ SaidInv /\ [GasNext]_gasVars => SaidInv'
<1> SUFFICES ASSUME GasInv, SaidInv, [GasNext]_gasVars
             PROVE  SaidInv'
  OBVIOUS
<1> DEFINE h == [gas EXCEPT !.mv = 0]
<1>1. /\ DOMAIN gas = {"ch", "mv", "r0", "taken", "said"}
      /\ gas.mv \in 0..(2^16 - 1) /\ gas.r0 \in 0..(2^16 - 1)
  BY DEF GasInv, GasType, SaidInv
<1>2. /\ DOMAIN h = DOMAIN gas /\ h.mv = 0 /\ h.mv \in 0..(2^16 - 1) /\ h.r0 = gas.r0
      /\ h.ch = gas.ch /\ h.said = gas.said
  BY <1>1
<1> HIDE DEF h
<1>3. ASSUME NEW mv \in 0..(2^16 - 1), gas' = [gas EXCEPT !.mv = mv]
      PROVE  SaidInv'
  <2>1. gas'.mv = mv /\ gas'.r0 = gas.r0 /\ gas'.ch = gas.ch /\ gas'.said = gas.said
    BY <1>1, <1>3
  <2>2. QED
    BY <2>1 DEF SaidInv
<1>4. ASSUME NEW ok \in BOOLEAN, GasInit(ok)
      PROVE  SaidInv'
  <2>1. CASE ok
    <3>1. gas' = h
      BY <1>4, <2>1 DEF GasInit, h
    <3>2. QED
      BY <1>2, <3>1 DEF SaidInv
  <2>2. CASE ~ok
    BY <1>4, <2>2 DEF GasInit, SaidInv
  <2>3. QED
    BY <2>1, <2>2
<1>5. CASE GasPowerOn
  <2>1. gas' = Reported(h)
    BY <1>5 DEF GasPowerOn, h
  <2>2. gas'.mv \in 0..(2^16 - 1)
    BY <1>1, <1>2, <2>1, ReportedGas
  <2>3. QED
    BY <1>1, <1>2, <2>1, <2>2, ReportSays DEF SaidInv
<1>6. CASE GasResult
  <2>1. CASE mode = "full" /\ index = gas.ch /\ Head(flight).src = index
    BY <1>3, <1>6, <2>1, GasAssumption DEF GasResult
  <2>2. CASE ~(mode = "full" /\ index = gas.ch /\ Head(flight).src = index)
    BY <1>6, <2>2, SMTT(30) DEF GasResult, SaidInv
  <2>3. QED
    BY <2>1, <2>2
<1>7. CASE GasReportTick
  <2>1. gas' = Reported(gas)
    BY <1>7 DEF GasReportTick
  <2>2. gas'.mv \in 0..(2^16 - 1)
    BY <1>1, <2>1, ReportedGas
  <2>3. QED
    BY <1>1, <2>1, <2>2, ReportSays DEF SaidInv
<1>8. CASE AdcOnly \/ UNCHANGED gasVars
  BY <1>8 DEF AdcOnly, gasVars, SaidInv
<1>9. QED
  BY <1>4, <1>5, <1>6, <1>7, <1>8 DEF GasNext

\* A report true to its ratio is in the right band.
LEMMA SaidFollows ==
    ASSUME GasInv, SaidInv
    PROVE  GasFollowsRatio
<1> DEFINE c == gas.ch
           t == Table(c)
           m == gas.said.mv
           r == gas.said.r0
           q == shGasRatioX100(m, r)
           v == gas.said.value
<1>1. SUFFICES ASSUME Usable(m), Usable(r), Resistance(r) # 0,
                      (Resistance(m) * 100) \div Resistance(r) < 2^16,
                      NEW i \in DOMAIN t
               PROVE  IF Rises(c)
                      THEN /\ AtLeast(m, r, t[i].edge + 5) => v > t[i].value
                           /\ Below(m, r, t[i].edge) => v <= t[i].value
                      ELSE /\ Below(m, r, t[i].edge) => v > t[i].value
                           /\ AtLeast(m, r, t[i].edge) => v <= t[i].value
  BY DEF GasFollowsRatio
<1>2. c \in 1..3 /\ m \in 0..(2^16 - 1) /\ r \in 0..(2^16 - 1) /\ v = Ppm(c, q)
  <2>1. c \in Indices \ {SensIn} /\ Channels = 4
    BY GasAssumption DEF GasInv, GasType
  <2>2. c \in 1..3
    BY <2>1, SMTT(30) DEF Indices, SensIn
  <2>3. m \in 0..(2^16 - 1) /\ r \in 0..(2^16 - 1) /\ v = Ppm(c, q)
    BY <1>1, SMTT(30) DEF SaidInv
  <2>4. QED
    BY <2>2, <2>3
<1>3. q \in Nat
  <2>1. Rounded(m, r, Vcc - m, Vcc - r, Resistance(m), Resistance(r), q)
    BY <1>1, <1>2, RatioBounds, ZenonT(40)
  <2>2. QED
    BY <2>1 DEF Rounded
<1> DEFINE e == t[i].edge
           f == e \div 5
<1>4. e \in Nat /\ e = 5 * f
  BY <1>1, <1>2, TableSorted, SMTT(30) DEF Sorted
<1>5. IF Within(t, Rises(c), q, i) THEN v <= t[i].value ELSE v > t[i].value
  BY <1>1, <1>2, <1>3, PpmOrdered
<1>6. f \in Nat /\ f + 1 \in Nat /\ e + 5 = 5 * (f + 1)
  <2> HIDE DEF e
  <2>1. QED
    BY <1>4
<1>7. /\ Below(m, r, e) => q < e
      /\ AtLeast(m, r, e) => q >= e
      /\ AtLeast(m, r, e + 5) => q >= e + 5
  <2> HIDE DEF e, f, m, r, q
  <2>1. /\ Below(m, r, 5 * f) => q < 5 * f
        /\ AtLeast(m, r, 5 * f) => q >= 5 * f
    BY <1>1, <1>2, <1>6, RatioFollows DEF m, r, q
  <2>2. AtLeast(m, r, 5 * (f + 1)) => q >= 5 * (f + 1)
    BY <1>1, <1>2, <1>6, RatioFollows DEF m, r, q
  <2>3. QED
    BY <1>4, <1>6, <2>1, <2>2
<1>8. /\ q < e => /\ q <= e
                  /\ ~(q >= e)
      /\ q >= e + 5 => ~(q <= e)
  <2> HIDE DEF q, e
  <2>1. QED
    BY <1>3, <1>4
<1>9. QED
  BY <1>5, <1>7, <1>8 DEF Within

\* Every report of a usable reading is in the band of the exact ratio, for every
\* supply voltage and every reading of sixteen bits (shGasRatioX100, shCoPpm,
\* shNh3Ppm, shNo2PpmX100).
THEOREM ReportsFollowRatio == GasSpec => []GasFollowsRatio
<1>1. GasStart => SaidInv
  BY DEF GasStart, SaidInv, Usable
<1>2. GasInv /\ SaidInv => GasFollowsRatio
  BY SaidFollows
<1>3. QED
  BY <1>1, <1>2, InitGasInv, NextGasInv, NextSaidInv, PTL DEF GasSpec
=============================================================================
