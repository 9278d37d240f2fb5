----------------------- MODULE SpectrumSettingsProofs -----------------------
(***************************************************************************)
(* Theorems about the settings and the spectrum definition, for all lens   *)
(* modes, pass energies and detectors of an analyser and all values that   *)
(* may be written, any number of times.                                    *)
(*                                                                         *)
(* The dozen writes fall into two kinds (WriteCases): SettingUp, which     *)
(* calls setupSpectrumDefinition with settings the lens mode allows, and   *)
(* Keeping, which changes nothing a definition depends on.  The invariants *)
(* are proved from these two kinds and the steps of the port and the task. *)
(***************************************************************************)
EXTENDS SpectrumSettings, TLAPS

-----------------------------------------------------------------------------
(* What definitions and regions are made of.                                   *)

LEMMA CeilingType ==
    ASSUME NEW n \in Nat, NEW d \in Int \ {0}
    PROVE  /\ Ceiling(n, d) \in Int
           /\ d > 0 => Ceiling(n, d) = (n + d - 1) \div d /\ Ceiling(n, d) \in Nat
  <1>1. CASE d > 0
    <2>1. (n + d - 1) \div d \in Nat
      BY <1>1
    <2> QED  BY <1>1, <2>1 DEF Ceiling
  <1>2. CASE d < 0
    <2>1. n \div (-d) \in Int
      BY <1>2
    <2> QED  BY <1>2, <2>1 DEF Ceiling
  <1> QED  BY <1>1, <1>2

LEMMA CountType ==
    ASSUME NEW low \in Int, NEW high \in Int, NEW step \in Int
    PROVE  Count(low, high, step) \in Int
  <1>1. Distance(low, high) \in Nat
    BY DEF Distance
  <1>2. CASE step = 0
    BY <1>2 DEF Count, NoCount
  <1>3. CASE step # 0
    BY <1>1, <1>3, CeilingType DEF Count
  <1> QED  BY <1>2, <1>3

LEMMA TargetType ==
    ASSUME NEW s \in Settings, NEW r \in Requests, NEW a \in Axes,
           NEW field \in {"low", "high", "center"}
    PROVE  Target(s, r, a, field) \in Int
  <1>1. r[a][field] \in Int
    <2>1. r[a] \in [low : Int, high : Int, center : Int, step : Int]
      BY DEF Requests
    <2> QED  BY <2>1
  <1>2. Shift(s) \in Int
    BY DEF Shift, Settings
  <1>3. LensModes[s.lensMode] \in LensMode
    BY ServerAssumption DEF Settings
  <1> DEFINE range == LensModes[s.lensMode].yDeflectionRange
  <1>4. range[1] \in Int /\ range[2] \in Int
    BY <1>3 DEF LensMode
  <1>5. Limited(r[a][field], range) \in Int
    BY <1>1, <1>4 DEF Limited
  <1> QED  BY <1>1, <1>2, <1>5 DEF Target

LEMMA BuiltType ==
    ASSUME NEW s \in Settings, NEW r \in Requests
    PROVE  Built(s, r) \in Definitions(s.mode)
  <1>1. s.mode \subseteq Axes /\ s.lensMode \in DOMAIN LensModes
    BY DEF Settings, Axes
  <1>2. PassEnergies[s.passEnergy] \in Int
    BY ServerAssumption DEF Settings
  <1>3. s.detectorMode \in Modes /\ s.acquireTime \in Int
    BY DEF Settings
  <1>4. \A d \in XY : s.min[d] \in Int /\ s.size[d] \in Int /\ s.channels[d] \in Int
    BY DEF Settings
  <1>5. \A a \in Axes : r[a].step \in Int
    BY DEF Requests
  <1>6. ASSUME NEW a \in s.mode
        PROVE  Sweep(s, r, a) \in [Offset : Int, Delta : Int, Count : Int]
    <2>1. Target(s, r, a, "low") \in Int /\ Target(s, r, a, "high") \in Int
      BY <1>1, TargetType
    <2>2. Count(Target(s, r, a, "low"), Target(s, r, a, "high"), r[a].step) \in Int
      BY <1>1, <1>5, <2>1, CountType
    <2> QED  BY <1>1, <1>5, <2>1, <2>2 DEF Sweep
  <1>7. \A a \in Axes \ s.mode : Target(s, r, a, "center") \in Int
    BY TargetType
  <1>8. \A d \in XY : s.min[d] + s.size[d] \in Int
    BY <1>4
  <1> QED  BY <1>1, <1>2, <1>3, <1>4, <1>6, <1>7, <1>8 DEF Built, Definitions

\* setPassEnergy chooses a pass energy, the limited one if that is calibrated.
LEMMA LimitedPassEnergy ==
    ASSUME NEW s \in Settings
    PROVE  \E e \in DOMAIN PassEnergies :
              /\ PassEnergyLimited(s) = [s EXCEPT !.passEnergy = e]
              /\ LET energy == Limited(PassEnergies[s.passEnergy],
                                       LensModes[s.lensMode].passEnergyRange)
                 IN  energy \in {PassEnergies[f] : f \in DOMAIN PassEnergies}
                        => PassEnergies[e] = energy
  <1> DEFINE energy == Limited(PassEnergies[s.passEnergy],
                               LensModes[s.lensMode].passEnergyRange)
             found  == {e \in DOMAIN PassEnergies : PassEnergies[e] = energy}
  <1>1. CASE found = {}
    <2>1. PassEnergyLimited(s) = [s EXCEPT !.passEnergy = s.passEnergy]
      BY <1>1 DEF PassEnergyLimited, Settings
    <2>2. energy \notin {PassEnergies[f] : f \in DOMAIN PassEnergies}
      BY <1>1
    <2>3. s.passEnergy \in DOMAIN PassEnergies
      BY DEF Settings
    <2> QED  BY <2>1, <2>2, <2>3
  <1>2. CASE found # {}
    <2> DEFINE e == CHOOSE e \in found : TRUE
    <2>1. e \in found
      BY <1>2
    <2>2. PassEnergyLimited(s) = [s EXCEPT !.passEnergy = e]
      BY <1>2 DEF PassEnergyLimited
    <2> HIDE DEF e
    <2> QED  BY <2>1, <2>2
  <1> QED  BY <1>1, <1>2

LEMMA LimitedType ==
    ASSUME NEW s \in Settings
    PROVE  PassEnergyLimited(s) \in Settings
  <1>1. PICK e \in DOMAIN PassEnergies : PassEnergyLimited(s) = [s EXCEPT !.passEnergy = e]
    BY LimitedPassEnergy
  <1> QED  BY <1>1 DEF Settings

LEMMA RequestedType ==
    ASSUME NEW mode \in SUBSET {"X", "Z"}, NEW d \in Definitions(mode), NEW a \in Axes
    PROVE  Requested(d, a) \in [low : Int, high : Int, center : Int, step : Int, count : Int]
  <1>1. CASE a \in mode
    <2>1. DOMAIN d.sweep = mode /\ d.sweep[a] \in [Offset : Int, Delta : Int, Count : Int]
      BY <1>1 DEF Definitions
    <2> DEFINE low  == d.sweep[a].Offset
               high == low + d.sweep[a].Delta * (d.sweep[a].Count - 1)
    <2>2. low \in Int /\ d.sweep[a].Delta \in Int /\ d.sweep[a].Count \in Int
      BY <2>1
    <2>3. d.sweep[a].Delta * (d.sweep[a].Count - 1) \in Int
      BY <2>2
    <2>4. high \in Int
      BY <2>2, <2>3
    <2>5. (low + high) \div 2 \in Int
      BY <2>2, <2>4
    <2> QED  BY <1>1, <2>1, <2>2, <2>4, <2>5 DEF Requested
  <1>2. CASE a \notin mode
    <2>1. DOMAIN d.sweep = mode /\ d.center[a] \in Int
      BY <1>2 DEF Definitions
    <2>2. a \in XY => d.binning[a][2] \in Int
      BY <1>2 DEF Definitions
    <2> QED  BY <1>2, <2>1, <2>2 DEF Requested
  <1> QED  BY <1>1, <1>2

LEMMA RegionType ==
    ASSUME NEW mode \in SUBSET {"X", "Z"}, NEW d \in Definitions(mode), NEW s \in Settings
    PROVE  /\ RegionOf(d, s) \in Region
           /\ Steps(d, s) \in Int
           /\ StepsOf(d) \in Int
           /\ WallClock(d) \in Int
  <1>1. \A a \in Axes :
            Requested(d, a) \in [low : Int, high : Int, center : Int, step : Int, count : Int]
    BY RequestedType
  <1>2. Shift(s) \in Int
    BY DEF Shift, Settings
  <1>3. RegionOf(d, s) \in Region
    <2>1. NoAxis \in [low : Int, high : Int, center : Int, step : Int, count : Int]
      BY DEF NoAxis
    <2>2. Shifted(Requested(d, "X"), -Shift(s))
            \in [low : Int, high : Int, center : Int, step : Int, count : Int]
      <3> DEFINE axis == Requested(d, "X")
                 low    == axis.low + (-Shift(s))
                 high   == axis.high + (-Shift(s))
                 center == axis.center + (-Shift(s))
      <3>1. axis \in [low : Int, high : Int, center : Int, step : Int, count : Int]
        BY <1>1 DEF Axes
      <3>2. low \in Int /\ high \in Int /\ center \in Int
        BY <1>2, <3>1
      <3>3. Shifted(axis, -Shift(s)) = [axis EXCEPT !.low = low, !.high = high, !.center = center]
        BY DEF Shifted
      <3> HIDE DEF axis, low, high, center
      <3>4. [axis EXCEPT !.low = low, !.high = high, !.center = center]
              \in [low : Int, high : Int, center : Int, step : Int, count : Int]
        BY <3>1, <3>2
      <3> QED  BY <3>3, <3>4 DEF axis
    <2> QED  BY <1>1, <2>1, <2>2 DEF RegionOf, Region
  <1>4. /\ Times(d, "X", "X" \in s.mode) \in Int
        /\ Times(d, "Z", "Z" \in s.mode) \in Int
        /\ Times(d, "X", "X" \in DOMAIN d.sweep) \in Int
        /\ Times(d, "Z", "Z" \in DOMAIN d.sweep) \in Int
    <2>1. \A a \in Axes : Requested(d, a).count \in Int
      BY <1>1
    <2> QED  BY <2>1 DEF Times, Axes
  <1>5. \A m, n \in Int : m * n \in Int
    OBVIOUS
  <1>6. Steps(d, s) \in Int /\ StepsOf(d) \in Int
    BY <1>4, <1>5 DEF Steps, StepsOf
  <1>7. d.dwellTime \in Int
    BY DEF Definitions
  <1> QED  BY <1>3, <1>5, <1>6, <1>7 DEF WallClock

LEMMA CentredType ==
    ASSUME NEW axis \in [low : Int, high : Int, center : Int, step : Int], NEW value \in Int
    PROVE  Centred(axis, value) \in [low : Int, high : Int, center : Int, step : Int]
  <1> DEFINE half == Distance(axis.low, axis.high) \div 2
             low  == value - half
             high == value + half
  <1>1. half \in Int
    BY DEF Distance
  <1>2. low \in Int /\ high \in Int
    BY <1>1
  <1>3. Centred(axis, value) = [axis EXCEPT !.center = value, !.low = low, !.high = high]
    BY DEF Centred
  <1> HIDE DEF low, high
  <1> QED  BY <1>2, <1>3

-----------------------------------------------------------------------------
(* What a write does.                                                          *)

\* What the server's limits ask of settings.
Allowed(s) ==
    /\ "Z" \in s.mode => HasAngleY(s.lensMode)
    /\ \A d \in XY : s.min[d] + s.size[d] <= MaxSize[d]

\* Settings t with requested axes q make the definition that s with r make, but
\* for the detector's mode.
Agree(s, r, t, q) ==
    /\ t.mode = s.mode /\ t.lensMode = s.lensMode /\ t.passEnergy = s.passEnergy
    /\ t.acquireTime = s.acquireTime /\ t.min = s.min /\ t.size = s.size
    /\ Shift(t) = Shift(s)
    /\ \A d \in XY \ s.mode : t.channels[d] = s.channels[d]
    /\ \A a \in Axes : q[a].center = r[a].center
    /\ \A a \in s.mode : q[a] = r[a]

Write ==
    \/ WriteAcquisitionMode \/ WriteLensMode \/ WritePassEnergy \/ WriteEnergyMode
    \/ WritePhoton \/ WriteAcquireTime \/ WriteNumExposures \/ WriteDetectorMode
    \/ WriteROI \/ WriteChannels \/ WriteAxis \/ WriteCenter

\* A write that sets up a definition, of settings the server's limits allow.
SettingUp ==
    \E s \in Settings, r \in Requests :
        /\ Writing
        /\ Allowed(s)
        /\ SetsUp(s, r)
        /\ s.numExposures = settings.numExposures
        /\ region' \in Region
        /\ UNCHANGED AcqETA

\* The write of a number of exposures rescales the time.
Rescales(value) ==
    /\ AcqETA' = {x * value : x \in PerExposure(AcqETA, settings.numExposures)}
    /\ zeroed' = (zeroed \/ value = 0)

\* A write that does not, and need not.
Keeping ==
    \E s \in Settings, r \in Requests :
        /\ Writing
        /\ Agree(settings, requested, s, r)
        /\ Keeps(s, r)
        /\ UNCHANGED region
        /\ \/ s.numExposures = settings.numExposures /\ UNCHANGED <<AcqETA, zeroed>>
           \/ Rescales(s.numExposures)

LEMMA NothingWritten ==
    ASSUME TypeOK, Writing, Storing(settings)
    PROVE  Keeping
  <1>1. Agree(settings, requested, settings, requested)
    BY DEF Agree
  <1> QED  BY <1>1 DEF Keeping, Storing, TypeOK

LEMMA SettingSetsUp ==
    ASSUME TypeOK, NEW s \in Settings, Allowed(s), Writing, Setting(s),
           s.numExposures = settings.numExposures
    PROVE  SettingUp
  BY DEF TypeOK, Setting, SettingUp

\* Every write sets up a definition, or need not.
LEMMA WriteCases ==
    ASSUME TypeOK, Allowed(settings), Write
    PROVE  SettingUp \/ Keeping
  <1> USE DEF TypeOK
  <1>1. CASE WriteAcquisitionMode
    <2>1. PICK mode \in SUBSET {"X", "Z"} :
            /\ Writing
            /\ IF "Z" \in mode /\ ~HasAngleY(settings.lensMode)
                 THEN Storing(settings)
                 ELSE Setting([settings EXCEPT !.mode = mode])
      BY <1>1 DEF WriteAcquisitionMode
    <2>2. CASE "Z" \in mode /\ ~HasAngleY(settings.lensMode)
      BY <2>1, <2>2, NothingWritten
    <2>3. CASE ~("Z" \in mode /\ ~HasAngleY(settings.lensMode))
      <3> DEFINE s == [settings EXCEPT !.mode = mode]
      <3>1. s \in Settings /\ s.numExposures = settings.numExposures
        BY DEF Settings
      <3>2. Allowed(s)
        BY <2>3 DEF Allowed, Settings
      <3> QED  BY <2>1, <2>3, <3>1, <3>2, SettingSetsUp
    <2> QED  BY <2>2, <2>3
  <1>2. CASE WriteLensMode
    <2>1. PICK lens \in Written.lensMode :
            /\ Writing
            /\ IF lens \in DOMAIN LensModes /\ ("Z" \in settings.mode => HasAngleY(lens))
                 THEN Setting([settings EXCEPT !.lensMode = lens])
                 ELSE Storing(settings)
      BY <1>2 DEF WriteLensMode
    <2>2. CASE lens \in DOMAIN LensModes /\ ("Z" \in settings.mode => HasAngleY(lens))
      <3> DEFINE s == [settings EXCEPT !.lensMode = lens]
      <3>1. s \in Settings /\ s.numExposures = settings.numExposures
        BY <2>2 DEF Settings
      <3>2. Allowed(s)
        BY <2>2 DEF Allowed, Settings
      <3> QED  BY <2>1, <2>2, <3>1, <3>2, SettingSetsUp
    <2>3. CASE ~(lens \in DOMAIN LensModes /\ ("Z" \in settings.mode => HasAngleY(lens)))
      BY <2>1, <2>3, NothingWritten
    <2> QED  BY <2>2, <2>3
  <1>3. CASE WritePassEnergy
    <2>1. PICK energy \in Written.passEnergy :
            /\ Writing
            /\ IF energy \in DOMAIN PassEnergies
                 THEN Setting([settings EXCEPT !.passEnergy = energy])
                 ELSE Storing(settings)
      BY <1>3 DEF WritePassEnergy
    <2>2. CASE energy \in DOMAIN PassEnergies
      <3> DEFINE s == [settings EXCEPT !.passEnergy = energy]
      <3>1. s \in Settings /\ s.numExposures = settings.numExposures
        BY <2>2 DEF Settings
      <3>2. Allowed(s)
        BY DEF Allowed, Settings
      <3> QED  BY <2>1, <2>2, <3>1, <3>2, SettingSetsUp
    <2>3. CASE energy \notin DOMAIN PassEnergies
      BY <2>1, <2>3, NothingWritten
    <2> QED  BY <2>2, <2>3
  <1>4. CASE WriteEnergyMode
    <2>1. PICK mode \in {"Kinetic", "Binding"} :
            Writing /\ Setting([settings EXCEPT !.energyMode = mode])
      BY <1>4 DEF WriteEnergyMode
    <2> DEFINE s == [settings EXCEPT !.energyMode = mode]
    <2>2. s \in Settings /\ s.numExposures = settings.numExposures /\ Allowed(s)
      BY DEF Allowed, Settings
    <2> QED  BY <2>1, <2>2, SettingSetsUp
  <1>5. CASE WritePhoton
    <2>1. PICK field \in {"excitation", "workFunction"}, value \in Written.photon :
            /\ Writing
            /\ LET s == [settings EXCEPT ![field] = value]
               IN  IF s.energyMode = "Binding" THEN Setting(s)
                   ELSE Storing(s)
      BY <1>5 DEF WritePhoton
    <2> DEFINE s == [settings EXCEPT ![field] = value]
    <2>2. value \in Int
      BY WrittenAssumption
    <2>3. /\ s \in Settings /\ s.numExposures = settings.numExposures /\ Allowed(s)
          /\ s.energyMode = settings.energyMode
      BY <2>2 DEF Allowed, Settings
    <2>4. CASE s.energyMode = "Binding"
      BY <2>1, <2>3, <2>4, SettingSetsUp
    <2>5. CASE s.energyMode # "Binding"
      <3>1. Agree(settings, requested, s, requested)
        BY <2>3, <2>5 DEF Agree, Shift, Settings
      <3> QED  BY <2>1, <2>3, <2>5, <3>1 DEF Keeping, Storing
    <2> QED  BY <2>4, <2>5
  <1>6. CASE WriteAcquireTime
    <2>1. PICK value \in Written.acquireTime :
            Writing /\ Setting([settings EXCEPT !.acquireTime = value])
      BY <1>6 DEF WriteAcquireTime
    <2> DEFINE s == [settings EXCEPT !.acquireTime = value]
    <2>2. value \in Int
      BY WrittenAssumption
    <2>3. s \in Settings /\ s.numExposures = settings.numExposures /\ Allowed(s)
      BY <2>2 DEF Allowed, Settings
    <2> QED  BY <2>1, <2>3, SettingSetsUp
  <1>7. CASE WriteNumExposures
    <2>1. PICK value \in Written.numExposures :
            /\ Writing
            /\ Keeps([settings EXCEPT !.numExposures = value], requested)
            /\ Rescales(value)
            /\ UNCHANGED region
      BY <1>7 DEF WriteNumExposures, Rescales
    <2> DEFINE s == [settings EXCEPT !.numExposures = value]
    <2>2. value \in Int
      BY WrittenAssumption
    <2>3. s \in Settings /\ s.numExposures = value
      BY <2>2 DEF Settings
    <2>4. Agree(settings, requested, s, requested)
      BY DEF Agree, Shift, Settings
    <2> QED  BY <2>1, <2>3, <2>4 DEF Keeping
  <1>8. CASE WriteDetectorMode
    <2>1. PICK value \in Written.detectorMode :
            Writing /\ Storing([settings EXCEPT !.detectorMode = value])
      BY <1>8 DEF WriteDetectorMode
    <2> DEFINE s == [settings EXCEPT !.detectorMode = value]
    <2>2. s \in Settings /\ s.numExposures = settings.numExposures
      BY DEF Settings, Modes
    <2>3. Agree(settings, requested, s, requested)
      BY DEF Agree, Shift, Settings
    <2> QED  BY <2>1, <2>2, <2>3 DEF Keeping, Storing
  <1>9. CASE WriteROI
    <2>1. PICK d \in XY :
            /\ Writing
            /\ \/ \E value \in Written.min :
                    Setting(WithinDetector([settings EXCEPT !.min[d] = value]))
               \/ \E value \in Written.size :
                    Setting(WithinDetector([settings EXCEPT !.size[d] = value]))
      BY <1>9 DEF WriteROI
    <2>2. ASSUME NEW s \in Settings, s.numExposures = settings.numExposures,
                 s.mode = settings.mode, s.lensMode = settings.lensMode,
                 Setting(WithinDetector(s))
          PROVE  SettingUp
      <3> DEFINE t == WithinDetector(s)
      <3>1. \A e \in XY : MaxSize[e] \in Nat /\ s.min[e] \in Int /\ s.size[e] \in Int
        BY ServerAssumption DEF Settings
      <3>2. t \in Settings
        BY <2>2, <3>1 DEF WithinDetector, Settings
      <3>3. /\ t.mode = s.mode /\ t.lensMode = s.lensMode /\ t.min = s.min
            /\ t.numExposures = s.numExposures
            /\ \A e \in XY : t.size[e] = IF s.min[e] + s.size[e] > MaxSize[e]
                                         THEN MaxSize[e] - s.min[e] ELSE s.size[e]
        BY DEF WithinDetector, Settings
      <3>4. Allowed(t)
        BY <2>2, <3>1, <3>3 DEF Allowed
      <3> QED  BY <2>1, <2>2, <3>2, <3>3, <3>4, SettingSetsUp
    <2>3. ASSUME NEW value \in Int
          PROVE  /\ [settings EXCEPT !.min[d] = value] \in Settings
                 /\ [settings EXCEPT !.size[d] = value] \in Settings
      BY DEF Settings
    <2>4. \A value \in Written.min \union Written.size : value \in Int
      BY WrittenAssumption
    <2> QED  BY <2>1, <2>2, <2>3, <2>4 DEF Settings
  <1>10. CASE WriteChannels
    <2>1. PICK d \in XY, value \in Written.channels :
            /\ Writing
            /\ LET s == [settings EXCEPT !.channels[d] = ChannelsWithin(value, settings.size[d])]
               IN  IF ChannelsUsed(d, s.mode) THEN Setting(s)
                   ELSE Storing(s)
      BY <1>10 DEF WriteChannels
    <2> DEFINE s == [settings EXCEPT !.channels[d] = ChannelsWithin(value, settings.size[d])]
    <2>2. ChannelsWithin(value, settings.size[d]) \in Int
      <3>1. value \in Int /\ settings.size[d] \in Int
        BY WrittenAssumption DEF Settings
      <3> QED  BY <3>1 DEF ChannelsWithin
    <2>3. /\ s \in Settings /\ s.numExposures = settings.numExposures
          /\ s.mode = settings.mode /\ s.lensMode = settings.lensMode
          /\ s.passEnergy = settings.passEnergy /\ s.acquireTime = settings.acquireTime
          /\ s.min = settings.min /\ s.size = settings.size /\ Shift(s) = Shift(settings)
          /\ \A e \in XY \ {d} : s.channels[e] = settings.channels[e]
      BY <2>2 DEF Settings, Shift
    <2>4. CASE ChannelsUsed(d, s.mode)
      <3>1. Allowed(s)
        BY <2>3 DEF Allowed
      <3> QED  BY <2>1, <2>3, <2>4, <3>1, SettingSetsUp
    <2>5. CASE ~ChannelsUsed(d, s.mode)
      <3>1. d \in settings.mode
        BY <2>3, <2>5 DEF ChannelsUsed, XY
      <3>2. Agree(settings, requested, s, requested)
        BY <2>3, <3>1 DEF Agree
      <3> QED  BY <2>1, <2>3, <2>5, <3>2 DEF Keeping, Storing
    <2> QED  BY <2>4, <2>5
  <1>11. CASE WriteAxis
    <2>1. PICK a \in {"X", "Z"}, field \in {"low", "high", "step"} :
            \E value \in IF field = "step" THEN Written.step ELSE Written.ends :
              /\ Writing
              /\ LET r == [requested EXCEPT ![a][field] = value]
                 IN  IF a \in settings.mode
                       THEN /\ SetsUp(settings, r)
                            /\ region' = [region EXCEPT ![a][field] = value]
                       ELSE Keeps(settings, r) /\ UNCHANGED <<region, zeroed>>
              /\ UNCHANGED AcqETA
      BY <1>11 DEF WriteAxis
    <2>2. PICK value \in IF field = "step" THEN Written.step ELSE Written.ends :
            /\ Writing
            /\ LET r == [requested EXCEPT ![a][field] = value]
               IN  IF a \in settings.mode
                     THEN /\ SetsUp(settings, r)
                          /\ region' = [region EXCEPT ![a][field] = value]
                     ELSE Keeps(settings, r) /\ UNCHANGED <<region, zeroed>>
            /\ UNCHANGED AcqETA
      BY <2>1
    <2> DEFINE r == [requested EXCEPT ![a][field] = value]
    <2>3. value \in Int
      BY WrittenAssumption
    <2>4. a \in Axes
      BY DEF Axes
    <2>5. /\ r \in Requests
          /\ \A b \in Axes : r[b].center = requested[b].center
          /\ \A b \in Axes \ {a} : r[b] = requested[b]
      BY <2>3, <2>4 DEF Requests
    <2>6. [region EXCEPT ![a][field] = value] \in Region
      BY <2>3, <2>4 DEF Region
    <2>7. CASE a \in settings.mode
      BY <2>2, <2>5, <2>6, <2>7 DEF SettingUp
    <2>8. CASE a \notin settings.mode
      <3>1. settings.mode \subseteq Axes
        BY DEF Settings, Axes
      <3>2. Agree(settings, requested, settings, r)
        BY <2>5, <2>8, <3>1 DEF Agree
      <3> QED  BY <2>2, <2>5, <2>8, <3>2 DEF Keeping
    <2> QED  BY <2>7, <2>8
  <1>12. CASE WriteCenter
    <2>1. PICK a \in Axes, value \in Written.ends :
            /\ Writing
            /\ SetsUp(settings, [requested EXCEPT ![a] =
                                   IF a \in settings.mode THEN Centred(@, value)
                                   ELSE [@ EXCEPT !.center = value]])
            /\ region' = [region EXCEPT ![a].center = value]
            /\ UNCHANGED AcqETA
      BY <1>12 DEF WriteCenter
    <2> DEFINE axis == IF a \in settings.mode THEN Centred(requested[a], value)
                       ELSE [requested[a] EXCEPT !.center = value]
    <2>2. value \in Int
      BY WrittenAssumption
    <2>3. requested[a] \in [low : Int, high : Int, center : Int, step : Int]
      BY DEF Requests
    <2>4. axis \in [low : Int, high : Int, center : Int, step : Int]
      BY <2>2, <2>3, CentredType
    <2>5. SetsUp(settings, [requested EXCEPT ![a] = axis])
      BY <2>1
    <2> HIDE DEF axis
    <2>6. [requested EXCEPT ![a] = axis] \in Requests
      BY <2>4 DEF Requests
    <2>7. region' \in Region
      BY <2>1, <2>2 DEF Region
    <2> QED  BY <2>1, <2>5, <2>6, <2>7 DEF SettingUp
  <1> QED
    BY <1>1, <1>2, <1>3, <1>4, <1>5, <1>6, <1>7, <1>8, <1>9, <1>10, <1>11, <1>12 DEF Write

\* Every step, with the writes by their kind.
LEMMA StepCases ==
    ASSUME TypeOK, Allowed(settings), [Next]_vars
    PROVE  \/ SettingUp \/ Keeping \/ Fill \/ Adjusted \/ AdjustFails
           \/ Snapshot \/ DefineSpectrum \/ FirstUpdate \/ EndAcquisition
           \/ UNCHANGED vars
  BY WriteCases DEF Next, Port, Task, Write

-----------------------------------------------------------------------------
(* Types, and what settings are allowed to be.                                 *)

\* The pass energy is in the range of the lens mode if the ends can be chosen.
PassEnergyInRange(s) ==
    LET range    == LensModes[s.lensMode].passEnergyRange
        energies == {PassEnergies[e] : e \in DOMAIN PassEnergies}
    IN  {range[1], range[2]} \subseteq energies /\ range[1] <= range[2] =>
            PassEnergies[s.passEnergy] \in range[1] .. range[2]

\* A definition is filled only from modes that have been checked.
SettingsAllowed ==
    /\ Allowed(settings)
    /\ port = "fill" => ModesValid(settings) /\ PassEnergyInRange(settings)

\* The pass energy is put in range whatever else is set.
LEMMA LimitedAllowed ==
    ASSUME NEW s \in Settings, Allowed(s)
    PROVE  Allowed(PassEnergyLimited(s)) /\ PassEnergyInRange(PassEnergyLimited(s))
  <1> DEFINE energy == Limited(PassEnergies[s.passEnergy],
                               LensModes[s.lensMode].passEnergyRange)
             range  == LensModes[s.lensMode].passEnergyRange
             energies == {PassEnergies[e] : e \in DOMAIN PassEnergies}
             t == PassEnergyLimited(s)
  <1>1. PICK e \in DOMAIN PassEnergies :
            /\ PassEnergyLimited(s) = [s EXCEPT !.passEnergy = e]
            /\ energy \in energies => PassEnergies[e] = energy
    BY LimitedPassEnergy
  <1>2. /\ t.mode = s.mode /\ t.lensMode = s.lensMode /\ t.min = s.min /\ t.size = s.size
        /\ t.passEnergy = e
    BY <1>1 DEF Settings
  <1>3. Allowed(t)
    BY <1>2 DEF Allowed
  <1>4. ASSUME {range[1], range[2]} \subseteq energies, range[1] <= range[2]
        PROVE  PassEnergies[e] \in range[1] .. range[2]
    <2>1. PassEnergies[s.passEnergy] \in energies /\ PassEnergies[s.passEnergy] \in Int
      BY ServerAssumption DEF Settings
    <2>2. LensModes[s.lensMode] \in LensMode
      BY ServerAssumption DEF Settings
    <2>3. range[1] \in Int /\ range[2] \in Int
      BY <2>2 DEF LensMode
    <2> HIDE DEF range, energies
    <2>4. Limited(PassEnergies[s.passEnergy], range) \in energies
      BY <1>4, <2>1 DEF Limited
    <2>5. Limited(PassEnergies[s.passEnergy], range) \in range[1] .. range[2]
      BY <1>4, <2>1, <2>3 DEF Limited
    <2> QED  BY <1>1, <2>4, <2>5 DEF range
  <1>5. PassEnergyInRange(t)
    BY <1>2, <1>4 DEF PassEnergyInRange
  <1> QED  BY <1>3, <1>5

\* What setupSpectrumDefinition makes of settings before it fills a definition.
LEMMA SetupSettings ==
    ASSUME NEW s \in Settings, NEW r \in Requests, Allowed(s), SetsUp(s, r)
    PROVE  /\ settings' \in Settings
           /\ settings'.numExposures = s.numExposures
           /\ SettingsAllowed'
           /\ EnergiesValid(settings', r) = EnergiesValid(s, r)
  <1>1. CASE ModesValid(s)
    <2>1. PICK e \in DOMAIN PassEnergies : PassEnergyLimited(s) = [s EXCEPT !.passEnergy = e]
      BY LimitedPassEnergy
    <2>2. settings' = [s EXCEPT !.passEnergy = e]
      BY <1>1, <2>1 DEF SetsUp
    <2>3. /\ settings' \in Settings /\ settings'.numExposures = s.numExposures
          /\ settings'.mode = s.mode /\ settings'.detectorMode = s.detectorMode
      BY <2>2 DEF Settings
    <2>4. Allowed(settings') /\ PassEnergyInRange(settings')
      BY <2>1, <2>2, LimitedAllowed
    <2>5. \A f \in {"low", "center", "high"} :
             Target([s EXCEPT !.passEnergy = e], r, "X", f) = Target(s, r, "X", f)
      BY DEF Target, Shift, Settings
    <2> QED
      BY <1>1, <2>2, <2>3, <2>4, <2>5 DEF SettingsAllowed, ModesValid, EnergiesValid
  <1>2. CASE ~ModesValid(s)
    BY <1>2 DEF SetsUp, SettingsAllowed
  <1> QED  BY <1>1, <1>2

LEMMA InitialAllowed ==
    /\ InitialSettings \in Settings /\ InitialSettings.numExposures = 1
    /\ Allowed(InitialSettings) /\ PassEnergyInRange(InitialSettings)
    /\ ModesValid(InitialSettings)
  <1> DEFINE s == [mode |-> {}, lensMode |-> Analyser.lensMode,
                   passEnergy |-> Analyser.passEnergy, energyMode |-> "Kinetic",
                   excitation |-> Database.excitation, workFunction |-> Database.workFunction,
                   acquireTime |-> Analyser.dwellTime, numExposures |-> 1,
                   detectorMode |-> Analyser.detectorMode,
                   min  |-> [d \in XY |-> Camera[d].min],
                   size |-> [d \in XY |-> Camera[d].size],
                   channels |-> [d \in XY |-> Camera[d].size]]
  <1>1. s \in Settings
    BY ServerAssumption DEF Settings, Modes
  <1>2. Allowed(s)
    BY ServerAssumption DEF Allowed
  <1>3. InitialSettings = PassEnergyLimited(s)
    BY DEF InitialSettings
  <1>4. s.numExposures = 1 /\ s.detectorMode \in DetectorModes
    BY ServerAssumption
  <1> HIDE DEF s
  <1>5. PICK e \in DOMAIN PassEnergies : PassEnergyLimited(s) = [s EXCEPT !.passEnergy = e]
    BY <1>1, LimitedPassEnergy
  <1>6. PassEnergyLimited(s).numExposures = 1
           /\ PassEnergyLimited(s).detectorMode \in DetectorModes
    BY <1>1, <1>4, <1>5 DEF Settings
  <1> QED  BY <1>1, <1>2, <1>3, <1>6, LimitedType, LimitedAllowed DEF ModesValid

LEMMA TypesInit ==
    ASSUME Init
    PROVE  TypeOK /\ SettingsAllowed
  <1>1. settings \in Settings /\ SettingsAllowed
    BY InitialAllowed DEF Init, SettingsAllowed
  <1>2. requested \in Requests
    BY ServerAssumption DEF Init
  <1>3. settings.mode \in SUBSET {"X", "Z"} /\ settings.numExposures \in Int
    BY <1>1 DEF Settings
  <1>4. definition \in Definitions(settings.mode)
    BY <1>1, <1>2, BuiltType DEF Init
  <1>5. /\ RegionOf(definition, settings) \in Region
        /\ Steps(definition, settings) \in Int
        /\ WallClock(definition) \in Int
    BY <1>1, <1>3, <1>4, RegionType
  <1>6. WallClock(definition) * settings.numExposures \in Int
    BY <1>3, <1>5
  <1>7. \E mode \in SUBSET {"X", "Z"} : definition \in Definitions(mode)
    BY <1>3, <1>4
  <1>8. spectrum = NoDefinition
    BY DEF Init
  <1>9. {AcqNumSteps, wall, numSteps} \union AcqETA \subseteq Int
    BY <1>5, <1>6 DEF Init
  <1>10. /\ port = "idle" /\ pc = "idle" /\ writes = 0 /\ region \in Region
         /\ fresh = TRUE /\ touched = FALSE /\ skipped = FALSE /\ zeroed = FALSE
    BY <1>5 DEF Init
  <1> QED  BY <1>1, <1>2, <1>7, <1>8, <1>9, <1>10 DEF TypeOK

\* The time for one exposure is a number, if it is.
LEMMA PerExposureType ==
    ASSUME NEW eta \in SUBSET Int, NEW n \in Int
    PROVE  PerExposure(eta, n) \in SUBSET Int
  <1>1. CASE n > 0
    <2>1. \A x \in eta : x \div n \in Int
      BY <1>1
    <2> QED  BY <1>1, <2>1 DEF PerExposure
  <1>2. CASE n < 0
    <2>1. -n > 0 /\ -n \in Int
      BY <1>2
    <2>2. \A x \in eta : (-x) \div (-n) \in Int
      BY <2>1
    <2> QED  BY <1>2, <2>2 DEF PerExposure
  <1>3. CASE n = 0
    BY <1>3 DEF PerExposure
  <1> QED  BY <1>1, <1>2, <1>3

LEMMA TypesStep ==
    ASSUME TypeOK, SettingsAllowed, [Next]_vars
    PROVE  TypeOK' /\ SettingsAllowed'
  <1> USE DEF TypeOK, SettingsAllowed
  <1>1. CASE SettingUp
    <2>1. PICK s \in Settings, r \in Requests :
            Writing /\ Allowed(s) /\ SetsUp(s, r) /\ region' \in Region /\ UNCHANGED AcqETA
      BY <1>1 DEF SettingUp
    <2>2. settings' \in Settings /\ SettingsAllowed'
      BY <2>1, SetupSettings
    <2>3. writes' \in Nat
      BY <2>1 DEF Writing
    <2> QED  BY <2>1, <2>2, <2>3 DEF SetsUp, Writing, task
  <1>2. CASE Keeping
    <2>1. PICK s \in Settings, r \in Requests :
            /\ Writing /\ Agree(settings, requested, s, r) /\ Keeps(s, r) /\ UNCHANGED region
            /\ \/ s.numExposures = settings.numExposures /\ UNCHANGED <<AcqETA, zeroed>>
               \/ Rescales(s.numExposures)
      BY <1>2 DEF Keeping
    <2>2. Allowed(s) /\ port = "idle" /\ port' = "idle"
      BY <2>1 DEF Agree, Allowed, Keeps, Writing
    <2>3. AcqETA' \in SUBSET Int /\ zeroed' \in BOOLEAN
      <3>1. settings.numExposures \in Int /\ s.numExposures \in Int
        BY DEF Settings
      <3>2. PerExposure(AcqETA, settings.numExposures) \in SUBSET Int
        BY <3>1, PerExposureType
      <3>3. \A x \in PerExposure(AcqETA, settings.numExposures) : x * s.numExposures \in Int
        BY <3>1, <3>2
      <3>4. CASE Rescales(s.numExposures)
        BY <3>3, <3>4 DEF Rescales
      <3> QED  BY <2>1, <3>4
    <2>4. writes' \in Nat
      BY <2>1 DEF Writing
    <2> QED  BY <2>1, <2>2, <2>3, <2>4 DEF Keeps, Writing, task
  <1>3. CASE Fill
    <2>1. definition' \in Definitions(settings.mode) /\ settings.mode \in SUBSET {"X", "Z"}
      BY <1>3, BuiltType DEF Fill, Settings
    <2> QED  BY <1>3, <2>1 DEF Fill, shown, task, history
  <1>4. CASE Adjusted
    <2>1. /\ RegionOf(definition, settings) \in Region
          /\ Steps(definition, settings) \in Int
          /\ WallClock(definition) \in Int
      BY RegionType
    <2>2. settings.numExposures \in Int
      BY DEF Settings
    <2>3. {WallClock(definition) * settings.numExposures} \subseteq Int
      BY <2>1, <2>2
    <2> QED  BY <1>4, <2>1, <2>3 DEF Adjusted, task
  <1>5. CASE AdjustFails
    BY <1>5 DEF AdjustFails, shown, task, history
  <1>6. CASE Snapshot
    BY <1>6 DEF Snapshot, shown
  <1>7. CASE DefineSpectrum
    <2>1. Built(settings, requested) \in Definitions(settings.mode)
             /\ settings.mode \in SUBSET {"X", "Z"}
      BY BuiltType DEF Settings
    <2>2. spectrum' \in {definition, Built(settings, requested), NoDefinition}
      BY <1>7 DEF DefineSpectrum
    <2>3. spectrum' = NoDefinition \/ \E mode \in SUBSET {"X", "Z"} : spectrum' \in Definitions(mode)
      BY <2>1, <2>2
    <2> QED  BY <1>7, <2>3 DEF DefineSpectrum, shown
  <1>8. CASE FirstUpdate
    <2>1. spectrum # NoDefinition
      BY <1>8 DEF FirstUpdate
    <2>2. PICK mode \in SUBSET {"X", "Z"} : spectrum \in Definitions(mode)
      BY <2>1
    <2>3. RegionOf(spectrum, settings) \in Region /\ Steps(spectrum, settings) \in Int
      BY <2>2, RegionType
    <2> QED  BY <1>8, <2>3 DEF FirstUpdate, task
  <1>9. CASE EndAcquisition
    <2>1. spectrum' = NoDefinition /\ numSteps' \in Int
      BY <1>9 DEF EndAcquisition
    <2>2. \E mode \in SUBSET {"X", "Z"} : definition' \in Definitions(mode)
      BY <1>9 DEF EndAcquisition
    <2>3. UNCHANGED <<settings, requested, region, AcqNumSteps, AcqETA, port, wall, fresh,
                     skipped, zeroed, writes>>
      BY <1>9 DEF EndAcquisition, shown
    <2>4. pc' = "idle" /\ touched' = FALSE
      BY <1>9 DEF EndAcquisition
    <2> QED  BY <2>1, <2>2, <2>3, <2>4
  <1>10. CASE UNCHANGED vars
    BY <1>10 DEF vars, shown, task, history
  <1> QED
    BY <1>1, <1>2, <1>3, <1>4, <1>5, <1>6, <1>7, <1>8, <1>9, <1>10, StepCases

\* The parameters, the definition and the region keep their types, for all lens
\* modes and pass energies of an analyser and all values written.
THEOREM SettingsTypes == Spec => []TypeOK
  <1>1. Init => TypeOK /\ SettingsAllowed
    BY TypesInit
  <1>2. (TypeOK /\ SettingsAllowed) /\ [Next]_vars => (TypeOK /\ SettingsAllowed)'
    BY TypesStep
  <1> QED  BY <1>1, <1>2, PTL DEF Spec

-----------------------------------------------------------------------------
(* The definition in force.                                                    *)

\* Settings that agree aim at the same values ...
LEMMA AgreeTargets ==
    ASSUME NEW s \in Settings, NEW r \in Requests, NEW t \in Settings, NEW q \in Requests,
           Agree(s, r, t, q)
    PROVE  /\ \A a \in s.mode, f \in {"low", "high", "center"} :
                  Target(t, q, a, f) = Target(s, r, a, f)
           /\ \A a \in Axes : Target(t, q, a, "center") = Target(s, r, a, "center")
  BY DEF Agree, Target, Settings

\* ... so that they make the same definition.
LEMMA AgreeDefinitions ==
    ASSUME NEW s \in Settings, NEW r \in Requests, NEW t \in Settings, NEW q \in Requests,
           Agree(s, r, t, q)
    PROVE  /\ SameButMode(Built(s, r), Built(t, q))
           /\ EnergiesValid(t, q) = EnergiesValid(s, r)
  <1>1. t.mode = s.mode /\ s.mode \subseteq Axes
    BY DEF Agree, Settings, Axes
  <1>2. [a \in t.mode |-> Sweep(t, q, a)] = [a \in s.mode |-> Sweep(s, r, a)]
    <2>1. ASSUME NEW a \in s.mode
          PROVE  Sweep(t, q, a) = Sweep(s, r, a)
      BY AgreeTargets DEF Sweep, Agree
    <2> QED  BY <1>1, <2>1
  <1>3. [a \in Axes \ t.mode |-> Target(t, q, a, "center")]
          = [a \in Axes \ s.mode |-> Target(s, r, a, "center")]
    BY <1>1, AgreeTargets
  <1>4. [d \in XY \ t.mode |-> <<t.size[d], t.channels[d]>>]
          = [d \in XY \ s.mode |-> <<s.size[d], s.channels[d]>>]
    BY <1>1 DEF Agree
  <1>5. SameButMode(Built(s, r), Built(t, q))
    <2>1. /\ Built(t, q).sweep = Built(s, r).sweep /\ Built(t, q).center = Built(s, r).center
          /\ Built(t, q).binning = Built(s, r).binning
      BY <1>2, <1>3, <1>4 DEF Built
    <2>2. /\ Built(t, q).lensMode = Built(s, r).lensMode
          /\ Built(t, q).passEnergy = Built(s, r).passEnergy
          /\ Built(t, q).dwellTime = Built(s, r).dwellTime
          /\ Built(t, q).roi = Built(s, r).roi
      BY DEF Built, Agree
    <2>3. Built(t, q) \in Definitions(t.mode) /\ Built(s, r) \in Definitions(s.mode)
      BY BuiltType
    <2> QED  BY <1>1, <2>1, <2>2, <2>3 DEF SameButMode, Definitions
  <1>6. EnergiesValid(t, q) = EnergiesValid(s, r)
    BY <1>1, AgreeTargets DEF EnergiesValid
  <1> QED  BY <1>5, <1>6

LEMMA SameButModeTransitive ==
    ASSUME NEW mode \in SUBSET {"X", "Z"}, NEW d \in Definitions(mode),
           NEW e, NEW f, SameButMode(d, e), SameButMode(e, f)
    PROVE  SameButMode(d, f)
  BY DEF SameButMode, Definitions

\* Where setupSpectrumDefinition is, the definition is the one it makes.
SetupConsistent ==
    /\ DefinitionCurrent
    /\ port = "adjust" => definition = Built(settings, requested)

LEMMA SetupStep ==
    ASSUME TypeOK, SettingsAllowed, SetupConsistent, [Next]_vars
    PROVE  SetupConsistent'
  <1> USE DEF SetupConsistent, DefinitionCurrent, InForce
  <1>1. CASE SettingUp
    <2>1. PICK s \in Settings, r \in Requests : SetsUp(s, r) /\ Allowed(s)
      BY <1>1 DEF SettingUp
    <2>2. EnergiesValid(settings', requested') = EnergiesValid(s, r)
      BY <2>1, SetupSettings DEF SetsUp
    <2>3. port' = "idle" => ~InForce'
      BY <2>1, <2>2 DEF SetsUp
    <2>4. port' # "adjust"
      BY <2>1 DEF SetsUp
    <2> QED  BY <2>3, <2>4
  <1>2. CASE Keeping
    <2>1. PICK s \in Settings, r \in Requests :
            Writing /\ Agree(settings, requested, s, r) /\ Keeps(s, r)
      BY <1>2 DEF Keeping
    <2>2. settings \in Settings /\ requested \in Requests
      BY DEF TypeOK
    <2>3. /\ settings' = s /\ requested' = r /\ definition' = definition
          /\ port = "idle" /\ port' = "idle" /\ skipped' = skipped
      BY <2>1 DEF Writing, Keeps
    <2>4. ASSUME ~skipped, EnergiesValid(s, r)
          PROVE  SameButMode(definition, Built(s, r))
      <3>1. EnergiesValid(settings, requested)
        BY <2>1, <2>2, <2>4, AgreeDefinitions
      <3>2. SameButMode(definition, Built(settings, requested))
        BY <2>3, <2>4, <3>1
      <3>3. SameButMode(Built(settings, requested), Built(s, r))
        BY <2>1, <2>2, AgreeDefinitions
      <3>4. PICK mode \in SUBSET {"X", "Z"} : definition \in Definitions(mode)
        BY DEF TypeOK
      <3> QED  BY <3>2, <3>3, <3>4, SameButModeTransitive
    <2> QED  BY <2>3, <2>4
  <1>3. CASE Fill
    BY <1>3 DEF Fill
  <1>4. ASSUME port = "adjust", port' = "idle", UNCHANGED <<settings, requested, definition>>
        PROVE  SetupConsistent'
    <2>1. settings \in Settings /\ requested \in Requests
      BY DEF TypeOK
    <2>2. Built(settings, requested) \in Definitions(settings.mode)
      BY <2>1, BuiltType
    <2>3. SameButMode(Built(settings, requested), Built(settings, requested))
      BY <2>2 DEF SameButMode, Definitions
    <2> QED  BY <1>4, <2>3
  <1>5. CASE Adjusted \/ AdjustFails
    BY <1>4, <1>5 DEF Adjusted, AdjustFails
  <1>6. CASE UNCHANGED <<settings, requested, definition, port, skipped>>
    BY <1>6
  <1>7. CASE Snapshot \/ DefineSpectrum \/ FirstUpdate \/ EndAcquisition \/ UNCHANGED vars
    BY <1>6, <1>7 DEF Snapshot, DefineSpectrum, FirstUpdate, EndAcquisition, vars, history
  <1> QED  BY <1>1, <1>2, <1>3, <1>5, <1>7, StepCases DEF SettingsAllowed

LEMMA SetupInit ==
    ASSUME Init
    PROVE  SetupConsistent
  <1>1. settings \in Settings /\ requested \in Requests
    BY TypesInit DEF TypeOK
  <1>2. Built(settings, requested) \in Definitions(settings.mode)
    BY <1>1, BuiltType
  <1>3. SameButMode(Built(settings, requested), Built(settings, requested))
    BY <1>2 DEF SameButMode, Definitions
  <1> QED  BY <1>3 DEF Init, SetupConsistent, DefinitionCurrent

\* Whatever is written, in any order, accepted or restored: between writes the
\* definition is the one its settings make, but for the detector's mode.
THEOREM DefinitionStaysCurrent == Spec => []DefinitionCurrent
  <1>1. Init => TypeOK /\ SettingsAllowed /\ SetupConsistent
    BY TypesInit, SetupInit
  <1>2. (TypeOK /\ SettingsAllowed /\ SetupConsistent) /\ [Next]_vars
          => (TypeOK /\ SettingsAllowed /\ SetupConsistent)'
    BY TypesStep, SetupStep
  <1>3. SetupConsistent => DefinitionCurrent
    BY DEF SetupConsistent
  <1> QED  BY <1>1, <1>2, <1>3, PTL DEF Spec

-----------------------------------------------------------------------------
(* What the server is asked for.                                               *)

\* A clamped value is in its range.
LEMMA LimitedWithin ==
    ASSUME NEW value \in Int, NEW range \in Int \X Int, range[1] <= range[2]
    PROVE  Limited(value, range) \in range[1] .. range[2]
  BY DEF Limited

\* Allowed settings make a definition the server can carry out.
LEMMA BuiltWithinLimits ==
    ASSUME NEW s \in Settings, NEW r \in Requests, Allowed(s), ModesValid(s),
           PassEnergyInRange(s)
    PROVE  Within(Built(s, r))
  <1> DEFINE lens  == LensModes[s.lensMode]
             range == lens.passEnergyRange
             yRange == lens.yDeflectionRange
             d == Built(s, r)
             energies == {PassEnergies[e] : e \in DOMAIN PassEnergies}
  <1>1. /\ d.lensMode = s.lensMode /\ d.passEnergy = PassEnergies[s.passEnergy]
        /\ DOMAIN d.sweep = s.mode
        /\ \A a \in XY : d.roi[a].high = s.min[a] + s.size[a]
    BY DEF Built
  <1>2. ASSUME "Z" \in s.mode
        PROVE  /\ lens.hasYDeflection
               /\ yRange[1] <= yRange[2] => d.sweep["Z"].Offset \in yRange[1] .. yRange[2]
    <2>1. lens.hasYDeflection
      BY <1>2 DEF Allowed, HasAngleY
    <2>2. yRange \in Int \X Int
      <3>1. lens \in LensMode
        BY ServerAssumption DEF Settings
      <3> QED  BY <3>1 DEF LensMode
    <2>3. d.sweep["Z"].Offset = Target(s, r, "Z", "low")
      BY <1>2 DEF Built, Sweep
    <2>4. Target(s, r, "Z", "low") = Limited(r["Z"].low, yRange)
      BY <2>1 DEF Target
    <2>5. r["Z"].low \in Int
      BY DEF Requests, Axes
    <2> HIDE DEF yRange
    <2>6. yRange[1] <= yRange[2] => Limited(r["Z"].low, yRange) \in yRange[1] .. yRange[2]
      BY <2>2, <2>5, LimitedWithin
    <2> QED  BY <2>1, <2>3, <2>4, <2>6
  <1>3. {range[1], range[2]} \subseteq energies /\ range[1] <= range[2] =>
            d.passEnergy \in range[1] .. range[2]
    BY <1>1 DEF PassEnergyInRange
  <1>4. d.detectorMode \in DetectorModes /\ \A a \in XY : d.roi[a].high <= MaxSize[a]
    BY <1>1 DEF Allowed, ModesValid, Built
  <1> QED  BY <1>1, <1>2, <1>3, <1>4 DEF Within

LEMMA WithinLimitsStep ==
    ASSUME TypeOK, SettingsAllowed, WithinLimits, [Next]_vars
    PROVE  WithinLimits'
  <1>1. CASE Fill
    <2>1. Within(Built(settings, requested))
      BY <1>1, BuiltWithinLimits DEF TypeOK, SettingsAllowed, Fill
    <2>2. definition' = Built(settings, requested)
      BY <1>1 DEF Fill
    <2> QED  BY <2>1, <2>2 DEF WithinLimits
  <1>2. CASE UNCHANGED definition
    BY <1>2 DEF WithinLimits
  <1>3. ~Fill => UNCHANGED definition
    BY StepCases DEF SettingsAllowed, SettingUp, Keeping, Writing, Adjusted, AdjustFails,
                     Snapshot, DefineSpectrum, FirstUpdate, EndAcquisition, vars
  <1> QED  BY <1>1, <1>2, <1>3

\* The server is never asked for what its lens mode cannot do, for a detector mode
\* it has not, or for a region that ends beyond its detector, whatever lens modes
\* and pass energies it has and whatever is written.
THEOREM DefinitionsWithinLimits == Spec => []WithinLimits
  <1>1. Init => TypeOK /\ SettingsAllowed /\ WithinLimits
    BY TypesInit, InitialAllowed, BuiltWithinLimits DEF Init, TypeOK, WithinLimits
  <1>2. (TypeOK /\ SettingsAllowed /\ WithinLimits) /\ [Next]_vars
          => (TypeOK /\ SettingsAllowed /\ WithinLimits)'
    BY TypesStep, WithinLimitsStep
  <1> QED  BY <1>1, <1>2, PTL DEF Spec

-----------------------------------------------------------------------------
(* What is shown.                                                              *)

\* The time is a multiple of the number of exposures it was calculated for.
LEMMA DividedAgain ==
    ASSUME NEW w \in Int, NEW n \in Int \ {0}
    PROVE  PerExposure({w * n}, n) = {w}
  <1>1. CASE n > 0
    <2>1. (w * n) \div n = w
      BY <1>1
    <2> QED  BY <1>1, <2>1 DEF PerExposure
  <1>2. CASE n < 0
    <2> DEFINE m == -n
    <2>1. m \in Int /\ m > 0
      BY <1>2
    <2>2. -(w * n) = w * m
      OBVIOUS
    <2> HIDE DEF m
    <2>3. (w * m) \div m = w
      BY <2>1
    <2>4. (-(w * n)) \div m = w
      BY <2>2, <2>3
    <2>5. PerExposure({w * n}, n) = {(-x) \div m : x \in {w * n}}
      BY <1>2 DEF PerExposure, m
    <2> QED  BY <2>4, <2>5
  <1> QED  BY <1>1, <1>2

\* No exposures are remembered until the server accepts a definition for some.
EtaConsistent == EtaShown /\ (settings.numExposures = 0 => zeroed)

LEMMA EtaStep ==
    ASSUME TypeOK, SettingsAllowed, EtaConsistent, [Next]_vars
    PROVE  EtaConsistent'
  <1> USE DEF EtaConsistent, EtaShown
  <1>1. CASE SettingUp
    <2>1. PICK s \in Settings, r \in Requests :
            /\ Writing /\ Allowed(s) /\ SetsUp(s, r)
            /\ s.numExposures = settings.numExposures /\ UNCHANGED AcqETA
      BY <1>1 DEF SettingUp
    <2>2. settings'.numExposures = settings.numExposures
      BY <2>1, SetupSettings
    <2> QED  BY <2>1, <2>2 DEF SetsUp, Writing
  <1>2. CASE Keeping
    <2>1. PICK s \in Settings, r \in Requests :
            /\ Writing /\ Keeps(s, r)
            /\ \/ s.numExposures = settings.numExposures /\ UNCHANGED <<AcqETA, zeroed>>
               \/ Rescales(s.numExposures)
      BY <1>2 DEF Keeping
    <2>2. CASE Rescales(s.numExposures)
      <3> DEFINE n == settings.numExposures
                 e == s.numExposures
      <3>1. wall \in Int /\ n \in Int /\ e \in Int
        BY DEF TypeOK, Settings
      <3>2. AcqETA' = {x * e : x \in PerExposure(AcqETA, n)} /\ zeroed' = (zeroed \/ e = 0)
        BY <2>2 DEF Rescales
      <3>3. settings'.numExposures = e /\ wall' = wall
        BY <2>1 DEF Keeps, Writing
      <3> HIDE DEF n, e
      <3>4. CASE n # 0 /\ AcqETA = {wall * n}
        <4>1. PerExposure(AcqETA, n) = {wall}
          BY <3>1, <3>4, DividedAgain
        <4> QED  BY <3>2, <3>3, <4>1
      <3>5. CASE n = 0
        <4>1. PerExposure(AcqETA, n) = {}
          BY <3>5 DEF PerExposure
        <4>2. zeroed
          BY <3>5 DEF n
        <4> QED  BY <3>2, <3>3, <4>1, <4>2
      <3>6. CASE AcqETA = {} /\ zeroed
        <4>1. PerExposure(AcqETA, n) = {}
          BY <3>6 DEF PerExposure
        <4> QED  BY <3>2, <3>3, <3>6, <4>1
      <3> QED  BY <3>4, <3>5, <3>6 DEF n
    <2> QED  BY <2>1, <2>2 DEF Keeps, Writing
  <1>3. CASE Adjusted
    BY <1>3 DEF Adjusted
  <1>4. CASE UNCHANGED <<settings, wall, AcqETA, zeroed>>
    BY <1>4
  <1>5. CASE \/ Fill \/ AdjustFails \/ Snapshot \/ DefineSpectrum \/ FirstUpdate
             \/ EndAcquisition \/ UNCHANGED vars
    BY <1>4, <1>5 DEF Fill, AdjustFails, Snapshot, DefineSpectrum, FirstUpdate,
                      EndAcquisition, vars, history
  <1> QED  BY <1>1, <1>2, <1>3, <1>5, StepCases DEF SettingsAllowed

\* The time shown is for the number of exposures that is set, for any numbers, or no
\* number because no exposures have been set since the last answer.
THEOREM EtaFollowsExposures == Spec => []EtaShown
  <1>1. Init => TypeOK /\ SettingsAllowed /\ EtaConsistent
    <2>1. ASSUME Init
          PROVE  EtaConsistent
      <3>1. settings.numExposures # 0
        BY <2>1, InitialAllowed DEF Init
      <3>2. AcqETA = {wall * settings.numExposures}
        BY <2>1 DEF Init
      <3> QED  BY <3>1, <3>2 DEF EtaConsistent, EtaShown
    <2> QED  BY <2>1, TypesInit
  <1>2. (TypeOK /\ SettingsAllowed /\ EtaConsistent) /\ [Next]_vars
          => (TypeOK /\ SettingsAllowed /\ EtaConsistent)'
    BY TypesStep, EtaStep
  <1>3. EtaConsistent => EtaShown
    BY DEF EtaConsistent
  <1> QED  BY <1>1, <1>2, <1>3, PTL DEF Spec

\* A region in scale was calculated for the axes the settings sweep.
RegionConsistent ==
    /\ RegionInScale
    /\ fresh => port = "idle" /\ DOMAIN definition.sweep = settings.mode

\* Where the settings sweep what the definition sweeps, setRegion counts its steps.
LEMMA RegionCalculated ==
    ASSUME NEW d, NEW s, DOMAIN d.sweep = s.mode
    PROVE  Steps(d, s) = StepsOf(d)
  BY DEF Steps, StepsOf

LEMMA RegionStep ==
    ASSUME TypeOK, SettingsAllowed, SetupConsistent, RegionConsistent, [Next]_vars
    PROVE  RegionConsistent'
  <1> USE DEF RegionConsistent, RegionInScale
  <1>1. CASE SettingUp
    BY <1>1 DEF SettingUp, SetsUp
  <1>2. CASE Keeping
    <2>1. PICK s \in Settings, r \in Requests :
            /\ Writing /\ Agree(settings, requested, s, r) /\ Keeps(s, r) /\ UNCHANGED region
      BY <1>2 DEF Keeping
    <2>2. RegionOf(definition, s) = RegionOf(definition, settings) /\ s.mode = settings.mode
      BY <2>1 DEF Agree, RegionOf
    <2> QED  BY <2>1, <2>2 DEF Keeps, Writing
  <1>3. CASE Fill
    BY <1>3 DEF Fill, history
  <1>4. CASE Adjusted
    <2>1. DOMAIN definition.sweep = settings.mode
      BY <1>4 DEF Adjusted, SetupConsistent, Built
    <2>2. Steps(definition, settings) = StepsOf(definition)
      BY <2>1, RegionCalculated
    <2> QED  BY <1>4, <2>1, <2>2 DEF Adjusted
  <1>5. CASE FirstUpdate
    <2>1. ASSUME fresh'
          PROVE  /\ region' = RegionOf(definition, settings)
                 /\ AcqNumSteps' = StepsOf(definition)
      <3>1. fresh /\ spectrum = definition
        BY <1>5, <2>1 DEF FirstUpdate
      <3>2. Steps(definition, settings) = StepsOf(definition)
        BY <3>1, RegionCalculated
      <3> QED  BY <1>5, <3>1, <3>2 DEF FirstUpdate
    <2> QED  BY <1>5, <2>1 DEF FirstUpdate
  <1>6. CASE UNCHANGED <<settings, definition, region, AcqNumSteps, port, fresh>>
    BY <1>6
  <1>7. CASE AdjustFails
    BY <1>7 DEF AdjustFails, history
  <1>8. CASE Snapshot \/ DefineSpectrum \/ EndAcquisition \/ UNCHANGED vars
    BY <1>6, <1>8 DEF Snapshot, DefineSpectrum, EndAcquisition, vars, shown, history
  <1> QED
    BY <1>1, <1>2, <1>3, <1>4, <1>5, <1>7, <1>8, StepCases DEF SettingsAllowed

LEMMA RegionInit ==
    ASSUME Init
    PROVE  RegionConsistent
  <1>1. DOMAIN definition.sweep = settings.mode
    BY DEF Init, Built
  <1>2. Steps(definition, settings) = StepsOf(definition)
    BY <1>1, RegionCalculated
  <1> QED  BY <1>1, <1>2 DEF Init, RegionConsistent, RegionInScale

\* A region calculated since the last setup is that of the definition in force,
\* in the scale of the energy mode, with its number of steps.
THEOREM RegionStaysInScale == Spec => []RegionInScale
  <1> DEFINE IInv == TypeOK /\ SettingsAllowed /\ SetupConsistent /\ RegionConsistent
  <1>1. Init => IInv
    BY TypesInit, SetupInit, RegionInit
  <1>2. IInv /\ [Next]_vars => IInv'
    BY TypesStep, SetupStep, RegionStep
  <1>3. IInv => RegionInScale
    BY DEF RegionConsistent
  <1> QED  BY <1>1, <1>2, <1>3, PTL DEF Spec

-----------------------------------------------------------------------------
(* What an acquisition takes.                                                  *)

\* Until a write sets up a definition, nothing the task read has changed.
SnapshotValid ==
    pc = "define" /\ ~touched => port = "idle" /\ (fresh => numSteps = AcqNumSteps)

LEMMA SnapshotStep ==
    ASSUME TypeOK, SettingsAllowed, SnapshotValid, [Next]_vars
    PROVE  SnapshotValid'
  <1> USE DEF SnapshotValid
  <1>1. CASE SettingUp
    BY <1>1 DEF SettingUp, SetsUp, Writing, task
  <1>2. CASE Keeping
    BY <1>2 DEF Keeping, Keeps, Writing, task
  <1>3. CASE Fill \/ Adjusted \/ AdjustFails
    BY <1>3 DEF Fill, Adjusted, AdjustFails, task, history
  <1>4. CASE Snapshot
    BY <1>4 DEF Snapshot, shown
  <1>5. CASE DefineSpectrum \/ FirstUpdate \/ EndAcquisition
    BY <1>5 DEF DefineSpectrum, FirstUpdate, EndAcquisition, task
  <1>6. CASE UNCHANGED vars
    BY <1>6 DEF vars, task, shown, history
  <1> QED  BY <1>1, <1>2, <1>3, <1>4, <1>5, <1>6, StepCases DEF SettingsAllowed

\* Unless a write has set up a definition since the acquisition began, what the
\* server gets is the definition of the settings, and the number of steps its own.
THEOREM SpectraOfSettings == Spec => SpectrumOfSettings
  <1> DEFINE IInv == TypeOK /\ SettingsAllowed /\ SetupConsistent /\ RegionConsistent
                       /\ SnapshotValid
  <1>1. Init => IInv
    BY TypesInit, SetupInit, RegionInit DEF Init, SnapshotValid
  <1>2. IInv /\ [Next]_vars => IInv'
    BY TypesStep, SetupStep, RegionStep, SnapshotStep
  <1>3. ASSUME IInv, [Next]_vars, pc = "define", pc' = "acquire", ~touched
        PROVE  /\ InForce
                    => SameButMode(spectrum', Built(settings, requested))
               /\ fresh => numSteps = StepsOf(spectrum')
    <2>1. DefineSpectrum
      BY <1>3, StepCases DEF SettingsAllowed, SettingUp, Keeping, Writing, Fill, Adjusted,
           AdjustFails, Snapshot, FirstUpdate, EndAcquisition, vars, task
    <2>2. port = "idle" /\ (fresh => numSteps = AcqNumSteps)
      BY <1>3 DEF SnapshotValid
    <2>3. spectrum' = definition
      BY <2>1, <2>2 DEF DefineSpectrum
    <2> QED
      BY <1>3, <2>2, <2>3
      DEF SetupConsistent, DefinitionCurrent, RegionConsistent, RegionInScale
  <1>4. IInv /\ [Next]_vars =>
          [pc = "define" /\ pc' = "acquire" /\ ~touched =>
              /\ InForce
                   => SameButMode(spectrum', Built(settings, requested))
              /\ fresh => numSteps = StepsOf(spectrum')]_vars
    BY <1>3
  <1> QED  BY <1>1, <1>2, <1>4, PTL DEF Spec, SpectrumOfSettings

-----------------------------------------------------------------------------
(* What is swept.                                                              *)

\* The quotient is rounded up, and by less than one.
LEMMA CeilingBounds ==
    ASSUME NEW n \in Nat, NEW d \in Nat \ {0}
    PROVE  n <= d * Ceiling(n, d) /\ d * Ceiling(n, d) <= n + d - 1
  <1> DEFINE c == (n + d - 1) \div d
             m == (n + d - 1) % d
  <1>1. c \in Int /\ m \in 0 .. d - 1
    OBVIOUS
  <1>2. n + d - 1 = d * c + m
    OBVIOUS
  <1>3. d * c \in Int
    BY <1>1
  <1> HIDE DEF c, m
  <1>4. n <= d * c /\ d * c <= n + d - 1
    BY <1>1, <1>2, <1>3
  <1>5. Ceiling(n, d) = c
    BY CeilingType DEF c
  <1> QED  BY <1>4, <1>5

LEMMA CeilingMonotone ==
    ASSUME NEW m \in Nat, NEW n \in Nat, NEW d \in Nat \ {0}, m <= n
    PROVE  Ceiling(m, d) <= Ceiling(n, d)
  <1> DEFINE c == Ceiling(m, d)
             e == Ceiling(n, d)
  <1>1. c \in Nat /\ e \in Nat
    BY CeilingType
  <1>2. n <= d * e /\ d * c <= m + d - 1
    BY CeilingBounds
  <1> HIDE DEF c, e
  <1>3. SUFFICES ASSUME e + 1 <= c
                 PROVE  FALSE
    BY <1>1 DEF c, e
  <1>4. d * (e + 1) <= d * c
    BY <1>1, <1>3
  <1>5. d * (e + 1) = d * e + d
    BY <1>1
  <1>6. d * e \in Int /\ d * c \in Int
    BY <1>1
  <1> QED  BY <1>2, <1>4, <1>5, <1>6

\* Between low and high no value is a step away from the point that follows it.
LEMMA SweepCovers ==
    ASSUME NEW low \in Int, NEW high \in Int, low < high, NEW step \in Nat \ {0}
    PROVE  LET data == AxisData([Offset |-> low, Delta |-> step, Count |-> Count(low, high, step)])
           IN  /\ data[0] = low
               /\ \A value \in low .. high :
                     \E i \in DOMAIN data : data[i] - value \in 0 .. step - 1
  <1> DEFINE c    == Ceiling(high - low, step)
             data == AxisData([Offset |-> low, Delta |-> step, Count |-> Count(low, high, step)])
  <1>1. high - low \in Nat
    OBVIOUS
  <1>2. c \in Nat
    BY <1>1, CeilingType
  <1>3. Count(low, high, step) = 1 + c
    BY DEF Count, Distance
  <1>4. data = [i \in 0 .. c |-> low + step * i]
    <2>1. (1 + c) - 1 = c
      BY <1>2
    <2> QED  BY <1>3, <2>1 DEF AxisData
  <1> HIDE DEF c, data
  <1>5. data[0] = low
    BY <1>2, <1>4
  <1>6. ASSUME NEW value \in low .. high
        PROVE  \E i \in DOMAIN data : data[i] - value \in 0 .. step - 1
    <2> DEFINE i == Ceiling(value - low, step)
    <2>1. value - low \in Nat /\ value - low <= high - low
      OBVIOUS
    <2>2. i \in Nat /\ i <= c
      BY <1>1, <2>1, CeilingType, CeilingMonotone DEF c
    <2>3. value - low <= step * i /\ step * i <= value - low + step - 1
      BY <2>1, CeilingBounds
    <2> HIDE DEF i
    <2>4. i \in DOMAIN data /\ data[i] = low + step * i
      BY <1>2, <1>4, <2>2
    <2>5. step * i \in Int
      BY <2>2
    <2>6. data[i] - value \in 0 .. step - 1
      BY <2>3, <2>4, <2>5
    <2> QED  BY <2>4, <2>6
  <1> QED  BY <1>5, <1>6 DEF data

\* A sweep reaches from its low end to its high end without a gap, whatever the
\* ends and the step.
THEOREM SweepsCoverRange == Spec => []SweepCoversRange
  <1>1. Init => TypeOK /\ SettingsAllowed /\ SetupConsistent
    BY TypesInit, SetupInit
  <1>2. (TypeOK /\ SettingsAllowed /\ SetupConsistent) /\ [Next]_vars
          => (TypeOK /\ SettingsAllowed /\ SetupConsistent)'
    BY TypesStep, SetupStep
  <1>3. ASSUME TypeOK, SetupConsistent
        PROVE  SweepCoversRange
    <2>1. SUFFICES
            ASSUME port = "idle", InForce, NEW a \in settings.mode,
                   Target(settings, requested, a, "low")
                     < Target(settings, requested, a, "high"),
                   requested[a].step > 0
            PROVE  LET low  == Target(settings, requested, a, "low")
                       high == Target(settings, requested, a, "high")
                       data == AxisData(definition.sweep[a])
                   IN  /\ data[0] = low
                       /\ \A value \in low .. high :
                             \E i \in DOMAIN data : data[i] - value \in 0 .. requested[a].step - 1
      BY DEF SweepCoversRange
    <2> DEFINE low  == Target(settings, requested, a, "low")
               high == Target(settings, requested, a, "high")
               step == requested[a].step
    <2>2. settings \in Settings /\ requested \in Requests /\ a \in Axes
      BY <1>3 DEF TypeOK, Settings, Axes
    <2>3. low \in Int /\ high \in Int
      BY <2>2, TargetType
    <2>4. step \in Nat \ {0}
      BY <2>1, <2>2 DEF Requests
    <2>5. definition.sweep[a] = [Offset |-> low, Delta |-> step, Count |-> Count(low, high, step)]
      <3>1. SameButMode(definition, Built(settings, requested))
        BY <1>3, <2>1 DEF SetupConsistent, DefinitionCurrent
      <3>2. PICK mode \in SUBSET {"X", "Z"} : definition \in Definitions(mode)
        BY <1>3 DEF TypeOK
      <3>3. definition.sweep = Built(settings, requested).sweep
        BY <3>1, <3>2 DEF SameButMode, Definitions
      <3>4. Built(settings, requested).sweep[a] = Sweep(settings, requested, a)
        BY DEF Built
      <3> QED  BY <3>3, <3>4 DEF Sweep
    <2> HIDE DEF low, high, step
    <2>6. low < high
      BY <2>1 DEF low, high
    <2> QED  BY <2>3, <2>4, <2>5, <2>6, SweepCovers DEF low, high, step
  <1> QED  BY <1>1, <1>2, <1>3, PTL DEF Spec

=============================================================================
