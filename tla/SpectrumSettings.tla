-------------------------- MODULE SpectrumSettings --------------------------
(***************************************************************************)
(* The settings an operator writes and the spectrum definition the driver  *)
(* makes of them.                                                          *)
(*                                                                         *)
(*   the port      writeInt32 and writeFloat64: a write stores the value,  *)
(*                 restores or clamps it, and for most parameters calls    *)
(*                 setupSpectrumDefinition, which fills                    *)
(*                 m_SpectrumDefinition, has the server adjust it, and     *)
(*                 shows the region and the time of the answer.  The port  *)
(*                 holds the driver lock all the while;                    *)
(*   the task      acquisitionTask, reduced to what it takes of this: the  *)
(*                 number of steps, under the lock, and then               *)
(*                 m_SpectrumDefinition, without it; and the first update  *)
(*                 of a spectrum, which corrects the region.               *)
(*                                                                         *)
(* Axis X is the energy, Y the slice (theta X), Z the angle theta Y.  The  *)
(* mode of an acquisition is the set of axes it sweeps.  Quantities are    *)
(* integers: a unit is the resolution.                                     *)
(*                                                                         *)
(* A number may be written with any value: the code checks that the energies *)
(* of a sweep are above zero, and that a region of the detector does not end *)
(* beyond it, and no more.  The parameters of enumerations (lens mode, pass  *)
(* energy, detector mode) are written by records that have no negative value.*)
(*                                                                         *)
(* A definition marked "Variant" is a plausible mistake in the definition  *)
(* that follows it; no specification uses it.                              *)
(***************************************************************************)
EXTENDS Integers

CONSTANTS
    LensModes,      \* m_LensModes: lens mode -> LensModeSetting
    PassEnergies,   \* m_PassEnergies: index -> energy
    DetectorModes,  \* m_DetectorModes
    MaxSize,        \* ADMaxSizeX and ADMaxSizeY, by axis
    Camera,         \* the camera's calibrated region, by axis: [min, size]
    Analyser,       \* the analyser's settings when the driver connects
    Database,       \* the settings the records write when the IOC starts
    Written,        \* bound: values the operator writes, by parameter
    MaxWrites       \* bound: writes

Axes == {"X", "Y", "Z"}
XY   == {"X", "Y"}

Requests == [Axes -> [low : Int, high : Int, center : Int, step : Int]]

LensMode == [hasYDeflection : BOOLEAN,
             passEnergyRange : Int \X Int, yDeflectionRange : Int \X Int]

ASSUME ServerAssumption ==
    /\ LensModes = [l \in DOMAIN LensModes |-> LensModes[l]]
    /\ \A l \in DOMAIN LensModes : LensModes[l] \in LensMode
    /\ PassEnergies = [e \in DOMAIN PassEnergies |-> PassEnergies[e]]
    /\ \A e \in DOMAIN PassEnergies : PassEnergies[e] \in Int
    /\ \A e, f \in DOMAIN PassEnergies : PassEnergies[e] = PassEnergies[f] => e = f
    /\ MaxSize \in [XY -> Nat \ {0}]
    /\ Camera \in [XY -> [min : Nat, size : Nat \ {0}]]
    /\ \A d \in XY : Camera[d].min + Camera[d].size <= MaxSize[d]
    /\ Analyser \in [lensMode : DOMAIN LensModes, passEnergy : DOMAIN PassEnergies,
                     detectorMode : DetectorModes, dwellTime : Int]
    /\ Database \in [requested : Requests, excitation : Int, workFunction : Int]

ASSUME WrittenAssumption ==
    /\ Written = [field \in DOMAIN Written |-> Written[field]]
    /\ {"lensMode", "passEnergy", "detectorMode"} \subseteq DOMAIN Written
    /\ Written.lensMode \subseteq Nat /\ Written.passEnergy \subseteq Nat
    /\ \A field \in {"photon", "acquireTime", "numExposures", "min", "size", "channels",
                     "ends", "step"} :
            field \in DOMAIN Written /\ Written[field] \subseteq Int
    /\ MaxWrites \in Nat

VARIABLES
    settings,       \* parameters an operator writes
    requested,      \* m_RequestedAxes, by axis
    definition,     \* m_SpectrumDefinition
    region,         \* parameters setRegion shows, by axis
    AcqNumSteps,
    AcqETA,         \* a double: the set of the number shown, empty for NaN
    port,           \* "idle", or where setupSpectrumDefinition is
    \* the task: where it is, the steps it read, what the server got
    pc, numSteps, spectrum,
    \* history: WallClockTime of the last answer; no write has called
    \* setupSpectrumDefinition since its last success, or since the task read
    \* AcqNumSteps; its last call returned at the check of the modes; no exposures
    \* have been set at some time since the last answer; writes
    wall, fresh, touched, skipped, zeroed, writes

shown   == <<region, AcqNumSteps>>
task    == <<pc, numSteps, spectrum>>
history == <<wall, fresh, touched, skipped, zeroed>>

vars == <<settings, requested, definition, shown, AcqETA, port, task, history, writes>>

-----------------------------------------------------------------------------
(* The definition that settings s and requested axes r make. *)

Limited(value, range) ==    \* clamp
    IF value < range[1] THEN range[1] ELSE IF value > range[2] THEN range[2] ELSE value

\* Energies are written in the scale of EnergyMode, and defined as kinetic.
Shift(s) == IF s.energyMode = "Binding" THEN s.excitation - s.workFunction ELSE 0

\* What the definition says of a requested end or centre of an axis.
Target(s, r, a, field) ==
    CASE a = "X" -> r[a][field] + Shift(s)
      [] a = "Z" /\ LensModes[s.lensMode].hasYDeflection ->
            Limited(r[a][field], LensModes[s.lensMode].yDeflectionRange)
      [] OTHER -> r[a][field]

\* Without a step the number of points is infinite, which JSON has no number for.
NoCount == 0

Ceiling(n, d) == IF d > 0 THEN (n + d - 1) \div d ELSE -(n \div (-d))

Distance(low, high) == IF low < high THEN high - low ELSE low - high

\* Variant: the point at the low end is not counted.
CountOffByOne(low, high, step) ==
    IF step = 0 THEN NoCount ELSE Ceiling(Distance(low, high), step)

\* Points of a sweep; ends that are the same are taken to differ by an epsilon.
Count(low, high, step) ==
    IF step = 0 THEN NoCount
    ELSE 1 + (IF low = high /\ step > 0 THEN 1 ELSE Ceiling(Distance(low, high), step))

Sweep(s, r, a) ==
    [Offset |-> Target(s, r, a, "low"), Delta |-> r[a].step,
     Count |-> Count(Target(s, r, a, "low"), Target(s, r, a, "high"), r[a].step)]

Built(s, r) ==
    [lensMode     |-> s.lensMode,
     passEnergy   |-> PassEnergies[s.passEnergy],
     detectorMode |-> s.detectorMode,
     dwellTime    |-> s.acquireTime,
     roi          |-> [d \in XY |-> [low |-> s.min[d], high |-> s.min[d] + s.size[d]]],
     sweep        |-> [a \in s.mode |-> Sweep(s, r, a)],
     center       |-> [a \in Axes \ s.mode |-> Target(s, r, a, "center")],
     binning      |-> [d \in XY \ s.mode |-> <<s.size[d], s.channels[d]>>]]

\* The check of the modes in setupSpectrumDefinition.  The lens mode and the pass
\* energy were checked before they were stored; the element set is written and
\* checked as the detector mode is.
ModesValid(s) == s.detectorMode \in DetectorModes

\* Its check of the energies.
EnergiesValid(s, r) ==
    "X" \in s.mode => \A f \in {"low", "center", "high"} : Target(s, r, "X", f) > 0

\* setPassEnergy: the pass energy is moved into the range of the lens mode, if
\* the end of the range is a pass energy the analyser is calibrated for.
PassEnergyLimited(s) ==
    LET energy == Limited(PassEnergies[s.passEnergy], LensModes[s.lensMode].passEnergyRange)
        found  == {e \in DOMAIN PassEnergies : PassEnergies[e] = energy}
    IN  IF found = {} THEN s
        ELSE [s EXCEPT !.passEnergy = CHOOSE e \in found : TRUE]

-----------------------------------------------------------------------------
(* What is shown of the server's answer. *)

\* External: the axes the server adjusts a definition to.  A fixed energy axis
\* has the channels of the detector, whose window is not modelled.
Requested(d, a) ==
    IF a \in DOMAIN d.sweep
      THEN LET low  == d.sweep[a].Offset
               high == low + d.sweep[a].Delta * (d.sweep[a].Count - 1)
           IN  [low |-> low, high |-> high, center |-> (low + high) \div 2,
                step |-> d.sweep[a].Delta, count |-> d.sweep[a].Count]
      ELSE [low |-> d.center[a], high |-> d.center[a], center |-> d.center[a], step |-> 0,
            count |-> IF a \in XY THEN d.binning[a][2] ELSE 1]

NoAxis == [low |-> 0, high |-> 0, center |-> 0, step |-> 0, count |-> 0]

HasAxis(d, a) == a = "Z" => LensModes[d.lensMode].hasYDeflection

Shifted(axis, by) ==
    [axis EXCEPT !.low = @ + by, !.high = @ + by, !.center = @ + by]

\* The region setRegion shows.
RegionOf(d, s) ==
    [a \in Axes |-> IF ~HasAxis(d, a) THEN NoAxis
                    ELSE IF a = "X" THEN Shifted(Requested(d, a), -Shift(s))
                    ELSE Requested(d, a)]

Times(d, a, sweeps) == IF sweeps /\ HasAxis(d, a) THEN Requested(d, a).count ELSE 1

\* The number of steps setRegion counts, by the mode of the settings.
Steps(d, s) == Times(d, "X", "X" \in s.mode) * Times(d, "Z", "Z" \in s.mode)

\* The number of steps of a definition itself.
StepsOf(d) == Times(d, "X", "X" \in DOMAIN d.sweep) * Times(d, "Z", "Z" \in DOMAIN d.sweep)

\* External: WallClockTime of the server's answer.
WallClock(d) == d.dwellTime * StepsOf(d)

\* External: a definition of which a number is missing is not accepted.
Complete(d) ==
    /\ \A a \in DOMAIN d.sweep : d.sweep[a].Count # NoCount
    /\ \A a \in DOMAIN d.binning : d.binning[a][2] # 0

\* The values of an axis that is published (createAxis).  A sweep has two points
\* or more; an axis of one would have its centre.
AxisData(axis) ==
    [i \in 0 .. axis.Count - 1 |-> axis.Offset + axis.Delta * i]

-----------------------------------------------------------------------------
\* What the server got when it is none of the definitions the port made: parts
\* of two, or nothing.
NoDefinition == [torn |-> TRUE]

InitialSettings ==
    PassEnergyLimited(
      [mode |-> {}, lensMode |-> Analyser.lensMode, passEnergy |-> Analyser.passEnergy,
       energyMode |-> "Kinetic", excitation |-> Database.excitation,
       workFunction |-> Database.workFunction,
       acquireTime |-> Analyser.dwellTime, numExposures |-> 1,
       detectorMode |-> Analyser.detectorMode,
       min  |-> [d \in XY |-> Camera[d].min],
       size |-> [d \in XY |-> Camera[d].size], channels |-> [d \in XY |-> Camera[d].size]])

\* The driver has connected, and the records have written their values.
Init ==
    /\ settings = InitialSettings
    /\ requested = Database.requested
    /\ definition = Built(settings, requested)
    /\ region = RegionOf(definition, settings)
    /\ AcqNumSteps = Steps(definition, settings)
    /\ AcqETA = {WallClock(definition) * settings.numExposures}
    /\ port = "idle"
    /\ pc = "idle"
    /\ numSteps = 0
    /\ spectrum = NoDefinition
    /\ wall = WallClock(definition)
    /\ fresh = TRUE
    /\ touched = FALSE
    /\ skipped = FALSE
    /\ zeroed = FALSE
    /\ writes = 0

-----------------------------------------------------------------------------
(* The port: writes.  Each is one step up to its return, or to where           *)
(* setupSpectrumDefinition begins to fill the definition.                      *)

Writing ==
    /\ port = "idle"
    /\ writes < MaxWrites
    /\ writes' = writes + 1
    /\ UNCHANGED <<definition, AcqNumSteps, task, wall>>

\* The write ends with settings s and requested axes r.
Keeps(s, r) ==
    /\ settings' = s
    /\ requested' = r
    /\ UNCHANGED <<port, fresh, touched, skipped>>

\* The write calls setupSpectrumDefinition, which returns early when the analyser
\* has no such mode, and again when an energy to sweep is not above zero.
SetsUp(s, r) ==
    /\ settings' = IF ModesValid(s) THEN PassEnergyLimited(s) ELSE s
    /\ requested' = r
    /\ port' = IF ModesValid(s) /\ EnergiesValid(s, r) THEN "fill" ELSE "idle"
    /\ fresh' = FALSE
    /\ touched' = (pc = "define")
    /\ skipped' = ~ModesValid(s)
    /\ UNCHANGED zeroed

Setting(s) == SetsUp(s, requested) /\ UNCHANGED <<region, AcqETA>>

\* The write does nothing else than store or restore.
Storing(s) == Keeps(s, requested) /\ UNCHANGED <<region, AcqETA, zeroed>>

HasAngleY(lens) == LensModes[lens].hasYDeflection

\* A mode that sweeps theta Y is not accepted without a lens mode for it.
WriteAcquisitionMode ==
    \E mode \in SUBSET {"X", "Z"} :
        /\ Writing
        /\ IF "Z" \in mode /\ ~HasAngleY(settings.lensMode)
             THEN Storing(settings)
             ELSE Setting([settings EXCEPT !.mode = mode])

\* Variant: the lens mode is accepted whatever the mode sweeps.
WriteAnyLensMode ==
    \E lens \in Written.lensMode :
        /\ Writing
        /\ IF lens \in DOMAIN LensModes
             THEN Setting([settings EXCEPT !.lensMode = lens])
             ELSE Storing(settings)

WriteLensMode ==
    \E lens \in Written.lensMode :
        /\ Writing
        /\ IF lens \in DOMAIN LensModes /\ ("Z" \in settings.mode => HasAngleY(lens))
             THEN Setting([settings EXCEPT !.lensMode = lens])
             ELSE Storing(settings)

WritePassEnergy ==
    \E energy \in Written.passEnergy :
        /\ Writing
        /\ IF energy \in DOMAIN PassEnergies
             THEN Setting([settings EXCEPT !.passEnergy = energy])
             ELSE Storing(settings)

\* Variant: only the name of the mode is changed.
WriteEnergyModeName ==
    \E mode \in {"Kinetic", "Binding"} :
        /\ Writing
        /\ Storing([settings EXCEPT !.energyMode = mode])

WriteEnergyMode ==
    \E mode \in {"Kinetic", "Binding"} :
        /\ Writing
        /\ Setting([settings EXCEPT !.energyMode = mode])

\* ExcitationEnergy and WorkFunction matter to binding energies only.
WritePhoton ==
    \E field \in {"excitation", "workFunction"}, value \in Written.photon :
        /\ Writing
        /\ LET s == [settings EXCEPT ![field] = value]
           IN  IF s.energyMode = "Binding" THEN Setting(s)
               ELSE Storing(s)

\* ADAcquireTime, and the focal positions, which reach the definition the same way.
WriteAcquireTime ==
    \E value \in Written.acquireTime :
        /\ Writing
        /\ Setting([settings EXCEPT !.acquireTime = value])

\* The time for one exposure, when it was shown for a number of them.  Zero
\* exposures take no time, and 0 / 0 is not a number.
PerExposure(eta, exposures) ==
    IF exposures > 0 THEN {x \div exposures : x \in eta}
    ELSE IF exposures < 0 THEN {(-x) \div (-exposures) : x \in eta}
    ELSE {}

\* Variant: the number divided by is the one just written.
WriteNumExposuresAfter ==
    \E value \in Written.numExposures :
        /\ Writing
        /\ Keeps([settings EXCEPT !.numExposures = value], requested)
        /\ AcqETA' = {x * value : x \in PerExposure(AcqETA, value)}
        /\ zeroed' = (zeroed \/ value = 0)
        /\ UNCHANGED region

WriteNumExposures ==
    \E value \in Written.numExposures :
        /\ Writing
        /\ Keeps([settings EXCEPT !.numExposures = value], requested)
        /\ AcqETA' = {x * value : x \in PerExposure(AcqETA, settings.numExposures)}
        /\ zeroed' = (zeroed \/ value = 0)
        /\ UNCHANGED region

\* No branch of writeInt32 handles it: any value is stored, and the definition
\* keeps the mode it has.
WriteDetectorMode ==
    \E value \in Written.detectorMode :
        /\ Writing
        /\ Storing([settings EXCEPT !.detectorMode = value])

\* setROI: a region that would end beyond the detector ends at its edge, also when
\* that leaves it no channel.  Where it begins is not checked.
WithinDetector(s) ==
    [s EXCEPT !.size = [d \in XY |-> IF s.min[d] + s.size[d] > MaxSize[d]
                                     THEN MaxSize[d] - s.min[d] ELSE s.size[d]]]

WriteROI ==
    \E d \in XY :
        /\ Writing
        /\ \/ \E value \in Written.min :
                Setting(WithinDetector([settings EXCEPT !.min[d] = value]))
           \/ \E value \in Written.size :
                Setting(WithinDetector([settings EXCEPT !.size[d] = value]))

ChannelsWithin(value, size) ==
    IF value > size THEN size ELSE IF value <= 0 THEN 1 ELSE value

\* Variant: channels are taken to matter only when nothing is swept.
ChannelsUsedIfFixed(d, mode) == d = "Y" \/ mode = {}

\* DetectorChannels matters only when an axis is fixed.
ChannelsUsed(d, mode) == d = "Y" \/ mode # {"X", "Z"}

WriteChannels ==
    \E d \in XY, value \in Written.channels :
        /\ Writing
        /\ LET s == [settings EXCEPT !.channels[d] = ChannelsWithin(value, settings.size[d])]
           IN  IF ChannelsUsed(d, s.mode) THEN Setting(s)
               ELSE Storing(s)

\* An end or step is requested even when the axis is not swept and the value
\* shown is restored.
WriteAxis ==
    \E a \in {"X", "Z"}, field \in {"low", "high", "step"} :
      \E value \in IF field = "step" THEN Written.step ELSE Written.ends :
        /\ Writing
        /\ LET r == [requested EXCEPT ![a][field] = value]
           IN  IF a \in settings.mode
                 THEN /\ SetsUp(settings, r)
                      /\ region' = [region EXCEPT ![a][field] = value]
                 ELSE Keeps(settings, r) /\ UNCHANGED <<region, zeroed>>
        /\ UNCHANGED AcqETA

\* A sweep keeps its width around a new centre.
Centred(axis, value) ==
    LET half == Distance(axis.low, axis.high) \div 2
    IN  [axis EXCEPT !.center = value, !.low = value - half, !.high = value + half]

WriteCenter ==
    \E a \in Axes, value \in Written.ends :
        /\ Writing
        /\ SetsUp(settings, [requested EXCEPT ![a] =
                               IF a \in settings.mode THEN Centred(@, value)
                               ELSE [@ EXCEPT !.center = value]])
        /\ region' = [region EXCEPT ![a].center = value]
        /\ UNCHANGED AcqETA

-----------------------------------------------------------------------------
(* The port: the rest of setupSpectrumDefinition. *)

Fill ==
    /\ port = "fill"
    /\ port' = "adjust"
    /\ definition' = Built(settings, requested)
    /\ UNCHANGED <<settings, requested, shown, AcqETA, task, history, writes>>

\* The server accepts the definition.
Adjusted ==
    /\ port = "adjust"
    /\ Complete(definition)
    /\ port' = "idle"
    /\ region' = RegionOf(definition, settings)
    /\ AcqNumSteps' = Steps(definition, settings)
    /\ wall' = WallClock(definition)
    /\ AcqETA' = {WallClock(definition) * settings.numExposures}
    /\ fresh' = TRUE
    /\ zeroed' = (settings.numExposures = 0)
    /\ UNCHANGED <<settings, requested, definition, task, touched, skipped, writes>>

\* The server refuses it, or cannot be reached: what is shown stays.
AdjustFails ==
    /\ port = "adjust"
    /\ port' = "idle"
    /\ UNCHANGED <<settings, requested, definition, shown, AcqETA, task, history, writes>>

-----------------------------------------------------------------------------
(* The task. *)

\* Variant: the parameters are read without the driver lock.
SnapshotUnlocked ==
    /\ pc = "idle"
    /\ pc' = "define"
    /\ numSteps' = AcqNumSteps
    /\ touched' = FALSE
    /\ UNCHANGED <<settings, requested, definition, shown, AcqETA, port, spectrum,
                   wall, fresh, skipped, zeroed, writes>>

\* An acquisition begins: its parameters are read under the lock.
Snapshot ==
    /\ pc = "idle"
    /\ port = "idle"
    /\ pc' = "define"
    /\ numSteps' = AcqNumSteps
    /\ touched' = FALSE
    /\ UNCHANGED <<settings, requested, definition, shown, AcqETA, port, spectrum,
                   wall, fresh, skipped, zeroed, writes>>

\* The definition is read without it: while the port fills it, what is read is
\* undefined, the old one, the new one or neither.
DefineSpectrum ==
    /\ pc = "define"
    /\ pc' = "acquire"
    /\ spectrum' \in {definition}
                     \union IF port = "fill" THEN {Built(settings, requested), NoDefinition} ELSE {}
    /\ touched' = FALSE
    /\ UNCHANGED <<settings, requested, definition, shown, AcqETA, port, numSteps,
                   wall, fresh, skipped, zeroed, writes>>

\* The first update of an exposure corrects the region, under the lock.
FirstUpdate ==
    /\ pc = "acquire"
    /\ spectrum # NoDefinition
    /\ Complete(spectrum)
    /\ port = "idle"
    /\ region' = RegionOf(spectrum, settings)
    /\ AcqNumSteps' = Steps(spectrum, settings)
    /\ fresh' = (fresh /\ spectrum = definition)
    /\ UNCHANGED <<settings, requested, definition, AcqETA, port, task,
                   wall, touched, skipped, zeroed, writes>>

\* The acquisition ends, or fails; what the task read is of no further use.
EndAcquisition ==
    /\ pc # "idle"
    /\ pc' = "idle"
    /\ numSteps' = 0
    /\ spectrum' = NoDefinition
    /\ touched' = FALSE
    /\ UNCHANGED <<settings, requested, definition, shown, AcqETA, port,
                   wall, fresh, skipped, zeroed, writes>>

-----------------------------------------------------------------------------
Port ==
    \/ WriteAcquisitionMode \/ WriteLensMode \/ WritePassEnergy \/ WriteEnergyMode
    \/ WritePhoton \/ WriteAcquireTime \/ WriteNumExposures \/ WriteDetectorMode
    \/ WriteROI \/ WriteChannels \/ WriteAxis \/ WriteCenter
    \/ Fill \/ Adjusted \/ AdjustFails

Task == Snapshot \/ DefineSpectrum \/ FirstUpdate \/ EndAcquisition

Next == Port \/ Task

Spec == Init /\ [][Next]_vars

-----------------------------------------------------------------------------
(* Properties. *)

Modes == DetectorModes \union Written.detectorMode

Settings ==
    [mode : SUBSET {"X", "Z"}, lensMode : DOMAIN LensModes, passEnergy : DOMAIN PassEnergies,
     energyMode : {"Kinetic", "Binding"}, excitation : Int, workFunction : Int,
     acquireTime : Int, numExposures : Int, detectorMode : Modes,
     min : [XY -> Int], size : [XY -> Int], channels : [XY -> Int]]

Region == [Axes -> [low : Int, high : Int, center : Int, step : Int, count : Int]]

\* Definitions that sweep the axes of a mode.
Definitions(mode) ==
    [lensMode : DOMAIN LensModes, passEnergy : Int, detectorMode : Modes,
     dwellTime : Int, roi : [XY -> [low : Int, high : Int]],
     sweep : [mode -> [Offset : Int, Delta : Int, Count : Int]],
     center : [Axes \ mode -> Int], binning : [XY \ mode -> Int \X Int]]

\* Settings, region and counters keep their types: the lens mode and the pass energy
\* are ones the analyser has, and a definition has each axis once, swept or fixed.
TypeOK ==
    /\ settings \in Settings
    /\ requested \in Requests
    /\ \E mode \in SUBSET {"X", "Z"} : definition \in Definitions(mode)
    /\ region \in Region
    /\ {AcqNumSteps, wall, numSteps} \union AcqETA \subseteq Int
    /\ writes \in Nat
    /\ port \in {"idle", "fill", "adjust"}
    /\ pc \in {"idle", "define", "acquire"}
    /\ spectrum = NoDefinition \/ \E mode \in SUBSET {"X", "Z"} : spectrum \in Definitions(mode)
    /\ fresh \in BOOLEAN /\ touched \in BOOLEAN
    /\ skipped \in BOOLEAN /\ zeroed \in BOOLEAN

\* Definitions that differ in the detector's mode only.
SameButMode(d, e) == [d EXCEPT !.detectorMode = e.detectorMode] = e

\* The definition is to be that of the settings: the last write that set one up
\* did not stop at the modes, and the energies to sweep are above zero.
InForce == ~skipped /\ EnergiesValid(settings, requested)

\* Whatever is written, in any order, accepted or restored: once a write is
\* over, the definition the next acquisition will use is the one its settings
\* make, unless energies to sweep are not above zero, or the analyser had no such
\* detector mode when a definition was last to be set up.  A detector mode only
\* reaches it with the next setting.
DefinitionCurrent ==
    port = "idle" /\ InForce => SameButMode(definition, Built(settings, requested))

Within(d) ==
    LET lens     == LensModes[d.lensMode]
        range    == lens.passEnergyRange
        yRange   == lens.yDeflectionRange
        energies == {PassEnergies[e] : e \in DOMAIN PassEnergies}
    IN  /\ "Z" \in DOMAIN d.sweep =>
             /\ lens.hasYDeflection
             /\ yRange[1] <= yRange[2] => d.sweep["Z"].Offset \in yRange[1] .. yRange[2]
        /\ {range[1], range[2]} \subseteq energies /\ range[1] <= range[2] =>
                d.passEnergy \in range[1] .. range[2]
        /\ d.detectorMode \in DetectorModes
        /\ \A a \in XY : d.roi[a].high <= MaxSize[a]

\* The server is never asked for what its lens mode cannot do, also when the
\* definition is one of earlier settings: theta Y is swept only from within the
\* range of a lens mode that has it, and the pass energy is within the range of the
\* lens mode when its ends are energies the analyser is calibrated for.  The
\* detector mode is one it has, whatever was written, and no region ends beyond the
\* detector.  Nothing keeps a region from beginning before or after the detector, or
\* from being empty: setROI looks at its end only.
WithinLimits == Within(definition)

\* A region calculated since the last write that changed the definition is that
\* of the definition, in the scale of the energy mode, and the number of steps
\* that of the definition, also after the first update of an acquisition.
RegionInScale ==
    fresh => /\ region = RegionOf(definition, settings)
             /\ AcqNumSteps = StepsOf(definition)

\* The time shown is that of the last definition the server accepted, for the
\* number of exposures now set, whichever of the two was written last.  Once no
\* exposures have been set it may be no number instead, for any number of exposures
\* set after that, until the server accepts a definition again.
EtaShown ==
    \/ AcqETA = {wall * settings.numExposures}
    \/ AcqETA = {} /\ zeroed

\* What the settings ask to sweep is swept: every value between the ends is
\* within a step of a point of the axis, which begins at the low end.
SweepCoversRange ==
    port = "idle" /\ InForce =>
        \A a \in settings.mode :
            LET low  == Target(settings, requested, a, "low")
                high == Target(settings, requested, a, "high")
                data == AxisData(definition.sweep[a])
            IN  low < high /\ requested[a].step > 0 =>
                  /\ data[0] = low
                  /\ \A value \in low .. high :
                        \E i \in DOMAIN data : data[i] - value \in 0 .. requested[a].step - 1

\* The acquisition takes the number of steps and the definition in two steps,
\* the second without the lock.  Unless a write has set up a definition between
\* them, the spectrum is that of the settings, but for the detector mode and with
\* the exceptions of DefinitionCurrent (a mode the analyser has not, energies not
\* above zero), and when the server has accepted it the number of steps is its own.
SpectrumOfSettings ==
    [][pc = "define" /\ pc' = "acquire" /\ ~touched =>
        /\ InForce => SameButMode(spectrum', Built(settings, requested))
        /\ fresh => numSteps = StepsOf(spectrum')]_vars

=============================================================================
