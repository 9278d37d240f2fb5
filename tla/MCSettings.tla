----------------------------- MODULE MCSettings -----------------------------
(* Values of the constants of SpectrumSettings: two lens modes, one of them    *)
(* without theta Y and for one pass energy only, and a few values to write:    *)
(* some the driver must not take, and some it takes although it had better not *)
(* (regions off the detector, no exposures, a detector mode there is not).     *)
EXTENDS SpectrumSettings

MCLensModes ==
    [l \in 0 .. 1 |->
        IF l = 0 THEN [hasYDeflection |-> TRUE,
                       passEnergyRange |-> <<5, 10>>, yDeflectionRange |-> <<-1, 2>>]
        ELSE [hasYDeflection |-> FALSE,
              passEnergyRange |-> <<10, 10>>, yDeflectionRange |-> <<0, 0>>]]

MCPassEnergies == [e \in 0 .. 1 |-> 5 + 5 * e]

MCMaxSize == [d \in XY |-> IF d = "X" THEN 3 ELSE 2]

MCCamera == [d \in XY |-> [min |-> 0, size |-> 2]]

MCAnalyser == [lensMode |-> 0, passEnergy |-> 0, detectorMode |-> "Image",
               dwellTime |-> 2]

MCDatabase ==
    [excitation |-> 0, workFunction |-> 1,
     requested |-> [a \in Axes |->
        CASE a = "X" -> [low |-> 2, center |-> 4, high |-> 5, step |-> 2]
          [] a = "Y" -> [low |-> 0, center |-> 0, high |-> 0, step |-> 0]
          [] a = "Z" -> [low |-> -2, center |-> 0, high |-> 1, step |-> 2]]]

MCWritten ==
    [lensMode |-> {1, 2}, passEnergy |-> {0, 2}, photon |-> {4}, acquireTime |-> {1},
     numExposures |-> {0, 2}, detectorMode |-> {"Event", "None"},
     min |-> {-1, 4}, size |-> {0, 3}, channels |-> {0, 9},
     ends |-> {-3, 3}, step |-> {-1, 0, 1}]

=============================================================================
