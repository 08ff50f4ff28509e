------------------------------ MODULE Scatter -------------------------------
(***************************************************************************)
(* scatterKenneyModels (client_src/environment.js): every model is placed  *)
(* where the seeded generator draws a spot that is far enough from the     *)
(* tree and from the models placed before, and flat, within MaxAttempts    *)
(* draws; otherwise it is left out.  One step is one round of the loop.    *)
(***************************************************************************)
EXTENDS Integers, Sequences

CONSTANTS
    Half,                   \* the spots are -Half .. Half in x and z
    minDistance, centerExclusionRadius,
    Steep,                  \* spots whose surroundings differ too much in height
    Instances,              \* models to place
    MaxAttempts             \* 50

ASSUME ScatterAssumption ==
    /\ {Half, minDistance, centerExclusionRadius, Instances} \subseteq Nat
    /\ MaxAttempts \in Nat \ {0}

VARIABLES
    todo,               \* instances still to place
    drawn,              \* attempts for the present one
    placedPositions

scvars == <<todo, drawn, placedPositions>>

Spot == [x : -Half .. Half, z : -Half .. Half]
SquareDist(s, t) == (s.x - t.x) * (s.x - t.x) + (s.z - t.z) * (s.z - t.z)
Center == [x |-> 0, z |-> 0]

isTooClose(s) ==
    \/ SquareDist(s, Center) < centerExclusionRadius * centerExclusionRadius
    \/ \E i \in DOMAIN placedPositions :
           SquareDist(s, placedPositions[i]) < minDistance * minDistance

ScatterInit ==
    /\ todo = Instances
    /\ drawn = 0
    /\ placedPositions = <<>>

\* The spot is taken and the loop goes on to the next instance.
Place(s) ==
    /\ ~isTooClose(s) /\ s \notin Steep
    /\ placedPositions' = Append(placedPositions, s)
    /\ todo' = todo - 1
    /\ drawn' = 0

\* Mutant: the last spot drawn is taken for want of a better one.
LastSpotTaken(s) ==
    /\ isTooClose(s) \/ s \in Steep
    /\ IF drawn + 1 < MaxAttempts
       THEN drawn' = drawn + 1 /\ UNCHANGED <<todo, placedPositions>>
       ELSE /\ drawn' = 0 /\ todo' = todo - 1
            /\ placedPositions' = Append(placedPositions, s)

\* The spot is no good: another draw, or the instance is left out.
DrawAgain(s) ==
    /\ isTooClose(s) \/ s \in Steep
    /\ IF drawn + 1 < MaxAttempts
       THEN drawn' = drawn + 1 /\ UNCHANGED todo
       ELSE drawn' = 0 /\ todo' = todo - 1
    /\ UNCHANGED placedPositions

ScatterNext == todo > 0 /\ \E s \in Spot : Place(s) \/ DrawAgain(s)

ScatterSpec == ScatterInit /\ [][ScatterNext]_scvars

----------------------------------------------------------------------------
\* Whatever is drawn, no model stands in the tree, on a slope or too near to
\* another one, the ones placed after many failed draws included.
PlacedApart ==
    \A i \in DOMAIN placedPositions :
        /\ placedPositions[i] \in Spot \ Steep
        /\ SquareDist(placedPositions[i], Center)
               >= centerExclusionRadius * centerExclusionRadius
        /\ \A j \in 1 .. i - 1 :
               SquareDist(placedPositions[i], placedPositions[j])
                   >= minDistance * minDistance
=============================================================================
