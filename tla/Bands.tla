------------------------------- MODULE Bands -------------------------------
(***************************************************************************)
(* kernel/bands.lua: named priority bands, who may claim them, and the      *)
(* resolution of a band and an offset to the integer the ControlBroker      *)
(* compares.  A pure module: no state.                                      *)
(***************************************************************************)
EXTENDS Integers

BandNames == {"SAFETY", "SURVIVAL", "COMBAT", "GOAL", "HOUSEKEEP", "IDLE"}

\* The lowest and the highest priority of each band.
BandMin == [SAFETY |-> 90, SURVIVAL |-> 70, COMBAT |-> 50,
            GOAL |-> 30, HOUSEKEEP |-> 10, IDLE |-> 0]
BandMax == [SAFETY |-> 99, SURVIVAL |-> 89, COMBAT |-> 69,
            GOAL |-> 49, HOUSEKEEP |-> 29, IDLE |-> 9]

Tiers == {"rotation", "activity", "behavior", "strategy", "sensor", "ambient"}

\* The bands a plugin of each tier may declare.
TierPermissions ==
    [rotation |-> {"COMBAT", "SURVIVAL"},
     activity |-> {"GOAL", "HOUSEKEEP", "IDLE"},
     behavior |-> {"SAFETY", "SURVIVAL", "HOUSEKEEP", "IDLE"},
     strategy |-> {},
     sensor   |-> {"HOUSEKEEP", "IDLE"},
     ambient  |-> {}]

\* A caller that names no tier is not checked against one.
NoTier == "none"

\* An unrecognised tier fails closed.
Permits(tier, band) == tier \in Tiers /\ band \in TierPermissions[tier]

\* `resolve` refuses rather than clamps.
Resolves(band, offset, tier) ==
    /\ band \in BandNames
    /\ tier = NoTier \/ Permits(tier, band)
    /\ offset \in Int
    /\ offset >= 0
    /\ BandMin[band] + offset <= BandMax[band]

Resolve(band, offset) == BandMin[band] + offset

\* An intent may ask for immediate commit only from this priority up.
ImmediateMinPriority == BandMin["SURVIVAL"]

\* The band a priority lies in.
NameFor(priority) ==
    CHOOSE b \in BandNames : BandMin[b] <= priority /\ priority <= BandMax[b]

\* The slot of the injector's own spell queue.  A priority outside every band gets
\* the authored slot, and no priority gets 9, the slot of the human player.
SpellQueuePriority(priority) ==
    IF priority \in 0 .. 99 /\ NameFor(priority) \in {"SAFETY", "SURVIVAL"} THEN 7 ELSE 1
=============================================================================
