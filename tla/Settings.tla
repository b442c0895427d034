------------------------------ MODULE Settings ------------------------------
(***************************************************************************)
(* The proxy's settings, in force and on disk, and the one the stored      *)
(* models must fit: the ceiling of target attempts                         *)
(* (services/settingsManager.ts, the settings and model routes of          *)
(* routes/admin.ts, SettingsPage.svelte).  Of the settings without such a  *)
(* tie one stands for all.                                                 *)
(***************************************************************************)
EXTENDS Integers

CONSTANTS
    Autos,       \* the automatic models
    MaxCeiling,  \* bound: 20 in the code
    Values       \* values of the other settings

VARIABLES
    current,   \* SettingsManager: the values in force
    file,      \* settings.json
    refused,   \* history: an update was answered with an error
    autos,     \* models.json: the automatic models, enabled and capped
    served     \* the automatic models of the registry

vars == <<current, file, refused, autos, served>>

Settings == [ceiling : 1..MaxCeiling, other : Values]

\* loadModelsFromFile(): what is disabled or does not fit is left out.
Loaded(models, ceiling) == {a \in Autos : models[a].enabled /\ models[a].cap <= ceiling}

Init ==
    /\ file \in Settings
    /\ current = file
    /\ refused = FALSE
    /\ autos \in [Autos -> [enabled : BOOLEAN, cap : {1}]]
    /\ served = Loaded(autos, current.ceiling)

\* Faulty: whether the stored models fit a lower ceiling is not asked.
NoBlockers(ceiling) == {}

\* Enabled automatic models that would exceed a lower ceiling hold it up.
Blockers(ceiling) == {a \in Autos : autos[a].enabled /\ autos[a].cap > ceiling}

\* update() puts the values in force before it writes them, and leaves them there when an
\* unknown name or the write makes it throw: all of them, or those before that name.
Update(values) ==
    \/ current' = values /\ file' = values /\ UNCHANGED refused
    \/ /\ refused' = TRUE /\ UNCHANGED file
       /\ current' \in {current, values, [current EXCEPT !.ceiling = values.ceiling],
                        [current EXCEPT !.other = values.other]}

\* The settings page sends every setting, as it loaded and edited them however long ago;
\* a caller of the API may name one only.  The registry is not loaded anew.
PutSettings ==
    /\ \E values \in Settings :
         /\ values.ceiling # current.ceiling => Blockers(values.ceiling) = {}
         /\ Update(values)
    /\ UNCHANGED <<autos, served>>

\* A restart, or POST /api/reload.
Reload ==
    /\ current' = file
    /\ served' = Loaded(autos, file.ceiling)
    /\ UNCHANGED <<file, refused, autos>>

Store(models) ==
    /\ autos' = models
    /\ served' = Loaded(models, current.ceiling)
    /\ UNCHANGED <<current, file, refused>>

\* The cap is checked when it is set, whether the model is enabled or not,
SaveAuto ==
    \E a \in Autos, cap \in 1..current.ceiling, enabled \in BOOLEAN :
        Store([autos EXCEPT ![a] = [enabled |-> enabled, cap |-> cap]])

\* and again when the model is enabled.
Enableable(a) == autos[a].cap <= current.ceiling

ToggleAuto ==
    \E a \in Autos :
        (autos[a].enabled \/ Enableable(a)) /\ Store([autos EXCEPT ![a].enabled = ~@])

Next == PutSettings \/ Reload \/ SaveAuto \/ ToggleAuto

Spec == Init /\ [][Next]_vars

-----------------------------------------------------------------------------
TypeOK ==
    /\ current \in Settings /\ file \in Settings /\ refused \in BOOLEAN
    /\ autos \in [Autos -> [enabled : BOOLEAN, cap : 1..MaxCeiling]]
    /\ served \subseteq Autos

(* Every automatic model an operator has enabled is served, today and      *)
(* after a restart, in whatever order models are saved, disabled and       *)
(* enabled and the ceiling is moved: unless an update was answered with an *)
(* error after it had taken effect (services/settingsManager.ts:136).      *)
CeilingHeld ==
    refused \/ /\ served = {a \in Autos : autos[a].enabled}
               /\ served = Loaded(autos, file.ceiling)

(* The same with refused updates, which does not hold: the ceiling they    *)
(* leave in force admits models that the one on disk shuts out.            *)
CeilingHeldEverywhere == {a \in Autos : autos[a].enabled} = Loaded(autos, file.ceiling)
=============================================================================
