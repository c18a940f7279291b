-------------------------- MODULE MovementRelease --------------------------
(***************************************************************************)
(* kernel/movement_release.lua: the kernel's one call site of the movement  *)
(* keys.  A `move` intent records a desired key set, `reconcile` drives the *)
(* keys towards it every tick, `release_all` lifts every key and stops the  *)
(* navigation client.  The keys and the client belong to the game; the      *)
(* module keeps only what it wants and what it believes it pressed.  Some   *)
(* plugins still call the injector themselves, past the kernel.             *)
(***************************************************************************)
CONSTANTS
    Keys,       \* the movement keys of the injector
    KeyFaults,  \* the keys whose injector calls may throw
    DirectKeys, \* the keys that plugins press and lift themselves
    NavFaults   \* whether the navigation client's `stop` may throw

ASSUME KeysAssumption ==
    KeyFaults \subseteq Keys /\ DirectKeys \subseteq Keys /\ NavFaults \in BOOLEAN

VARIABLES
    desired,    \* the key set a committed `move` asked for; {} is "stopped"
    pressed,    \* `_held`: the keys the kernel believes it has pressed
    down,       \* the keys that are really down
    navigating  \* the navigation client is driving the character

movementVars == <<desired, pressed, down, navigating>>

MovementTypeOK ==
    /\ desired \subseteq Keys
    /\ pressed \subseteq Keys
    /\ down \subseteq Keys
    /\ navigating \in BOOLEAN

MovementInit ==
    /\ desired = {}
    /\ pressed = {}
    /\ down = {}
    /\ navigating = FALSE

\* Mutant: the sweep lifts the keys and leaves the client driving.
ReleaseAllKeepsClient ==
    /\ \E failed \in SUBSET KeyFaults : down' = down \cap failed
    /\ desired' = {}
    /\ pressed' = {}
    /\ UNCHANGED navigating

\* Mutant: the sweep forgets to clear what it believes pressed.
ReleaseAllKeepsBelief ==
    /\ navigating' \in {FALSE, NavFaults /\ navigating}
    /\ \E failed \in SUBSET KeyFaults : down' = down \cap failed
    /\ desired' = {}
    /\ UNCHANGED pressed

\* Mutant: only the keys the kernel believes pressed are lifted.
ReleaseAllTracked ==
    /\ navigating' \in {FALSE, NavFaults /\ navigating}
    /\ \E failed \in SUBSET KeyFaults : down' = (down \ pressed) \cup (down \cap failed)
    /\ desired' = {}
    /\ pressed' = {}

\* Stop the navigation client, then call `<key>_stop` for every key, each in its
\* own pcall: a call that throws leaves the client or its key as it was.  The desire and the
\* belief are cleared whatever happened to the calls.
ReleaseAll ==
    /\ navigating' \in {FALSE, NavFaults /\ navigating}
    /\ \E failed \in SUBSET KeyFaults : down' = down \cap failed
    /\ desired' = {}
    /\ pressed' = {}

\* A desire replaces the previous one wholesale; {} is a stop.
SetDesired(keys) ==
    /\ keys \in SUBSET Keys
    /\ desired' = keys
    /\ UNCHANGED <<pressed, down, navigating>>

\* Mutant: a press counts as made whether or not the call threw.
DriveTrustsCalls(failed) ==
    LET lifted == (pressed \ desired) \ failed
        struck == (desired \ pressed) \ failed
    IN  /\ pressed' = desired
        /\ down' = (down \ lifted) \cup struck
        /\ UNCHANGED <<desired, navigating>>

\* Lift what is believed pressed and no longer wanted, then press what is wanted
\* and not believed pressed.  A call that throws changes neither the key nor the
\* belief, so the next reconcile tries it again.
Drive(failed) ==
    LET lifted == (pressed \ desired) \ failed
        struck == (desired \ pressed) \ failed
    IN  /\ pressed' = (pressed \ lifted) \cup struck
        /\ down' = (down \ lifted) \cup struck
        /\ UNCHANGED <<desired, navigating>>

Reconcile == \E failed \in SUBSET KeyFaults : Drive(failed)

\* A plugin calls the injector under no lease: a kite that runs, a rotation that steps
\* forward to break a cast and lifts the key in a later tick.
PluginDrives ==
    /\ \E k \in DirectKeys : down' \in {down \cup {k}, down \ {k}}
    /\ UNCHANGED <<desired, pressed, navigating>>

-----------------------------------------------------------------------------
(* Properties *)

\* What the kernel believes pressed is down, whatever calls failed: so a key that is
\* wanted and not down is one the next reconcile presses, never one it skips.  Only a
\* plugin that lifts a key itself can make the belief run ahead.
PressedAreDown == pressed \ DirectKeys \subseteq down
=============================================================================
