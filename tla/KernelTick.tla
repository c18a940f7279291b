----------------------------- MODULE KernelTick -----------------------------
(***************************************************************************)
(* kernel/scheduler.lua `tick` with the stages runtime/app.lua registers:   *)
(* the composition of the ControlBroker, the IntentQueue and the movement   *)
(* keys.  SENSE publishes the tick index, ARBITRATE expires the leases,     *)
(* COMMIT turns the intents of the tick into effects and reconciles the     *)
(* keys, ACCOUNT retires the caretakers.  Between them callers acquire,     *)
(* release, delegate and submit: from evaluators in INTERRUPT, from event   *)
(* subscribers before it, from modules in ACT.                              *)
(***************************************************************************)
EXTENDS ControlBroker, Sequences

CONSTANTS
    Actions, OnGcd, Executable, MaxSubmissions,   \* as in IntentQueue
    Moves      \* the actions of type `move`, each a set of keys

ASSUME TickAssumption ==
    /\ Moves \subseteq Actions
    /\ Moves \subseteq SUBSET Keys

VARIABLES
    stage,   \* the stage that runs, callers' stages between the kernel's own
    pending, queue, entered, report, committing, gcdReady

kernelVars == <<pending, queue, entered, report, committing, gcdReady>>
tickVars == <<vars, kernelVars, stage>>

\* What the lease behind an intent stamps on it.
Stamp(g) == <<lease[g].owner, lease[g].priority, g>>

Queue == INSTANCE IntentQueue WITH
    Stamps <- Owners \X (0 .. 99) \X Generations,
    authorised <- {<<lease[g].owner, g>> : g \in Holding}

TickInit ==
    /\ Init
    /\ Queue!QueueInit
    /\ stage = "IDLE"

-----------------------------------------------------------------------------
(* The kernel's stages *)

Sense ==
    /\ stage = "IDLE"
    /\ BeginTick
    /\ stage' = "INTERRUPT"
    /\ UNCHANGED kernelVars

ArbitrateStage ==
    /\ stage = "INTERRUPT"
    /\ Arbitrate
    /\ stage' = "ACT"
    /\ UNCHANGED kernelVars

StartCommit ==
    /\ stage = "ACT"
    /\ Queue!OpenCommit
    /\ stage' = "COMMIT"
    /\ UNCHANGED vars

\* One intent leaves the queue without an effect.
Refuse ==
    /\ stage = "COMMIT"
    /\ \/ Queue!GateRefuses
       \/ Queue!GenerationRefuses
       \/ Queue!NoExecutor
       \/ Queue!ExecutorFails
    /\ UNCHANGED <<vars, stage>>

\* One intent takes effect; a `move` by recording the keys it wants.
Effect ==
    /\ stage = "COMMIT"
    /\ Queue!Execute
    /\ LET i == Head(queue)
       IN  IF i.action \in Moves
           THEN CommitMove(i.generation, i.action)
           ELSE UNCHANGED vars
    /\ UNCHANGED stage

\* The queue is drained: the keys follow the desire.
FinishCommit ==
    /\ stage = "COMMIT"
    /\ Queue!CloseCommit
    /\ ReconcileKeys
    /\ stage' = "ACCOUNT"

Account ==
    /\ stage = "ACCOUNT"
    /\ \/ EndTick
       \/ caretakers = {} /\ UNCHANGED vars
    /\ stage' = "IDLE"
    /\ UNCHANGED kernelVars

-----------------------------------------------------------------------------
(* Callers *)

\* The tick is deferring to plugins and modules.
CallersRun == stage \in {"INTERRUPT", "ACT"}

Call ==
    /\ CallersRun
    /\ \/ \E r \in Requests : Acquire(r)
       \/ \E g \in Generations : Release(g)
       \/ \E g \in Generations, ttl \in {r.ttl : r \in Requests} : CaretakerRenew(g, ttl)
       \/ \E c \in Channels, from, to \in Owners : Delegate(c, from, to)
       \/ \E o \in Owners : RevokeOwner(o)
       \/ \E p \in {lease[g].priority : g \in Live} : RevokeBelow(p + 1)
       \/ BypassKeys
    /\ UNCHANGED <<kernelVars, stage>>

\* A caretaker's `submit`.
Emit ==
    /\ CallersRun
    /\ \E g \in Generations, a \in Actions :
         /\ CaretakerValid(g)
         /\ Queue!Submit(a, Stamp(g))
    /\ UNCHANGED <<vars, stage>>

\* The global cooldown runs out between ticks.
CooldownElapses ==
    /\ stage = "IDLE"
    /\ Queue!GcdElapses
    /\ UNCHANGED <<vars, stage>>

TickNext ==
    \/ Sense
    \/ ArbitrateStage
    \/ StartCommit
    \/ Refuse
    \/ Effect
    \/ FinishCommit
    \/ Account
    \/ Call
    \/ Emit
    \/ CooldownElapses

TickSpec == TickInit /\ [][TickNext]_tickVars

-----------------------------------------------------------------------------
(* Properties *)

Committed == {report["committed"][n] : n \in 1 .. Len(report["committed"])}

\* Nothing acts on lost authority: an intent takes effect only while the lease that
\* stamped it is alive, is its submitter's, and has not run out in this tick, however
\* the lease was lost between the submission and the commit.
OnlyLiveLeasesAct ==
    [][\A i \in Committed' \ Committed :
         /\ i.generation \in Live
         /\ lease[i.generation].owner = i.owner
         /\ tick < lease[i.generation].expires]_tickVars

\* The body does, at the end of a tick, what the last `move` to commit asked for, unless
\* the injector failed or a plugin drives the key itself.
KeysFollowTheDesire ==
    stage = "ACCOUNT" /\ KeyFaults = {} => down \ DirectKeys = desired \ DirectKeys
=============================================================================
