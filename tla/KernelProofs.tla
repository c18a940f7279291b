---------------------------- MODULE KernelProofs ----------------------------
(***************************************************************************)
(* What stands on the broker: whole ticks of the kernel and the activity    *)
(* stack, for any callers, activities, actions, keys, depth and bounds.     *)
(*                                                                          *)
(* In a tick two arguments need each other's order of stages.  The leases   *)
(* that hold anything between ARBITRATE and the end of COMMIT have time left *)
(* (Unexpired), because arbitration takes those that have none and what is  *)
(* granted, renewed or lent after it has a time to live; so an intent that  *)
(* passes the generation check acts on authority that still stands.  And    *)
(* the keys that are down are those believed pressed (Tracked), except      *)
(* where a plugin or a failing call interferes, so the last reconcile of a  *)
(* tick leaves down what is desired.                                        *)
(*                                                                          *)
(* The stack adds to the broker's invariant that its entries are well       *)
(* formed; LentWhileOnStack is then inductive, because no lease ever comes  *)
(* to hold a channel again: Holding grows only by the lease a step creates. *)
(***************************************************************************)
EXTENDS KernelTick, ActivityStack, ControlBrokerProofs, SequenceTheorems

Stages == {"IDLE", "INTERRUPT", "ACT", "COMMIT", "ACCOUNT"}

Unexpired == stage \in {"ACT", "COMMIT"} => \A g \in Holding : tick < lease[g].expires

Tracked ==
    KeyFaults = {} =>
      /\ down \ DirectKeys = pressed \ DirectKeys
      /\ stage = "ACCOUNT" => pressed = desired

\* As much of the shape of the report as the properties read.
Reported ==
    /\ DOMAIN report = Queue!Buckets
    /\ \E n \in Nat : report["committed"] = [k \in 1 .. n |-> report["committed"][k]]

KernelInv == BrokerInv /\ stage \in Stages /\ Unexpired /\ Tracked /\ Reported

-----------------------------------------------------------------------------
(* The leases *)

\* A tear-down leaves time to those that had time.
LEMMA UnhookUnexpired ==
    ASSUME KernelInv, NEW G \in SUBSET Generations, Unhook(G), UNCHANGED <<tick, stage>>
    PROVE  Unexpired'
  BY Survivors DEF KernelInv, Unexpired

\* What `acquire` grants or extends has a time to live.
LEMMA AcquireUnexpired ==
    ASSUME KernelInv, NEW S \in SUBSET Channels, NEW o, NEW p, NEW n \in Nat, n >= 1,
           AcquireAs(S, o, p, n), stage' = stage
    PROVE  Unexpired'
<1>1. CASE Preempt(S, o, p)
  <2>1. \A c \in Planned("preempt", S, o, p) : held[c] \in Generations
    BY DEF Planned, Plan, KernelInv, BrokerInv, TypeOK
  <2>2. {held[c] : c \in Planned("preempt", S, o, p)} \in SUBSET Generations
    BY <2>1
  <2> QED
    BY <1>1, <2>2, UnhookUnexpired DEF Preempt, Revoke
<1>2. CASE Renew(S, o, p, n)
  <2>1. PICK c \in Planned("renew", S, o, p) :
          /\ lease' = [lease EXCEPT ![held[c]].expires = tick + n,
                                    ![held[c]].channels = @ \cup Planned("free", S, o, p)]
          /\ held' = [d \in Channels |-> IF d \in Planned("free", S, o, p) THEN held[c] ELSE held[d]]
    BY <1>2 DEF Renew
  <2>2. c \in Channels /\ tick \in Nat /\ tick' = tick
    BY <1>2, <2>1 DEF Renew, Planned, KernelInv, BrokerInv, TypeOK
  <2> SUFFICES ASSUME stage \in {"ACT", "COMMIT"}, NEW g \in Holding' PROVE tick < lease'[g].expires
    BY <2>2 DEF Unexpired
  <2>3. g \in Generations /\ lease'[g].live /\ \E d \in Channels : held'[d] = g
    BY DEF Holding
  <2>4. lease'[g].live = lease[g].live /\ lease'[g].expires \in {lease[g].expires, tick + n}
    BY <2>1, <2>3 DEF KernelInv, BrokerInv, TypeOK, LeaseType
  <2>5. g \in Holding
    BY <2>1, <2>2, <2>3, <2>4 DEF Holding
  <2>6. tick < lease[g].expires /\ tick < tick + n
    BY <2>2, <2>5 DEF KernelInv, Unexpired
  <2> QED
    BY <2>4, <2>6
<1>3. CASE Grant(S, o, p, n)
  <2> DEFINE new == lastGeneration + 1
  <2>1. tick \in Nat /\ tick' = tick
    BY <1>3 DEF Grant, KernelInv, BrokerInv, TypeOK
  <2> SUFFICES ASSUME stage \in {"ACT", "COMMIT"}, NEW g \in Holding' PROVE tick < lease'[g].expires
    BY <2>1 DEF Unexpired
  <2>2. g \in Generations /\ lease'[g].live /\ \E d \in Channels : held'[d] = g
    BY DEF Holding
  <2>3. CASE g = new
    <3>1. lease'[g].expires = tick + n
      BY <1>3, <2>2, <2>3 DEF Grant, KernelInv, BrokerInv, TypeOK
    <3> QED
      BY <2>1, <3>1
  <2>4. CASE g # new
    <3>1. lease'[g] = lease[g] /\ \A d \in Channels : held'[d] = g => held[d] = g
      BY <1>3, <2>2, <2>4 DEF Grant, KernelInv, BrokerInv, TypeOK
    <3>2. g \in Holding
      BY <2>2, <3>1 DEF Holding
    <3> QED
      BY <3>1, <3>2 DEF KernelInv, Unexpired
  <2> QED
    BY <2>3, <2>4
<1> QED
  BY <1>1, <1>2, <1>3 DEF AcquireAs

\* A lent channel is leased for as long as the lender's lease.
LEMMA DelegateUnexpired ==
    ASSUME KernelInv, NEW c \in Channels, NEW from \in Owners, NEW to \in Owners,
           Delegate(c, from, to), stage' = stage
    PROVE  Unexpired'
<1> DEFINE new == lastGeneration + 1
<1>1. tick' = tick
  BY DEF Delegate
<1> SUFFICES ASSUME stage \in {"ACT", "COMMIT"}, NEW g \in Holding' PROVE tick < lease'[g].expires
  BY <1>1 DEF Unexpired
<1>2. g \in Generations /\ lease'[g].live /\ \E d \in Channels : held'[d] = g
  BY DEF Holding
<1>3. held[c] \in Holding
  BY DEF Delegate, KernelInv, BrokerInv, TypeOK, HoldingsAgree, Live, Holding
<1>4. CASE g = new
  <2>1. lease'[g].expires = lease[held[c]].expires
    BY <1>2, <1>4 DEF Delegate, KernelInv, BrokerInv, TypeOK
  <2> QED
    BY <1>3, <2>1 DEF KernelInv, Unexpired
<1>5. CASE g # new
  <2>1. /\ lease'[g].live = lease[g].live /\ lease'[g].expires = lease[g].expires
        /\ \A d \in Channels : held'[d] = g => held[d] = g
    BY <1>2, <1>5 DEF Delegate, KernelInv, BrokerInv, TypeOK, LeaseType
  <2>2. g \in Holding
    BY <1>2, <2>1 DEF Holding
  <2> QED
    BY <2>1, <2>2 DEF KernelInv, Unexpired
<1> QED
  BY <1>4, <1>5

\* Arbitration leaves no lease without time.
LEMMA ArbitrateUnexpired == ASSUME KernelInv, Arbitrate PROVE Unexpired'
<1>1. Expired \in SUBSET Generations /\ Unhook(Expired) /\ tick' = tick
  BY DEF Arbitrate, Expired, Holding, Revoke
<1>2. ASSUME NEW g \in Holding' PROVE tick < lease'[g].expires
  <2>1. g \in Holding /\ g \notin Expired /\ lease'[g] = lease[g]
    BY <1>1, Survivors DEF KernelInv
  <2>2. lease[g].expires \in Nat /\ tick \in Nat
    BY <2>1 DEF Holding, KernelInv, BrokerInv, TypeOK, LeaseType
  <2> QED
    BY <2>1, <2>2 DEF Expired
<1> QED
  BY <1>1, <1>2 DEF Unexpired

-----------------------------------------------------------------------------
(* The report *)

\* The committed part of the report grows by the head of the queue at most, and only when
\* that is what the step commits.
LEMMA AppendedSeq ==
    ASSUME NEW s, NEW n \in Nat, s = [k \in 1 .. n |-> s[k]], NEW e
    PROVE  /\ Len(s) = n
           /\ Append(s, e) = [k \in 1 .. (n + 1) |-> Append(s, e)[k]]
           /\ Len(Append(s, e)) = n + 1
           /\ \A k \in 1 .. n : Append(s, e)[k] = s[k]
           /\ Append(s, e)[n + 1] = e
<1> DEFINE T == {s[k] : k \in 1 .. n} \cup {e}
<1>1. s \in [1 .. n -> T]
  OBVIOUS
<1>2. s \in Seq(T) /\ Len(s) = n
  BY <1>1
<1>3. e \in T
  OBVIOUS
<1> HIDE DEF T
<1>4. Append(s, e) \in Seq(T) /\ Len(Append(s, e)) = n + 1
  BY <1>2, <1>3
<1>5. Append(s, e) = [k \in 1 .. (n + 1) |-> Append(s, e)[k]]
  <2>1. \A t \in Seq(T) : t \in [1 .. Len(t) -> T]
    BY SMT
  <2>2. \A t \in [1 .. (n + 1) -> T] : t = [k \in 1 .. (n + 1) |-> t[k]]
    OBVIOUS
  <2> QED
    BY <1>4, <2>1, <2>2, Zenon
<1>6. \A k \in 1 .. n : Append(s, e)[k] = s[k]
  BY <1>2, <1>3
<1>7. Append(s, e)[n + 1] = e
  BY <1>2, <1>3
<1> QED
  BY <1>2, <1>4, <1>5, <1>6, <1>7

(* Settling an intent reports at most the head of the queue as committed. *)
LEMMA SettleReports ==
    ASSUME Reported, NEW b \in Queue!Buckets, Queue!Settle(b)
    PROVE  /\ Reported'
           /\ Committed' \subseteq Committed \cup {Head(queue)}
           /\ b # "committed" => Committed' = Committed
<1> DEFINE s == report["committed"]
           e == Head(queue)
<1>1. /\ DOMAIN report = Queue!Buckets
      /\ report' = [report EXCEPT ![b] = Append(report[b], e)]
  BY DEF Reported, Queue!Settle
<1>2. PICK n \in Nat : s = [k \in 1 .. n |-> s[k]]
  BY DEF Reported
<1>3. DOMAIN report' = Queue!Buckets /\ "committed" \in Queue!Buckets
  BY <1>1 DEF Queue!Buckets
<1>4. CASE b # "committed"
  <2>1. report'["committed"] = s
    BY <1>1, <1>3, <1>4
  <2> QED
    BY <1>2, <1>3, <1>4, <2>1 DEF Reported, Committed
<1>5. CASE b = "committed"
  <2> DEFINE t == report'["committed"]
  <2>1. t = Append(s, e)
    BY <1>1, <1>3, <1>5
  <2> HIDE DEF s, t, e
  <2>2. /\ Len(s) = n /\ Len(t) = n + 1
        /\ t = [k \in 1 .. (n + 1) |-> t[k]]
        /\ \A k \in 1 .. n : t[k] = s[k]
        /\ t[n + 1] = e
    BY <1>2, <2>1, AppendedSeq
  <2>3. {t[k] : k \in 1 .. Len(t)} \subseteq {s[k] : k \in 1 .. Len(s)} \cup {e}
    <3>1. \A k \in 1 .. (n + 1) : k \in 1 .. n \/ k = n + 1
      OBVIOUS
    <3> QED
      BY <2>2, <3>1
  <2>4. n + 1 \in Nat
    OBVIOUS
  <2>5. Reported'
    BY <1>3, <2>2, <2>4 DEF Reported, t
  <2> QED
    BY <1>5, <2>3, <2>5 DEF Committed, s, t, e
<1> QED
  BY <1>4, <1>5

(* A commit opens with nothing reported. *)
LEMMA OpenReports == ASSUME Queue!OpenCommit PROVE Reported' /\ Committed' = {}
<1>1. DOMAIN report' = Queue!Buckets /\ report'["committed"] = <<>>
  BY DEF Queue!OpenCommit, Queue!EmptyReport, Queue!Buckets
<1>2. <<>> = [k \in 1 .. 0 |-> <<>>[k]] /\ 0 \in Nat
  OBVIOUS
<1>3. Len(report'["committed"]) = 0
  BY <1>1
<1> QED
  BY <1>1, <1>2, <1>3 DEF Reported, Committed

-----------------------------------------------------------------------------
(* The keys *)

\* The part of Tracked that no stage enters into.
KeysTracked == KeyFaults = {} => down \ DirectKeys = pressed \ DirectKeys

\* No operation of the broker lets the keys and the belief part.
LEMMA BrokerTracks ==
    ASSUME BrokerInv, KeysTracked, [Next]_vars
    PROVE  KeysTracked'
<1>1. ReleaseAll => KeysTracked'
  BY DEF ReleaseAll, KeysTracked
<1>2. UNCHANGED movementVars => KeysTracked'
  BY DEF movementVars, KeysTracked
<1>3. CASE TearsDown
  BY <1>1, <1>2, <1>3 DEF TearsDown, Revoke, ReleaseIfMoving
<1>4. CASE Extends
  BY <1>2, <1>4, ExtendsFacts
<1>5. CASE Grants
  BY <1>2, <1>5, GrantsFacts
<1>6. CASE Detaches
  BY <1>1, <1>2, <1>6, DetachesFacts DEF Detaches
<1>7. CASE LeavesTables
  <2>1. (\E keys \in SUBSET Keys : SetDesired(keys)) => KeysTracked'
    BY DEF SetDesired, KeysTracked
  <2>2. Reconcile => KeysTracked'
    BY DEF Reconcile, Drive, KeysTracked
  <2>3. PluginDrives => KeysTracked'
    BY DEF PluginDrives, KeysTracked
  <2> QED
    BY <1>2, <1>7, <2>1, <2>2, <2>3 DEF LeavesTables
<1> QED
  BY <1>3, <1>4, <1>5, <1>6, <1>7, StepKinds

\* A reconcile that no call fails presses what is desired and nothing else.
LEMMA ReconcileFollows ==
    ASSUME Reconcile, KeyFaults = {}
    PROVE  pressed' = desired'
  BY DEF Reconcile, Drive

-----------------------------------------------------------------------------
(* The stages *)

\* What is behind an intent that passes the generation check.
LEMMA AdmittedHolds ==
    ASSUME NEW i, Queue!Admitted(i)
    PROVE  i.generation \in Holding /\ lease[i.generation].owner = i.owner
  BY DEF Queue!Admitted, Queue!Authorised

(* KernelInv holds initially. *)
LEMMA TickInitInv == TickInit => KernelInv
<1> SUFFICES ASSUME TickInit PROVE KernelInv
  OBVIOUS
<1>1. BrokerInv
  BY InitInv DEF TickInit
<1>2. Reported
  <2>1. DOMAIN report = Queue!Buckets /\ report["committed"] = <<>>
    BY DEF TickInit, Queue!QueueInit, Queue!EmptyReport, Queue!Buckets
  <2>2. <<>> = [k \in 1 .. 0 |-> <<>>[k]] /\ 0 \in Nat
    OBVIOUS
  <2> QED
    BY <2>1, <2>2 DEF Reported
<1>3. Unexpired /\ stage \in Stages
  BY DEF TickInit, Unexpired, Stages
<1>4. Tracked
  BY DEF TickInit, Init, MovementInit, Tracked
<1> QED
  BY <1>1, <1>2, <1>3, <1>4 DEF KernelInv

\* The stages in which the callers run: any operation of theirs.
LEMMA CallInv == ASSUME KernelInv, Call PROVE KernelInv' /\ Committed' = Committed
<1>1. stage' = stage /\ stage \in {"INTERRUPT", "ACT"} /\ report' = report
  BY DEF Call, CallersRun, kernelVars
<1>2. [Next]_vars
  BY DEF Call, Next
<1>3. BrokerInv'
  BY <1>2, NextInv DEF KernelInv
<1>4. Tracked'
  BY <1>1, <1>2, BrokerTracks DEF KernelInv, Tracked, KeysTracked
<1>5. Reported' /\ Committed' = Committed
  BY <1>1 DEF KernelInv, Reported, Committed
<1>6. Unexpired'
  <2>1. CASE \E r \in Requests : Acquire(r)
    <3> PICK r \in Requests : Acquire(r)
      BY <2>1
    <3>1. r.channels \in SUBSET Channels /\ r.ttl \in Nat /\ r.ttl >= 1
      BY BrokerAssumption DEF RequestType, Acquire
    <3> QED
      BY <1>1, <3>1, AcquireUnexpired DEF Acquire
  <2>2. CASE \E g \in Generations, ttl \in {r.ttl : r \in Requests} : CaretakerRenew(g, ttl)
    <3> PICK g \in Generations, ttl \in {r.ttl : r \in Requests} : CaretakerRenew(g, ttl)
      BY <2>2
    <3>1. lease[g].channels \in SUBSET Channels /\ ttl \in Nat /\ ttl >= 1
      BY BrokerAssumption DEF RequestType, CaretakerRenew, KernelInv, BrokerInv, TypeOK, LeaseType
    <3> QED
      BY <1>1, <3>1, AcquireUnexpired DEF CaretakerRenew
  <2>3. CASE \E g \in Generations : Release(g)
    BY <1>1, <2>3, UnhookUnexpired DEF Release, Revoke
  <2>4. CASE \E c \in Channels, from, to \in Owners : Delegate(c, from, to)
    BY <1>1, <2>4, DelegateUnexpired
  <2>5. CASE \E o \in Owners : RevokeOwner(o)
    BY <1>1, <2>5, UnhookUnexpired DEF RevokeOwner, OwnedBy, Holding, Sweep, Revoke
  <2>6. CASE \E p \in {lease[g].priority : g \in Live} : RevokeBelow(p + 1)
    BY <1>1, <2>6, UnhookUnexpired DEF RevokeBelow, Below, Holding, Sweep, Revoke
  <2>7. CASE BypassKeys
    BY <1>1, <2>7 DEF BypassKeys, brokerVars, KernelInv, Unexpired, Holding
  <2> QED
    BY <2>1, <2>2, <2>3, <2>4, <2>5, <2>6, <2>7 DEF Call
<1> QED
  BY <1>1, <1>3, <1>4, <1>5, <1>6 DEF KernelInv

\* The kernel's own stages around the commit.
LEMMA StageInv ==
    ASSUME KernelInv, Sense \/ ArbitrateStage \/ Account
    PROVE  KernelInv' /\ Committed' = Committed
<1>1. report' = report
  BY DEF Sense, ArbitrateStage, Account, kernelVars
<1>2. [Next]_vars
  BY DEF Sense, ArbitrateStage, Account, Next
<1>3. BrokerInv' /\ KeysTracked'
  BY <1>2, NextInv, BrokerTracks DEF KernelInv, Tracked, KeysTracked
<1>4. stage' \in {"IDLE", "INTERRUPT", "ACT"}
  BY DEF Sense, ArbitrateStage, Account
<1>5. Unexpired'
  BY ArbitrateUnexpired DEF Sense, ArbitrateStage, Account, Unexpired
<1> QED
  BY <1>1, <1>3, <1>4, <1>5 DEF KernelInv, Tracked, KeysTracked, Reported, Committed, Stages

\* The steps of the queue that have no effect.
LEMMA QueueOnlyInv ==
    ASSUME KernelInv, StartCommit \/ Refuse \/ Emit \/ CooldownElapses
    PROVE  KernelInv' /\ Committed' \subseteq Committed
<1>1. UNCHANGED vars
  BY DEF StartCommit, Refuse, Emit, CooldownElapses
<1>2. BrokerInv'
  BY <1>1, NextInv DEF KernelInv
<1>3. stage' \in Stages /\ (stage' \in {"ACT", "COMMIT"} => stage \in {"ACT", "COMMIT"}) /\ (stage' = "ACCOUNT" => stage = "ACCOUNT")
  BY DEF StartCommit, Refuse, Emit, CooldownElapses, Stages, KernelInv
<1>4. Unexpired' /\ Tracked'
  BY <1>1, <1>3 DEF KernelInv, Unexpired, Tracked, Holding, vars, brokerVars, movementVars
<1>5. Reported' /\ Committed' \subseteq Committed
  <2>1. CASE StartCommit
    BY <2>1, OpenReports DEF StartCommit
  <2>2. CASE Refuse
    <3>1. PICK b \in {"rejected", "stale", "failed"} : Queue!Settle(b)
      BY <2>2 DEF Refuse, Queue!GateRefuses, Queue!GenerationRefuses, Queue!NoExecutor, Queue!ExecutorFails
    <3>2. b \in Queue!Buckets
      BY DEF Queue!Buckets
    <3> QED
      BY <3>1, <3>2, SettleReports DEF KernelInv
  <2>3. CASE Emit \/ CooldownElapses
    <3>1. report' = report
      BY <2>3 DEF Emit, CooldownElapses, Queue!Submit, Queue!GcdElapses
    <3> QED
      BY <3>1 DEF KernelInv, Reported, Committed
  <2> QED
    BY <2>1, <2>2, <2>3
<1> QED
  BY <1>2, <1>3, <1>4, <1>5 DEF KernelInv

\* An intent takes effect: what is behind it is a lease with time left.
LEMMA EffectInv ==
    ASSUME KernelInv, Effect
    PROVE  KernelInv' /\ Committed' \subseteq Committed \cup {Head(queue)}
<1>1. stage = "COMMIT" /\ stage' = stage /\ Queue!Settle("committed") /\ "committed" \in Queue!Buckets
  BY DEF Effect, Queue!Execute, Queue!Buckets
<1>2. Reported' /\ Committed' \subseteq Committed \cup {Head(queue)}
  BY <1>1, SettleReports DEF KernelInv
<1>3. [Next]_vars /\ UNCHANGED brokerVars
  <2>1. CASE UNCHANGED vars
    BY <2>1 DEF vars
  <2>2. CASE Head(queue).action \in Moves /\ CommitMove(Head(queue).generation, Head(queue).action)
    <3>1. Head(queue).generation \in Generations
      BY <2>2 DEF CommitMove, GenerationValid, Holding
    <3>2. Head(queue).action \in SUBSET Keys
      BY <2>2, TickAssumption
    <3> QED
      BY <2>2, <3>1, <3>2 DEF Next, CommitMove
  <2> QED
    BY <2>1, <2>2 DEF Effect
<1>4. BrokerInv' /\ KeysTracked'
  BY <1>3, NextInv, BrokerTracks DEF KernelInv, Tracked, KeysTracked
<1>5. Unexpired'
  BY <1>1, <1>3 DEF brokerVars, KernelInv, Unexpired, Holding
<1> QED
  BY <1>1, <1>2, <1>4, <1>5 DEF KernelInv, Tracked, KeysTracked

\* The last reconcile of the tick.
LEMMA FinishInv == ASSUME KernelInv, FinishCommit PROVE KernelInv' /\ Committed' = Committed
<1>1. stage' = "ACCOUNT" /\ ReconcileKeys /\ report' = report
  BY DEF FinishCommit, Queue!CloseCommit
<1>2. [Next]_vars
  BY <1>1 DEF Next
<1>3. BrokerInv' /\ KeysTracked'
  BY <1>2, NextInv, BrokerTracks DEF KernelInv, Tracked, KeysTracked
<1>4. KeyFaults = {} => pressed' = desired'
  BY <1>1, ReconcileFollows DEF ReconcileKeys
<1> QED
  BY <1>1, <1>3, <1>4 DEF KernelInv, Tracked, KeysTracked, Reported, Committed, Stages, Unexpired

-----------------------------------------------------------------------------

\* The invariant of a tick, through every stage and whatever the callers do in theirs.
THEOREM TickInvariant == TickSpec => []KernelInv
<1>1. KernelInv /\ [TickNext]_tickVars => KernelInv'
  <2> SUFFICES ASSUME KernelInv, [TickNext]_tickVars PROVE KernelInv'
    OBVIOUS
  <2>1. CASE UNCHANGED tickVars
    <3>1. BrokerInv'
      BY <2>1, NextInv DEF tickVars, KernelInv
    <3> QED
      BY <2>1, <3>1 DEF tickVars, kernelVars, vars, brokerVars, movementVars,
                        KernelInv, Unexpired, Tracked, Reported, Holding
  <2> QED
    BY <2>1, CallInv, StageInv, QueueOnlyInv, EffectInv, FinishInv DEF TickNext
<1> QED
  BY <1>1, TickInitInv, PTL DEF TickSpec

\* An intent takes effect only on the authority of a lease that is alive, its submitter's
\* and has time left, however many callers acquired, lent and released since it was
\* submitted (intent_executors.lua, the generation check of `commit`).
THEOREM AuthorityIsLive == TickSpec => OnlyLiveLeasesAct
<1> DEFINE Step == \A i \in Committed' \ Committed :
                     /\ i.generation \in Live
                     /\ lease[i.generation].owner = i.owner
                     /\ tick < lease[i.generation].expires
<1>1. KernelInv /\ [TickNext]_tickVars => Step
  <2> SUFFICES ASSUME KernelInv, [TickNext]_tickVars, NEW i \in Committed' \ Committed
               PROVE  /\ i.generation \in Live
                      /\ lease[i.generation].owner = i.owner
                      /\ tick < lease[i.generation].expires
    OBVIOUS
  <2>1. tickVars' # tickVars
    BY DEF tickVars, kernelVars, Committed
  <2>2. Effect
    BY <2>1, CallInv, StageInv, QueueOnlyInv, FinishInv DEF TickNext
  <2>3. i = Head(queue) /\ stage = "COMMIT" /\ Queue!Admitted(Head(queue))
    BY <2>2, EffectInv DEF Effect, Queue!Execute
  <2>4. i.generation \in Holding /\ lease[i.generation].owner = i.owner
    BY <2>3, AdmittedHolds
  <2> QED
    BY <2>3, <2>4 DEF KernelInv, Unexpired, Holding, Live
<1> QED
  BY <1>1, TickInvariant, PTL DEF TickSpec, OnlyLiveLeasesAct

\* At the end of a tick the keys are where the last `move` to commit put them, unless a
\* call to the injector failed or a plugin drives the key itself.
THEOREM KeysEndAsDesired == TickSpec => []KeysFollowTheDesire
<1>1. KernelInv => KeysFollowTheDesire
  BY DEF KernelInv, Tracked, KeysFollowTheDesire
<1> QED
  BY <1>1, TickInvariant, PTL

-----------------------------------------------------------------------------
(* The activity stack *)

Entry == [id : Owners, priority : Int]

StackInv ==
    /\ BrokerInv
    /\ stack \in Seq(Entry)
    /\ delegations \in [Channels -> [service : Owners \cup {NoOwner}, delegator : Owners \cup {NoOwner}]]
    /\ LentWhileOnStack

\* The stack as a set, when an activity comes and when one goes.
LEMMA PushedOnStack ==
    ASSUME NEW s \in Seq(Entry), NEW e \in Entry
    PROVE  ToSet(s) \subseteq ToSet(Append(s, e)) /\ e \in ToSet(Append(s, e))
<1> DEFINE t == Append(s, e)
<1>1. /\ DOMAIN t = 1 .. (Len(s) + 1) /\ DOMAIN s = 1 .. Len(s) /\ Len(s) \in Nat
      /\ \A i \in 1 .. Len(s) : t[i] = s[i]
      /\ t[Len(s) + 1] = e
  OBVIOUS
<1> HIDE DEF t
<1>2. \A i \in DOMAIN s : i \in DOMAIN t /\ t[i] = s[i]
  BY <1>1
<1>3. Len(s) + 1 \in DOMAIN t
  BY <1>1
<1> QED
  BY <1>1, <1>2, <1>3 DEF ToSet, t

(* A stack without its last entry, and that entry. *)
LEMMA PoppedFromStack ==
    ASSUME NEW s \in Seq(Entry), s # <<>>
    PROVE  /\ Front(s) \in Seq(Entry) /\ Last(s) \in Entry /\ Last(s) \in ToSet(s)
           /\ Len(Front(s)) < Len(s)
           /\ ToSet(s) \subseteq ToSet(Front(s)) \cup {Last(s)}
<1> DEFINE t == Front(s)
<1>1. Len(s) \in Nat \ {0} /\ DOMAIN s = 1 .. Len(s) /\ \A i \in DOMAIN s : s[i] \in Entry
  OBVIOUS
<1>2. t = SubSeq(s, 1, Len(s) - 1) /\ Last(s) = s[Len(s)]
  BY DEF Front, Last
<1>3. /\ DOMAIN t = 1 .. (Len(s) - 1) /\ Len(t) = Len(s) - 1 /\ t \in Seq(Entry)
      /\ \A i \in 1 .. (Len(s) - 1) : t[i] = s[i]
  BY <1>1, <1>2
<1> HIDE DEF t
<1>4. \A i \in DOMAIN s : i \in DOMAIN t \/ i = Len(s)
  BY <1>1, <1>3
<1>5. \A i \in DOMAIN s : s[i] \in {t[j] : j \in DOMAIN t} \cup {Last(s)}
  BY <1>1, <1>2, <1>3, <1>4
<1>6. Last(s) \in Entry /\ Last(s) \in ToSet(s)
  BY <1>1, <1>2 DEF ToSet
<1> QED
  BY <1>1, <1>3, <1>5, <1>6 DEF ToSet, t

-----------------------------------------------------------------------------

\* Nothing the rest of the kernel does makes a lease hold a channel for a lender that is
\* not the lender of a lease that held one before: renewals keep the lender, grants have none.
LEMMA LendersStay ==
    ASSUME BrokerInv, BrokerActs, NEW g \in Holding', lease'[g].from # NoOwner
    PROVE  g \in Holding /\ lease'[g].from = lease[g].from
<1> DEFINE Stays == g \in Holding /\ lease'[g].from = lease[g].from
<1>0. g \in Generations /\ lease'[g].live /\ (\E c \in Channels : held'[c] = g) /\ g # Free
  BY DEF Holding, Generations, Free
<1>1. ASSUME NEW G \in SUBSET Generations, Unhook(G) PROVE Stays
  BY <1>1, Survivors
<1>2. ASSUME UNCHANGED <<lease, held>> PROVE Stays
  BY <1>2 DEF Holding
<1>3. ASSUME NEW S \in SUBSET Channels, NEW o, NEW p, NEW n, AcquireAs(S, o, p, n) PROVE Stays
  <2>1. CASE Preempt(S, o, p)
    <3>1. \A c \in Planned("preempt", S, o, p) : held[c] \in Generations
      BY DEF Planned, Plan, BrokerInv, TypeOK
    <3>2. {held[c] : c \in Planned("preempt", S, o, p)} \in SUBSET Generations
      BY <3>1
    <3> QED
      BY <1>1, <2>1, <3>2 DEF Preempt, Revoke
  <2>2. CASE Renew(S, o, p, n)
    <3>1. PICK c \in Planned("renew", S, o, p) :
            /\ lease' = [lease EXCEPT ![held[c]].expires = tick + n,
                                      ![held[c]].channels = @ \cup Planned("free", S, o, p)]
            /\ held' = [d \in Channels |-> IF d \in Planned("free", S, o, p) THEN held[c] ELSE held[d]]
      BY <2>2 DEF Renew
    <3>2. c \in Channels
      BY <3>1 DEF Planned
    <3>3. lease'[g].live = lease[g].live /\ lease'[g].from = lease[g].from
      <4>1. lease[g] \in LeaseType /\ lease \in [Generations -> LeaseType]
        BY <1>0 DEF BrokerInv, TypeOK
      <4>2. CASE g # held[c]
        BY <1>0, <3>1, <4>1, <4>2
      <4>3. CASE g = held[c]
        <5>1. lease'[g] = [lease[g] EXCEPT !.expires = tick + n, !.channels = @ \cup Planned("free", S, o, p)]
          BY <1>0, <3>1, <4>1, <4>3
        <5> QED
          BY <4>1, <5>1 DEF LeaseType
      <4> QED
        BY <4>2, <4>3
    <3>4. \E d \in Channels : held[d] = g
      BY <1>0, <3>1, <3>2
    <3> QED
      BY <1>0, <3>3, <3>4 DEF Holding
  <2>3. CASE Grant(S, o, p, n)
    <3>1. lease'[lastGeneration + 1].from = NoOwner \/ lastGeneration + 1 \notin Generations
      BY <2>3 DEF Grant, BrokerInv, TypeOK
    <3>2. g # lastGeneration + 1
      BY <1>0, <3>1
    <3>3. lease'[g] = lease[g] /\ \A c \in Channels : held'[c] = g => held[c] = g
      BY <1>0, <2>3, <3>2 DEF Grant, BrokerInv, TypeOK
    <3> QED
      BY <1>0, <3>3 DEF Holding
  <2> QED
    BY <1>3, <2>1, <2>2, <2>3 DEF AcquireAs
<1>4. CASE \E r \in Requests : Acquire(r)
  BY <1>3, <1>4, BrokerAssumption DEF Acquire, RequestType
<1>5. CASE \E h \in Generations, ttl \in {r.ttl : r \in Requests} : CaretakerRenew(h, ttl)
  BY <1>3, <1>5 DEF CaretakerRenew, BrokerInv, TypeOK, LeaseType
<1>6. CASE \E h \in Generations : Release(h)
  BY <1>1, <1>6 DEF Release, Revoke
<1>7. CASE Arbitrate
  BY <1>1, <1>7 DEF Arbitrate, Revoke, Expired, Holding
<1>8. CASE BeginTick \/ EndTick
  BY <1>2, <1>8 DEF BeginTick, EndTick
<1> QED
  BY <1>4, <1>5, <1>6, <1>7, <1>8 DEF BrokerActs

\* Nothing but a push and a pop changes the stack, and a broker step keeps its invariant.
LEMMA BrokerActsInv == ASSUME StackInv, BrokerActs PROVE StackInv'
<1>1. BrokerInv'
  <2>1. [Next]_vars
    BY DEF BrokerActs, Next
  <2> QED
    BY <2>1, NextInv DEF StackInv
<1>2. stack' = stack /\ delegations' = delegations
  BY DEF BrokerActs, stackVars
<1>3. \A g \in Holding' : lease'[g].from # NoOwner => lease'[g].from \in OnStack
  BY LendersStay DEF StackInv, LentWhileOnStack
<1>4. LentWhileOnStack'
  BY <1>2, <1>3 DEF StackInv, LentWhileOnStack, OnStack, NotLent
<1> QED
  BY <1>1, <1>2, <1>4 DEF StackInv

\* A push only adds to the stack, and what it sweeps is gone.
LEMMA PushInv == ASSUME StackInv, NEW a \in Activities, Push(a) PROVE StackInv'
<1> DEFINE e == [id |-> a.id, priority |-> Resolve(a.band, a.offset)]
           G == Below(Resolve(a.band, a.offset))
<1>1. a.id \in Owners /\ a.band \in BandNames /\ a.offset \in Nat
  BY StackAssumption
<1>2. Resolve(a.band, a.offset) \in Int
  BY <1>1 DEF Resolve, BandMin, BandNames
<1>3. e \in Entry
  BY <1>1, <1>2 DEF Entry
<1>4. stack' = Append(stack, e) /\ Sweep(G) /\ delegations' = delegations
  BY DEF Push
<1>5. G \in SUBSET Generations
  BY DEF Below, Holding
<1>6. BrokerInv'
  BY <1>4, <1>5, SweepInv DEF StackInv
<1> HIDE DEF e, G
<1>7. stack' \in Seq(Entry)
  BY <1>3, <1>4 DEF StackInv
<1>8. OnStack \subseteq OnStack'
  BY <1>3, <1>4, PushedOnStack DEF StackInv, OnStack
<1>9. \A g \in Holding' : g \in Holding /\ lease'[g] = lease[g]
  BY <1>4, <1>5, Survivors DEF StackInv, Sweep, Revoke
<1>10. LentWhileOnStack'
  BY <1>4, <1>8, <1>9 DEF StackInv, LentWhileOnStack, NotLent
<1> QED
  BY <1>4, <1>6, <1>7, <1>10 DEF StackInv

\* What names the popped activity goes with it; the lenders that remain are below it.
LEMMA PopInv == ASSUME StackInv, Pop PROVE StackInv'
<1> DEFINE id == Last(stack).id
           G == DelegatedFrom(id) \cup OwnedBy(id)
<1>1. /\ stack # <<>> /\ stack' = Front(stack) /\ Sweep(G)
      /\ delegations' = [c \in Channels |->
           IF delegations[c].delegator = id THEN NotLent ELSE delegations[c]]
  BY DEF Pop
<1>2. G \in SUBSET Generations
  BY DEF DelegatedFrom, OwnedBy, Holding
<1>3. BrokerInv'
  BY <1>1, <1>2, SweepInv DEF StackInv
<1>4. stack' \in Seq(Entry) /\ ToSet(stack) \subseteq ToSet(stack') \cup {Last(stack)}
  BY <1>1, PoppedFromStack DEF StackInv
<1>5. OnStack \subseteq OnStack' \cup {id}
  BY <1>4 DEF OnStack
<1>6. delegations' \in [Channels -> [service : Owners \cup {NoOwner}, delegator : Owners \cup {NoOwner}]]
  <2>1. NotLent \in [service : Owners \cup {NoOwner}, delegator : Owners \cup {NoOwner}]
    BY DEF NotLent
  <2> QED
    BY <1>1, <2>1 DEF StackInv
<1>7. ASSUME NEW g \in Holding', lease'[g].from # NoOwner PROVE lease'[g].from \in OnStack'
  <2>1. g \in Holding /\ g \notin G /\ lease'[g] = lease[g]
    BY <1>1, <1>2, Survivors DEF StackInv, Sweep, Revoke
  <2>2. lease[g].from \in OnStack /\ lease[g].from # id
    BY <1>7, <2>1 DEF StackInv, LentWhileOnStack, DelegatedFrom
  <2> QED
    BY <1>5, <2>1, <2>2
<1>8. ASSUME NEW c \in Channels, delegations'[c] # NotLent PROVE delegations'[c].delegator \in OnStack'
  <2>1. delegations'[c] = delegations[c] /\ delegations[c].delegator # id
    BY <1>1, <1>8
  <2>2. delegations[c].delegator \in OnStack
    BY <1>8, <2>1 DEF StackInv, LentWhileOnStack
  <2> QED
    BY <1>5, <2>1, <2>2
<1>9. LentWhileOnStack'
  BY <1>7, <1>8 DEF LentWhileOnStack, NotLent
<1> QED
  BY <1>3, <1>4, <1>6, <1>9 DEF StackInv

\* The lender of what is lent is the activity on top.
LEMMA DelegateToInv ==
    ASSUME StackInv, NEW c \in Channels, NEW s \in Services, DelegateTo(c, s)
    PROVE  StackInv'
<1> DEFINE id == Last(stack).id
           new == lastGeneration + 1
<1>1. /\ stack # <<>> /\ Delegate(c, id, s) /\ stack' = stack
      /\ delegations' = [delegations EXCEPT ![c] = [service |-> s, delegator |-> id]]
  BY DEF DelegateTo
<1>2. id \in Owners /\ s \in Owners /\ id \in OnStack
  BY <1>1, PoppedFromStack, StackAssumption DEF StackInv, Entry, OnStack
<1>3. BrokerInv'
  BY <1>1, <1>2, DelegateInv DEF StackInv
<1>4. delegations' \in [Channels -> [service : Owners \cup {NoOwner}, delegator : Owners \cup {NoOwner}]]
  BY <1>1, <1>2 DEF StackInv
<1>5. ASSUME NEW g \in Holding', lease'[g].from # NoOwner PROVE lease'[g].from \in OnStack
  <2>0. g \in Generations /\ g # Free /\ lease'[g].live /\ \E d \in Channels : held'[d] = g
    BY DEF Holding, Generations, Free
  <2>1. CASE g = new
    BY <1>1, <1>2, <2>1, DetachesFacts DEF StackInv
  <2>2. CASE g # new
    <3>1. lease'[g].live = lease[g].live /\ lease'[g].from = lease[g].from
      BY <1>1, <2>0, <2>2 DEF Delegate, StackInv, BrokerInv, TypeOK, LeaseType
    <3>2. \E d \in Channels : held[d] = g
      BY <1>1, <2>0, <2>2 DEF Delegate, StackInv, BrokerInv, TypeOK
    <3>3. g \in Holding
      BY <2>0, <3>1, <3>2 DEF Holding
    <3> QED
      BY <1>5, <3>1, <3>3 DEF StackInv, LentWhileOnStack
  <2> QED
    BY <2>1, <2>2
<1>6. \A d \in Channels : delegations'[d] # NotLent => delegations'[d].delegator \in OnStack
  BY <1>1, <1>2 DEF StackInv, LentWhileOnStack
<1>7. LentWhileOnStack'
  BY <1>1, <1>5, <1>6 DEF LentWhileOnStack, OnStack, NotLent
<1> QED
  BY <1>1, <1>3, <1>4, <1>7 DEF StackInv

-----------------------------------------------------------------------------

(* StackInv holds initially. *)
LEMMA StackInitInv == StackInit => StackInv
<1> SUFFICES ASSUME StackInit PROVE StackInv
  OBVIOUS
<1>1. BrokerInv
  BY InitInv DEF StackInit
<1>2. Holding = {}
  BY DEF StackInit, Init, Dead, Holding
<1> QED
  BY <1>1, <1>2 DEF StackInit, StackInv, LentWhileOnStack, NotLent

\* The invariant of the broker under its stack.
THEOREM StackInvariant == StackSpec => []StackInv
<1>1. StackInv /\ [StackNext]_<<vars, stackVars>> => StackInv'
  <2> SUFFICES ASSUME StackInv, [StackNext]_<<vars, stackVars>> PROVE StackInv'
    OBVIOUS
  <2>1. CASE \E a \in Activities : Push(a)
    BY <2>1, PushInv
  <2>2. CASE Pop
    BY <2>2, PopInv
  <2>3. CASE \E c \in Channels, s \in Services : DelegateTo(c, s)
    BY <2>3, DelegateToInv
  <2>4. CASE BrokerActs
    BY <2>4, BrokerActsInv
  <2>5. CASE UNCHANGED <<vars, stackVars>>
    <3>1. BrokerInv'
      BY <2>5, NextInv DEF StackInv
    <3> QED
      BY <2>5, <3>1 DEF vars, brokerVars, stackVars, StackInv, LentWhileOnStack, OnStack, Holding
  <2> QED
    BY <2>1, <2>2, <2>3, <2>4, <2>5 DEF StackNext
<1> QED
  BY <1>1, StackInitInv, PTL DEF StackSpec

\* What an activity lends never outlives its place on the stack: neither the lease of the
\* service nor the entry in the table of loans (activity_stack.lua `pop`, `delegate`).
THEOREM LoansEndWithTheLender == StackSpec => []LentWhileOnStack
<1>1. StackInv => LentWhileOnStack
  BY DEF StackInv
<1> QED
  BY <1>1, StackInvariant, PTL

\* A push leaves no channel with a weaker holder, and the body still unless a holder as
\* strong keeps MOVEMENT (activity_stack.lua `push`).
THEOREM InterruptsTakeOver == StackSpec => InterruptTakesOver
<1> DEFINE Step == Len(stack') > Len(stack) =>
         /\ \A c \in Channels : held'[c] # Free => lease'[held'[c]].priority >= Last(stack').priority
         /\ held[Movement] # Free /\ held'[Movement] = Free => desired' = {}
<1>1. StackInv /\ [StackNext]_<<vars, stackVars>> => Step
  <2> SUFFICES ASSUME StackInv, [StackNext]_<<vars, stackVars>>, Len(stack') > Len(stack) PROVE Step
    OBVIOUS
  <2>1. ~Pop
    BY PoppedFromStack DEF Pop, StackInv
  <2>2. stack' # stack
    BY DEF StackInv
  <2>3. PICK a \in Activities : Push(a)
    BY <2>1, <2>2 DEF StackNext, DelegateTo, BrokerActs, stackVars
  <2> DEFINE p == Resolve(a.band, a.offset)
             G == Below(p)
  <2>4. p \in Int
    BY StackAssumption DEF Resolve, BandMin, BandNames
  <2>5. stack' = Append(stack, [id |-> a.id, priority |-> p]) /\ Sweep(G)
    BY <2>3 DEF Push
  <2>6. G \in SUBSET Generations
    BY DEF Below, Holding
  <2> HIDE DEF p
  <2>7. Last(stack').priority = p
    <3>1. Len(stack') = Len(stack) + 1 /\ stack'[Len(stack) + 1] = [id |-> a.id, priority |-> p]
      BY <2>5 DEF StackInv
    <3> QED
      BY <3>1 DEF Last
  <2>8. ASSUME NEW c \in Channels, held'[c] # Free
        PROVE  lease'[held'[c]].priority >= p
    <3>1. BrokerInv'
      BY <2>5, <2>6, SweepInv DEF StackInv
    <3>2. held'[c] \in Holding'
      BY <2>8, <3>1 DEF BrokerInv, HoldingsAgree, Live, Holding, TypeOK
    <3>3. held'[c] \in Holding /\ held'[c] \notin G /\ lease'[held'[c]] = lease[held'[c]]
      BY <2>5, <2>6, <3>2, Survivors DEF StackInv, Sweep, Revoke
    <3>4. lease[held'[c]].priority \in Int
      BY <3>3 DEF Holding, StackInv, BrokerInv, TypeOK, LeaseType
    <3> QED
      BY <2>4, <3>3, <3>4 DEF Below
  <2>9. held[Movement] # Free /\ held'[Movement] = Free => desired' = {}
    <3> SUFFICES ASSUME held[Movement] # Free, held'[Movement] = Free PROVE desired' = {}
      OBVIOUS
    <3>1. held[Movement] \in G /\ Movement \in lease[held[Movement]].channels
      BY <2>5, <2>6, UnhookKeeps, BrokerAssumption DEF StackInv, BrokerInv, Sweep, Revoke
    <3> QED
      BY <2>5, <3>1 DEF Sweep, Revoke, ReleaseIfMoving, ReleaseAll
  <2> QED
    BY <2>7, <2>8, <2>9
<1> QED
  BY <1>1, StackInvariant, PTL DEF StackSpec, InterruptTakesOver
=============================================================================
