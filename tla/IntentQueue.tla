---------------------------- MODULE IntentQueue ----------------------------
(***************************************************************************)
(* kernel/intent_queue.lua with the gates and executors that                *)
(* kernel/intent_executors.lua installs on it: the one place where an       *)
(* intent becomes an effect.  `submit` appends; `commit` collapses equal    *)
(* actions, orders by band, then takes each winner through the gates, the   *)
(* generation check and its executor.  Commit runs to its end without       *)
(* interruption; it is one step per intent so that each effect is seen.     *)
(***************************************************************************)
EXTENDS Integers, Sequences, FiniteSets, SequencesExt

CONSTANTS
    Actions,      \* dedupe identity of an intent: its type and its payload
    OnGcd,        \* the casts that use the global cooldown
    Executable,   \* the actions whose type has an executor
    Stamps,       \* the <<owner, band, generation>> a caretaker puts on an intent
    MaxSubmissions \* bound: intents submitted in one behaviour

ASSUME QueueAssumption ==
    /\ OnGcd \subseteq Actions
    /\ Executable \subseteq Actions
    /\ MaxSubmissions \in Nat

VARIABLES
    pending,     \* `_pending`: submitted since the last commit
    queue,       \* the winners of the commit under way, in order
    entered,     \* the intents the commit under way drained
    report,      \* bucket -> the intents that ended in it, in order
    committing,  \* a commit is under way
    gcdReady,    \* the clock the gcd gate reads
    authorised   \* the <<owner, generation>> pairs the validator accepts

queueVars == <<pending, queue, entered, report, committing, gcdReady>>

\* The generation check files its refusals under `rejected` with a reason of their own,
\* which is a bucket here.
Buckets == {"committed", "deduped", "rejected", "stale", "failed"}

EmptyReport == [b \in Buckets |-> <<>>]

QueueInit ==
    /\ pending = <<>>
    /\ queue = <<>>
    /\ entered = {}
    /\ report = EmptyReport
    /\ committing = FALSE
    /\ gcdReady = TRUE

\* `_sequence`, counted from the last drain: only the order within a drain is read.
NextSequence == Len(pending) + Cardinality(entered) + 1

\* `submit`.  A band outside 0..99 is refused.
Submit(action, stamp) ==
    /\ ~committing
    /\ NextSequence <= MaxSubmissions
    /\ stamp[2] \in 0 .. 99
    /\ pending' = Append(pending,
         [action |-> action, owner |-> stamp[1], band |-> stamp[2],
          generation |-> stamp[3], sequence |-> NextSequence])
    /\ UNCHANGED <<queue, entered, report, committing, gcdReady>>

\* Mutant: of equal actions the first to come wins.
WinnersByArrival(S) ==
    {i \in S : \A j \in S \ {i} : i.action = j.action => i.sequence < j.sequence}

\* Of equal actions the highest band wins, the earliest of several such.
Beats(i, j) == i.band > j.band \/ (i.band = j.band /\ i.sequence < j.sequence)
Winners(S) == {i \in S : \A j \in S \ {i} : i.action = j.action => Beats(i, j)}

\* table.sort with a strict order: all of S, those that beat the others first.
InOrder(S) ==
    {q \in [1 .. Cardinality(S) -> S] : \A i, j \in 1 .. Cardinality(S) : i < j => Beats(q[i], q[j])}

\* `commit` drains the queue, sets the duplicates aside (in an order nobody reads) and orders
\* the winners by band and then by submission.
OpenCommit ==
    /\ ~committing
    /\ LET drained == ToSet(pending)
           winners == Winners(drained)
       IN  /\ entered' = drained
           /\ queue' \in InOrder(winners)
           /\ \E duplicates \in InOrder(drained \ winners) :
                 report' = [EmptyReport EXCEPT !["deduped"] = duplicates]
    /\ pending' = <<>>
    /\ committing' = TRUE
    /\ UNCHANGED gcdReady

\* Mutant: a failed executor is swallowed.
SettleQuietly(b) ==
    /\ committing
    /\ queue # <<>>
    /\ report' = IF b = "failed" THEN report ELSE [report EXCEPT ![b] = Append(@, Head(queue))]
    /\ queue' = Tail(queue)
    /\ UNCHANGED <<pending, entered, committing>>

\* The head of the queue ends in bucket b.
Settle(b) ==
    /\ committing
    /\ queue # <<>>
    /\ report' = [report EXCEPT ![b] = Append(@, Head(queue))]
    /\ queue' = Tail(queue)
    /\ UNCHANGED <<pending, entered, committing>>

HeldByGcd(i) == i.action \in OnGcd /\ ~gcdReady
Authorised(i) == <<i.owner, i.generation>> \in authorised

\* A gate refuses: the gcd gate because the cooldown runs, any other because of what
\* it reads from the game, or because it throws.
GateRefuses == Settle("rejected") /\ UNCHANGED gcdReady

\* The gates pass and the lease behind the intent is dead.
GenerationRefuses ==
    /\ queue # <<>>
    /\ ~HeldByGcd(Head(queue))
    /\ ~Authorised(Head(queue))
    /\ Settle("stale")
    /\ UNCHANGED gcdReady

\* Mutant: the generation check is forgotten.
AdmittedUnchecked(i) == ~HeldByGcd(i)

\* What the gates and the generation check let through.
Admitted(i) == ~HeldByGcd(i) /\ Authorised(i)

\* No executor for the type.
NoExecutor ==
    /\ queue # <<>>
    /\ Admitted(Head(queue))
    /\ Head(queue).action \notin Executable
    /\ Settle("rejected")
    /\ UNCHANGED gcdReady

\* The executor refuses or throws: no effect.
ExecutorFails ==
    /\ queue # <<>>
    /\ Admitted(Head(queue))
    /\ Head(queue).action \in Executable
    /\ Settle("failed")
    /\ UNCHANGED gcdReady

\* Mutant: the cooldown starts when the commit is over.
ExecuteWithoutCooldown ==
    /\ queue # <<>>
    /\ Admitted(Head(queue))
    /\ Head(queue).action \in Executable
    /\ Settle("committed")
    /\ UNCHANGED gcdReady

\* The effect happens; a cast that uses the cooldown starts it at once, so the gcd
\* gate of the next intent already sees it.
Execute ==
    /\ queue # <<>>
    /\ Admitted(Head(queue))
    /\ Head(queue).action \in Executable
    /\ Settle("committed")
    /\ gcdReady' = (gcdReady /\ Head(queue).action \notin OnGcd)

CloseCommit ==
    /\ committing
    /\ queue = <<>>
    /\ committing' = FALSE
    /\ UNCHANGED <<pending, queue, entered, report, gcdReady>>

\* The cooldown runs out between commits.
GcdElapses ==
    /\ ~committing
    /\ ~gcdReady
    /\ gcdReady' = TRUE
    /\ UNCHANGED <<pending, queue, entered, report, committing>>

-----------------------------------------------------------------------------
(* The queue with leases that come and go around it. *)

LeasesChange ==
    /\ ~committing
    /\ authorised' \in SUBSET {<<s[1], s[3]>> : s \in Stamps}
    /\ UNCHANGED queueVars

QueueStep ==
    \/ \E a \in Actions, s \in Stamps : Submit(a, s)
    \/ OpenCommit
    \/ GateRefuses
    \/ GenerationRefuses
    \/ NoExecutor
    \/ ExecutorFails
    \/ Execute
    \/ CloseCommit
    \/ GcdElapses

Init == QueueInit /\ authorised = {<<s[1], s[3]>> : s \in Stamps}
Next == (QueueStep /\ UNCHANGED authorised) \/ LeasesChange
Spec == Init /\ [][Next]_<<queueVars, authorised>>

-----------------------------------------------------------------------------
(* Properties *)

InBucket(b) == ToSet(report[b])
Filed == report["committed"] \o report["deduped"] \o report["rejected"]
           \o report["stale"] \o report["failed"]

\* Nothing is dropped quietly and nothing is counted twice: while a commit runs, each
\* intent it drained is still queued or lies in exactly one bucket, once.
EveryIntentLeavesOnce ==
    committing =>
      /\ entered = ToSet(queue) \cup UNION {InBucket(b) : b \in Buckets}
      /\ Cardinality(entered) = Len(queue) + Len(Filed)

\* One global cooldown buys one cast: however many casts meet in a commit, at most one
\* that uses the cooldown takes effect, and none if it was running.
OneCastPerCooldown ==
    Cardinality({i \in InBucket("committed") : i.action \in OnGcd}) <= 1

\* The same action asked for twice in a tick takes effect at most once, and then for the
\* claim of the highest band among those that asked.
MostAuthorityWins ==
    \A i \in InBucket("committed") : \A j \in entered :
        j.action = i.action /\ j # i => j \in InBucket("deduped") /\ j.band <= i.band

=============================================================================
