------------------------- MODULE IntentQueueProofs -------------------------
(***************************************************************************)
(* What a commit guarantees for any actions, owners and bands and any number *)
(* of submissions.                                                          *)
(*                                                                          *)
(* The inductive invariant says how the intents of a commit are divided:    *)
(* those beaten by an equal action are set aside at once (Sorted), the others *)
(* are queued or filed, each in one place (Accounted), and a cast on the    *)
(* cooldown that took effect has started it (Cooling).                      *)
(***************************************************************************)
EXTENDS IntentQueue, FiniteSetTheorems, SequenceTheorems, TLAPS

Intent == [action : Actions, owner : {s[1] : s \in Stamps}, band : 0 .. 99,
           generation : {s[3] : s \in Stamps}, sequence : Nat]

QueueTypes ==
    /\ pending \in Seq(Intent)
    /\ queue \in Seq(Intent)
    /\ entered \in SUBSET Intent /\ IsFiniteSet(entered)
    /\ report \in [Buckets -> Seq(Intent)]
    /\ committing \in BOOLEAN
    /\ gcdReady \in BOOLEAN

Accounted ==
    /\ entered = ToSet(queue) \cup UNION {InBucket(b) : b \in Buckets}
    /\ Cardinality(entered) = Len(queue) + Len(Filed)

Sorted ==
    /\ InBucket("deduped") = entered \ Winners(entered)
    /\ ToSet(queue) \subseteq Winners(entered)
    /\ \A b \in Buckets \ {"deduped"} : InBucket(b) \subseteq Winners(entered)

Casts == {i \in InBucket("committed") : i.action \in OnGcd}

Cooling ==
    /\ \A i, j \in Casts : i = j
    /\ committing /\ Casts # {} => ~gcdReady

QueueInv == QueueTypes /\ Accounted /\ Sorted /\ Cooling

-----------------------------------------------------------------------------

\* The order of commit is total on the intents of one drain, so a sorted list of a set has
\* every member of the set, once.
LEMMA OrderedLists ==
    ASSUME NEW S \in SUBSET Intent, IsFiniteSet(S), NEW q \in InOrder(S)
    PROVE  q \in Seq(Intent) /\ ToSet(q) = S /\ Len(q) = Cardinality(S)
<1> DEFINE n == Cardinality(S)
<1>1. n \in Nat
  BY FS_CardinalityType
<1>2. q \in [1 .. n -> S] /\ \A i, j \in 1 .. n : i < j => Beats(q[i], q[j])
  BY DEF InOrder
<1> HIDE DEF n
<1>3. q \in Seq(S) /\ Len(q) = n /\ DOMAIN q = 1 .. n
  BY <1>1, <1>2
<1>4. q \in Seq(Intent)
  BY <1>1, <1>2
<1>5. \A i, j \in 1 .. n : q[i] = q[j] => i = j
  <2> SUFFICES ASSUME NEW i \in 1 .. n, NEW j \in 1 .. n, i < j PROVE q[i] # q[j]
    BY <1>1
  <2>1. q[i] \in Intent /\ Beats(q[i], q[j])
    BY <1>2
  <2> QED
    BY <2>1 DEF Beats, Intent
<1>6. IsFiniteSet(1 .. n) /\ Cardinality(1 .. n) = n
  BY <1>1, FS_Interval
<1>7. q \in Injection(1 .. n, S)
  BY <1>2, <1>5 DEF Injection, IsInjective
<1>8. q \in Surjection(1 .. n, S)
  BY <1>6, <1>7, FS_Injection DEF n
<1>9. ToSet(q) = S
  BY <1>2, <1>3, <1>8 DEF Surjection, ToSet
<1> QED
  BY <1>3, <1>4, <1>9 DEF n

\* Filing an intent, and taking one off the queue.
LEMMA AppendSet ==
    ASSUME NEW s \in Seq(Intent), NEW e \in Intent
    PROVE  ToSet(Append(s, e)) = ToSet(s) \cup {e}
<1> DEFINE t == Append(s, e)
<1>1. /\ DOMAIN t = 1 .. (Len(s) + 1) /\ DOMAIN s = 1 .. Len(s) /\ Len(s) \in Nat
      /\ \A i \in 1 .. Len(s) : t[i] = s[i]
      /\ t[Len(s) + 1] = e
  OBVIOUS
<1> HIDE DEF t
<1>2. {t[i] : i \in DOMAIN t} = {s[i] : i \in DOMAIN s} \cup {e}
  <2>1. \A i \in DOMAIN t : i \in DOMAIN s \/ i = Len(s) + 1
    BY <1>1
  <2>2. \A i \in DOMAIN s : i \in DOMAIN t
    BY <1>1
  <2>3. Len(s) + 1 \in DOMAIN t
    BY <1>1
  <2> QED
    BY <1>1, <2>1, <2>2, <2>3
<1> QED
  BY <1>2 DEF ToSet, t

(* The members of a sequence are its head and those of its tail. *)
LEMMA TailSet ==
    ASSUME NEW s \in Seq(Intent), s # <<>>
    PROVE  ToSet(s) = ToSet(Tail(s)) \cup {Head(s)}
<1> DEFINE t == Tail(s)
<1>1. /\ DOMAIN t = 1 .. (Len(s) - 1) /\ DOMAIN s = 1 .. Len(s) /\ Len(s) \in Nat \ {0}
      /\ \A i \in 1 .. (Len(s) - 1) : t[i] = s[i + 1]
      /\ Head(s) = s[1]
  OBVIOUS
<1> HIDE DEF t
<1>2. \A i \in DOMAIN s : i = 1 \/ (i - 1 \in DOMAIN t /\ t[i - 1] = s[i])
  BY <1>1
<1>3. \A i \in DOMAIN t : i + 1 \in DOMAIN s /\ t[i] = s[i + 1]
  BY <1>1
<1>4. {s[i] : i \in DOMAIN s} \subseteq {t[i] : i \in DOMAIN t} \cup {Head(s)}
  BY <1>1, <1>2
<1>5. {t[i] : i \in DOMAIN t} \cup {Head(s)} \subseteq {s[i] : i \in DOMAIN s}
  BY <1>1, <1>3
<1> QED
  BY <1>4, <1>5 DEF ToSet, t

\* What was submitted since the last commit is a finite set.
LEMMA PendingIsFinite == ASSUME QueueTypes PROVE ToSet(pending) \in SUBSET Intent /\ IsFiniteSet(ToSet(pending))
<1>1. DOMAIN pending = 1 .. Len(pending) /\ Len(pending) \in Nat /\ \A i \in DOMAIN pending : pending[i] \in Intent
  BY DEF QueueTypes
<1>2. IsFiniteSet(1 .. Len(pending))
  BY <1>1, FS_Interval
<1>3. pending \in Surjection(1 .. Len(pending), ToSet(pending))
  <2>1. pending \in [1 .. Len(pending) -> ToSet(pending)]
    BY <1>1 DEF QueueTypes, ToSet
  <2> QED
    BY <1>1, <2>1 DEF Surjection, ToSet
<1>4. IsFiniteSet(ToSet(pending))
  BY <1>2, <1>3, FS_Surjection
<1> QED
  BY <1>1, <1>4 DEF ToSet

\* How many intents a report holds.
LEMMA FiledLength ==
    ASSUME NEW rep \in [Buckets -> Seq(Intent)]
    PROVE  Len(rep["committed"] \o rep["deduped"] \o rep["rejected"] \o rep["stale"] \o rep["failed"])
             = Len(rep["committed"]) + Len(rep["deduped"]) + Len(rep["rejected"])
                 + Len(rep["stale"]) + Len(rep["failed"])
<1>1. /\ rep["committed"] \in Seq(Intent) /\ rep["deduped"] \in Seq(Intent)
      /\ rep["rejected"] \in Seq(Intent) /\ rep["stale"] \in Seq(Intent)
      /\ rep["failed"] \in Seq(Intent)
  BY DEF Buckets
<1> QED
  BY <1>1

-----------------------------------------------------------------------------

(* QueueInv holds initially. *)
LEMMA QueueInitInv == QueueInit => QueueInv
<1> SUFFICES ASSUME QueueInit PROVE QueueInv
  OBVIOUS
<1> USE DEF QueueInit, EmptyReport
<1>1. QueueTypes
  <2>1. <<>> \in Seq(Intent)
    OBVIOUS
  <2>2. report \in [Buckets -> Seq(Intent)]
    BY <2>1
  <2>3. IsFiniteSet(entered)
    BY FS_EmptySet
  <2> QED
    BY <2>1, <2>2, <2>3 DEF QueueTypes
<1>2. \A b \in Buckets : InBucket(b) = {}
  BY DEF InBucket, ToSet
<1>3. ToSet(queue) = {}
  BY DEF ToSet
<1>4. Len(Filed) = 0
  <2>1. /\ report \in [Buckets -> Seq(Intent)]
        /\ report["committed"] = <<>> /\ report["deduped"] = <<>> /\ report["rejected"] = <<>>
        /\ report["stale"] = <<>> /\ report["failed"] = <<>>
    BY <1>1 DEF QueueTypes, Buckets
  <2>2. Len(report["committed"]) = 0 /\ Len(report["deduped"]) = 0 /\ Len(report["rejected"]) = 0
        /\ Len(report["stale"]) = 0 /\ Len(report["failed"]) = 0
    BY <2>1
  <2> HIDE DEF QueueInit, EmptyReport
  <2>3. Len(Filed) = Len(report["committed"]) + Len(report["deduped"]) + Len(report["rejected"])
                       + Len(report["stale"]) + Len(report["failed"])
    BY <2>1, FiledLength DEF Filed
  <2> QED
    BY <2>2, <2>3
<1>5. Accounted
  BY <1>2, <1>3, <1>4, FS_EmptySet DEF Accounted
<1>6. Sorted
  BY <1>2, <1>3 DEF Sorted, Buckets, Winners
<1>7. Cooling
  BY <1>2 DEF Cooling, Casts, Buckets
<1> QED
  BY <1>1, <1>5, <1>6, <1>7 DEF QueueInv

\* An intent joins the queue with its caretaker's stamp and nothing else changes.
LEMMA SubmitInv == ASSUME QueueInv, NEW a \in Actions, NEW s \in Stamps, Submit(a, s) PROVE QueueInv'
<1> DEFINE i == [action |-> a, owner |-> s[1], band |-> s[2], generation |-> s[3], sequence |-> NextSequence]
<1>1. NextSequence \in Nat
  BY FS_CardinalityType DEF NextSequence, QueueInv, QueueTypes
<1>2. i \in Intent
  BY <1>1 DEF Submit, Intent
<1>3. pending' = Append(pending, i) /\ UNCHANGED <<queue, entered, report, committing, gcdReady>>
  BY DEF Submit
<1> HIDE DEF i
<1>4. QueueTypes'
  BY <1>2, <1>3 DEF QueueInv, QueueTypes
<1> QED
  BY <1>3, <1>4 DEF QueueInv, Accounted, Sorted, Cooling, Casts, InBucket, Filed

\* A drain: the beaten are set aside, the others queue up, each once.
LEMMA OpenCommitInv == ASSUME QueueInv, OpenCommit PROVE QueueInv'
<1> DEFINE drained == ToSet(pending)
           winners == Winners(drained)
           beaten == drained \ winners
<1>1. /\ entered' = drained /\ queue' \in InOrder(winners)
      /\ pending' = <<>> /\ committing' = TRUE /\ UNCHANGED gcdReady
  BY DEF OpenCommit
<1>2. PICK duplicates \in InOrder(beaten) : report' = [EmptyReport EXCEPT !["deduped"] = duplicates]
  BY DEF OpenCommit
<1>3. drained \in SUBSET Intent /\ IsFiniteSet(drained)
  BY PendingIsFinite DEF QueueInv
<1>4. winners \in SUBSET drained
  BY DEF Winners
<1>5. beaten \in SUBSET drained
  OBVIOUS
<1>6. IsFiniteSet(winners) /\ IsFiniteSet(beaten)
  BY <1>3, <1>4, <1>5, FS_Subset
<1> HIDE DEF winners, drained
<1>7. queue' \in Seq(Intent) /\ ToSet(queue') = winners /\ Len(queue') = Cardinality(winners)
  BY <1>1, <1>3, <1>4, <1>6, OrderedLists
<1>8. duplicates \in Seq(Intent) /\ ToSet(duplicates) = beaten /\ Len(duplicates) = Cardinality(beaten)
  BY <1>2, <1>3, <1>5, <1>6, OrderedLists
<1>9. /\ report' \in [Buckets -> Seq(Intent)]
      /\ report'["deduped"] = duplicates
      /\ \A b \in Buckets \ {"deduped"} : report'[b] = <<>>
  <2>1. <<>> \in Seq(Intent) /\ "deduped" \in Buckets
    BY DEF Buckets
  <2>2. EmptyReport \in [Buckets -> Seq(Intent)] /\ \A b \in Buckets : EmptyReport[b] = <<>>
    BY <2>1 DEF EmptyReport
  <2> HIDE DEF beaten
  <2>3. duplicates \in Seq(Intent)
    BY <1>8
  <2> QED
    BY <1>2, <2>1, <2>2, <2>3
<1>10. QueueTypes'
  BY <1>1, <1>3, <1>7, <1>9 DEF QueueInv, QueueTypes
<1>11. InBucket("deduped")' = beaten /\ \A b \in Buckets \ {"deduped"} : InBucket(b)' = {}
  BY <1>8, <1>9 DEF InBucket, ToSet
<1>12. Cardinality(drained) = Cardinality(winners) + Cardinality(beaten)
  <2>1. winners \cup beaten = drained /\ winners \cap beaten = {}
    BY <1>4
  <2> HIDE DEF beaten
  <2>2. Cardinality(winners) \in Nat /\ Cardinality(beaten) \in Nat
    BY <1>6, FS_CardinalityType
  <2>3. Cardinality({}) = 0
    BY FS_EmptySet
  <2>4. Cardinality(winners \cup beaten) = Cardinality(winners) + Cardinality(beaten) - Cardinality(winners \cap beaten)
    BY <1>6, FS_Union
  <2>5. Cardinality(winners \cap beaten) = 0 /\ Cardinality(winners \cup beaten) = Cardinality(drained)
    BY <2>1, <2>3, Zenon
  <2> QED
    BY <2>2, <2>4, <2>5
<1>13. Len(Filed)' = Len(duplicates)
  <2>1. Len(Filed)' = Len(report'["committed"]) + Len(report'["deduped"]) + Len(report'["rejected"])
                      + Len(report'["stale"]) + Len(report'["failed"])
    BY <1>9, FiledLength DEF Filed
  <2>2. /\ Len(report'["committed"]) = 0 /\ Len(report'["rejected"]) = 0
        /\ Len(report'["stale"]) = 0 /\ Len(report'["failed"]) = 0
        /\ report'["deduped"] = duplicates
    BY <1>9 DEF Buckets
  <2> HIDE DEF beaten
  <2>3. Len(duplicates) \in Nat
    BY <1>8
  <2> QED
    BY <2>1, <2>2, <2>3
<1>14. Accounted'
  <2>1. "deduped" \in Buckets
    BY DEF Buckets
  <2>2. entered' = ToSet(queue') \cup UNION {InBucket(b)' : b \in Buckets}
    BY <1>1, <1>4, <1>7, <1>11, <2>1
  <2> QED
    BY <1>1, <1>7, <1>8, <1>12, <1>13, <2>2 DEF Accounted
<1>15. Sorted'
  BY <1>1, <1>7, <1>11 DEF Sorted, winners
<1>16. Cooling'
  BY <1>11 DEF Cooling, Casts, Buckets
<1> QED
  BY <1>10, <1>14, <1>15, <1>16 DEF QueueInv

\* The head of the queue ends in one bucket of the winners.
LEMMA SettleInv ==
    ASSUME QueueInv, NEW b \in Buckets \ {"deduped"}, Settle(b), gcdReady' \in BOOLEAN
    PROVE  /\ QueueTypes' /\ Accounted' /\ Sorted'
           /\ \A c \in Buckets \ {b} : InBucket(c)' = InBucket(c)
           /\ InBucket(b)' = InBucket(b) \cup {Head(queue)}
<1> DEFINE e == Head(queue)
<1>1. /\ committing /\ queue # <<>>
      /\ report' = [report EXCEPT ![b] = Append(report[b], e)]
      /\ queue' = Tail(queue)
      /\ UNCHANGED <<pending, entered, committing>>
  BY DEF Settle
<1>2. QueueTypes /\ Accounted /\ Sorted
  BY DEF QueueInv
<1>3. queue \in Seq(Intent) /\ report \in [Buckets -> Seq(Intent)] /\ b \in Buckets
  BY <1>2 DEF QueueTypes
<1>4. e \in Intent /\ Tail(queue) \in Seq(Intent) /\ Len(queue) = Len(Tail(queue)) + 1
  BY <1>1, <1>3
<1>5. ToSet(queue) = ToSet(queue') \cup {e}
  BY <1>1, <1>3, TailSet
<1> HIDE DEF e
<1>6. /\ report' \in [Buckets -> Seq(Intent)]
      /\ report'[b] = Append(report[b], e)
      /\ \A c \in Buckets \ {b} : report'[c] = report[c]
  BY <1>1, <1>3, <1>4
<1>7. QueueTypes'
  BY <1>1, <1>2, <1>4, <1>6 DEF QueueTypes
<1>8. InBucket(b)' = InBucket(b) \cup {e}
  <2>1. ToSet(Append(report[b], e)) = ToSet(report[b]) \cup {e}
    BY <1>3, <1>4, AppendSet
  <2> QED
    BY <1>6, <2>1 DEF InBucket
<1>9. \A c \in Buckets \ {b} : InBucket(c)' = InBucket(c)
  BY <1>6 DEF InBucket
<1>10. Sorted'
  <2>1. "deduped" \in Buckets \ {b}
    BY DEF Buckets
  <2>2. ToSet(queue') \subseteq Winners(entered)' /\ e \in Winners(entered)
    BY <1>1, <1>2, <1>5 DEF Sorted, Winners
  <2>3. Winners(entered)' = Winners(entered)
    BY <1>1 DEF Winners
  <2> QED
    BY <1>1, <1>2, <1>3, <1>8, <1>9, <2>1, <2>2, <2>3 DEF Sorted
<1>11. Accounted'
  <2>1. entered' = ToSet(queue') \cup UNION {InBucket(c)' : c \in Buckets}
    BY <1>1, <1>2, <1>3, <1>5, <1>8, <1>9 DEF Accounted
  <2>2. Len(Filed)' = Len(report'["committed"]) + Len(report'["deduped"]) + Len(report'["rejected"])
                        + Len(report'["stale"]) + Len(report'["failed"])
    BY <1>6, FiledLength DEF Filed
  <2>3. Len(Filed) = Len(report["committed"]) + Len(report["deduped"]) + Len(report["rejected"])
                       + Len(report["stale"]) + Len(report["failed"])
    BY <1>3, FiledLength DEF Filed
  <2>4. \A c \in Buckets : Len(report[c]) \in Nat
    BY <1>3
  <2>5. Len(report'[b]) = Len(report[b]) + 1 /\ \A c \in Buckets \ {b} : Len(report'[c]) = Len(report[c])
    BY <1>3, <1>4, <1>6
  <2>6. b \in {"committed", "rejected", "stale", "failed"}
    BY DEF Buckets
  <2>7. Len(Filed)' = Len(Filed) + 1 /\ Len(Filed) \in Nat
    <3> DEFINE before(c) == Len(report[c])
               after(c) == Len(report'[c])
               sum == Len(Filed)
               sum1 == Len(Filed)'
    <3>1. /\ sum = before("committed") + before("deduped") + before("rejected") + before("stale") + before("failed")
          /\ sum1 = after("committed") + after("deduped") + after("rejected") + after("stale") + after("failed")
      BY <2>2, <2>3
    <3>2. /\ \A c \in Buckets : before(c) \in Nat
          /\ after(b) = before(b) + 1 /\ \A c \in Buckets \ {b} : after(c) = before(c)
      BY <2>4, <2>5
    <3> SUFFICES sum1 = sum + 1 /\ sum \in Nat
      OBVIOUS
    <3> HIDE DEF before, after, sum, sum1
    <3>3. /\ before("committed") \in Nat /\ before("deduped") \in Nat /\ before("rejected") \in Nat
          /\ before("stale") \in Nat /\ before("failed") \in Nat
      BY <3>2 DEF Buckets
    <3> QED
      BY <2>6, <3>1, <3>2, <3>3 DEF Buckets
  <2>8. Len(queue') \in Nat /\ Len(queue) = Len(queue') + 1
    BY <1>1, <1>4
  <2>9. Cardinality(entered) = Len(queue) + Len(Filed)
    BY <1>2 DEF Accounted
  <2>10. Cardinality(entered)' = Len(queue') + Len(Filed)'
    BY <1>1, <2>7, <2>8, <2>9
  <2> QED
    BY <2>1, <2>10 DEF Accounted
<1> QED
  BY <1>7, <1>8, <1>9, <1>10, <1>11 DEF e

\* An intent that takes no effect leaves the cooldown as it was.
LEMMA RefusedInv ==
    ASSUME QueueInv, NEW b \in {"rejected", "stale", "failed"}, Settle(b), UNCHANGED gcdReady
    PROVE  QueueInv'
<1>1. b \in Buckets \ {"deduped"} /\ "committed" \in Buckets \ {b}
  BY DEF Buckets
<1>2. gcdReady' \in BOOLEAN
  BY DEF QueueInv, QueueTypes
<1>3. QueueTypes' /\ Accounted' /\ Sorted' /\ InBucket("committed")' = InBucket("committed")
  BY <1>1, <1>2, SettleInv
<1>4. committing' = committing
  BY DEF Settle
<1>5. Cooling'
  BY <1>3, <1>4 DEF QueueInv, Cooling, Casts
<1> QED
  BY <1>3, <1>5 DEF QueueInv

\* A cast on the cooldown passes the gate only while no cast of this commit has started it.
LEMMA ExecuteInv == ASSUME QueueInv, Execute PROVE QueueInv'
<1> DEFINE e == Head(queue)
<1>1. /\ Settle("committed") /\ gcdReady' = (gcdReady /\ e.action \notin OnGcd)
      /\ (e.action \in OnGcd => gcdReady)
  BY DEF Execute, Admitted, HeldByGcd
<1>2. "committed" \in Buckets \ {"deduped"}
  BY DEF Buckets
<1>3. gcdReady' \in BOOLEAN
  BY <1>1
<1>4. /\ QueueTypes' /\ Accounted' /\ Sorted'
      /\ InBucket("committed")' = InBucket("committed") \cup {e}
  BY <1>1, <1>2, <1>3, SettleInv
<1>5. committing /\ committing'
  BY <1>1 DEF Settle
<1> HIDE DEF e
<1>6. CASE e.action \in OnGcd
  <2>1. Casts = {}
    BY <1>1, <1>5, <1>6 DEF QueueInv, Cooling
  <2>2. Casts' = {e}
    BY <1>4, <1>6, <2>1 DEF Casts
  <2>3. ~gcdReady'
    BY <1>1, <1>6
  <2> QED
    BY <1>4, <2>2, <2>3 DEF QueueInv, Cooling
<1>7. CASE e.action \notin OnGcd
  <2>1. Casts' = Casts
    BY <1>4, <1>7 DEF Casts
  <2>2. gcdReady' = gcdReady
    BY <1>1, <1>7 DEF QueueInv, QueueTypes
  <2> QED
    BY <1>4, <1>5, <2>1, <2>2 DEF QueueInv, Cooling
<1> QED
  BY <1>6, <1>7

\* The divisions of a commit speak of its intents, its queue and its report only.
LEMMA ListsAlone ==
    ASSUME UNCHANGED <<entered, queue, report>>
    PROVE  (Accounted' <=> Accounted) /\ (Sorted' <=> Sorted) /\ Casts' = Casts
BY DEF Accounted, Sorted, Casts, InBucket, Filed

(* Every step of the queue preserves QueueInv. *)
LEMMA QueueStepInv == ASSUME QueueInv, QueueStep PROVE QueueInv'
<1>1. CASE \E a \in Actions, s \in Stamps : Submit(a, s)
  BY <1>1, SubmitInv
<1>2. CASE OpenCommit
  BY <1>2, OpenCommitInv
<1>3. CASE GateRefuses
  BY <1>3, RefusedInv DEF GateRefuses
<1>4. CASE GenerationRefuses
  BY <1>4, RefusedInv DEF GenerationRefuses
<1>5. CASE NoExecutor
  BY <1>5, RefusedInv DEF NoExecutor
<1>6. CASE ExecutorFails
  BY <1>6, RefusedInv DEF ExecutorFails
<1>7. CASE Execute
  BY <1>7, ExecuteInv
<1>8. CASE CloseCommit
  BY <1>8, ListsAlone DEF CloseCommit, QueueInv, QueueTypes, Cooling
<1>9. CASE GcdElapses
  BY <1>9, ListsAlone DEF GcdElapses, QueueInv, QueueTypes, Cooling
<1> QED
  BY <1>1, <1>2, <1>3, <1>4, <1>5, <1>6, <1>7, <1>8, <1>9 DEF QueueStep

-----------------------------------------------------------------------------

\* The inductive invariant holds whatever happens to the leases between commits.
THEOREM QueueInvariant == Spec => []QueueInv
<1>1. Init => QueueInv
  BY QueueInitInv DEF Init
<1>2. QueueInv /\ [Next]_<<queueVars, authorised>> => QueueInv'
  <2> SUFFICES ASSUME QueueInv, [Next]_<<queueVars, authorised>> PROVE QueueInv'
    OBVIOUS
  <2>1. CASE QueueStep
    BY <2>1, QueueStepInv
  <2>2. CASE UNCHANGED queueVars
    BY <2>2 DEF queueVars, QueueInv, QueueTypes, Accounted, Sorted, Cooling, Casts, InBucket, Filed
  <2> QED
    BY <2>1, <2>2 DEF Next, LeasesChange
<1> QED
  BY <1>1, <1>2, PTL DEF Spec

\* `commit` drops no intent quietly and counts none twice: every intent it drained is still
\* queued or lies in one bucket, once.
THEOREM IntentsLeaveOnce == Spec => []EveryIntentLeavesOnce
<1>1. QueueInv => EveryIntentLeavesOnce
  BY DEF QueueInv, Accounted, EveryIntentLeavesOnce
<1> QED
  BY <1>1, QueueInvariant, PTL

\* However many casts meet in a commit, the gcd gate lets one of them through.
THEOREM OneCast == Spec => []OneCastPerCooldown
<1>1. QueueInv => OneCastPerCooldown
  <2> SUFFICES ASSUME QueueInv PROVE Cardinality(Casts) <= 1
    BY DEF OneCastPerCooldown, Casts
  <2>1. \A i, j \in Casts : i = j
    BY DEF QueueInv, Cooling
  <2>2. CASE Casts = {}
    BY <2>2, FS_EmptySet
  <2>3. CASE Casts # {}
    <3>1. PICK i \in Casts : Casts = {i}
      BY <2>1, <2>3
    <3>2. Cardinality({i}) = 1
      BY FS_Singleton
    <3> QED
      BY <3>1, <3>2
  <2> QED
    BY <2>2, <2>3
<1> QED
  BY <1>1, QueueInvariant, PTL

\* Of equal intents of one drain the one that takes effect has the highest band, and the
\* others are reported as duplicates.
THEOREM AuthorityWins == Spec => []MostAuthorityWins
<1>1. QueueInv => MostAuthorityWins
  <2> SUFFICES ASSUME QueueInv, NEW i \in InBucket("committed"), NEW j \in entered, j.action = i.action, j # i
               PROVE  j \in InBucket("deduped") /\ j.band <= i.band
    BY DEF MostAuthorityWins
  <2>1. entered \subseteq Intent
    BY DEF QueueInv, QueueTypes
  <2>2. i \in Winners(entered)
    BY DEF QueueInv, Sorted, Buckets
  <2>3. i \in entered /\ Beats(i, j)
    BY <2>2 DEF Winners
  <2>4. i.band \in Nat /\ j.band \in Nat /\ i.sequence \in Nat /\ j.sequence \in Nat
    BY <2>1, <2>3 DEF Intent
  <2>5. ~Beats(j, i) /\ j.band <= i.band
    BY <2>3, <2>4 DEF Beats
  <2>6. j \notin Winners(entered)
    BY <2>3, <2>5 DEF Winners
  <2> QED
    BY <2>5, <2>6 DEF QueueInv, Sorted
<1> QED
  BY <1>1, QueueInvariant, PTL

=============================================================================
