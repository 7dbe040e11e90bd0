------------------------- MODULE HookExecutorProofs -------------------------
(***************************************************************************)
(* Theorems about HookExecutor, for every number of submissions, every     *)
(* bound of the queues and every choice of priorities and keys.            *)
(***************************************************************************)
EXTENDS HookExecutor, FiniteSetTheorems, SequenceTheorems, TLAPS

Distinct(q) == \A a, b \in DOMAIN q : q[a] = q[b] => a = b

(* A hook is in one place: in one of the two queues, once, or in the table *)
(* of children, or refused, or none of these.                              *)
Partition ==
  /\ Distinct(criticalJobs)
  /\ Distinct(normalJobs)
  /\ ToSet(criticalJobs) \intersect ToSet(normalJobs) = {}
  /\ Pending \union Children \union unanswered \subseteq 1..Len(kind)
  /\ Pending \intersect Children = {}
  /\ unanswered \intersect (Pending \union Children) = {}

(* TypeOK by groups of variables.                                          *)
QueueTypes ==
  /\ kind \in Seq(Kinds) /\ Len(kind) <= MaxJobs
  /\ criticalJobs \in Seq(Jobs)
  /\ normalJobs \in Seq(Jobs)
  /\ PendingCount <= MaxPending

TableTypes ==
  /\ child \in [Jobs -> Stages \union {"none"}]
  /\ Cardinality(Children) <= MaxConcurrent
  /\ late \subseteq Children

ResultTypes ==
  /\ owed \in [Jobs -> Nat]
  /\ calls \in [Jobs -> Nat]
  /\ unanswered \subseteq Jobs
  /\ counters \in [completed : Nat, dropped : Nat, coalesced : Nat]

FlagTypes ==
  /\ stopping \in BOOLEAN
  /\ failed \in BOOLEAN
  /\ socketOpen \in BOOLEAN
  /\ pc \in WorkerSteps

SupervisorTypes ==
  /\ supervisor \in SupervisorStates
  /\ kids \subseteq Jobs
  /\ outbox \subseteq Responses
  /\ requests \in Seq(Jobs \union {Stop})
  /\ responses \in Seq(Responses)
  /\ proc \in [Jobs -> ProcStates]
  /\ crashes \in 0..MaxCrashes

(* The inductive invariant.                                                *)
IInv == TypeOK /\ Partition /\ AnsweredOnce /\ Conservation
-----------------------------------------------------------------------------
(* Lemmas about the queue operators                                        *)

(* What std::deque::erase of one position leaves.                          *)
LEMMA RemoveAtIndex ==
  ASSUME NEW S, NEW q \in Seq(S), NEW i \in 1..Len(q)
  PROVE  /\ RemoveAt(q, i) \in Seq(S)
         /\ Len(RemoveAt(q, i)) = Len(q) - 1
         /\ \A k \in 1..(Len(q) - 1) :
              RemoveAt(q, i)[k] = IF k < i THEN q[k] ELSE q[k + 1]
<1> DEFINE u == SubSeq(q, 1, i - 1)
           v == SubSeq(q, i + 1, Len(q))
<1>1. /\ Len(q) \in Nat
      /\ i \in Int /\ i >= 1 /\ i <= Len(q)
  BY LenProperties
<1>2. \A k \in 1..Len(q) : q[k] \in S
  BY ElementOfSeq
<1>3. /\ u \in Seq(S)
      /\ Len(u) = i - 1
      /\ \A k \in 1..(i - 1) : u[k] = q[k]
  <2>1. /\ SubSeq(q, 1, i - 1) \in Seq(S)
        /\ Len(SubSeq(q, 1, i - 1)) = IF 1 <= i - 1 THEN i - 1 - 1 + 1 ELSE 0
        /\ \A k \in 1..(i - 1 - 1 + 1) : SubSeq(q, 1, i - 1)[k] = q[1 + k - 1]
    <3>1. 1 \in Int /\ i - 1 \in Int /\ \A k \in 1..(i - 1) : q[k] \in S
      BY <1>1, <1>2
    <3> QED
      BY <3>1, SubSeqProperties
  <2> QED
    BY <1>1, <2>1
<1>4. /\ v \in Seq(S)
      /\ Len(v) = Len(q) - i
      /\ \A k \in 1..(Len(q) - i) : v[k] = q[k + i]
  <2>1. /\ SubSeq(q, i + 1, Len(q)) \in Seq(S)
        /\ Len(SubSeq(q, i + 1, Len(q))) =
             IF i + 1 <= Len(q) THEN Len(q) - (i + 1) + 1 ELSE 0
        /\ \A k \in 1..(Len(q) - (i + 1) + 1) :
             SubSeq(q, i + 1, Len(q))[k] = q[i + 1 + k - 1]
    <3>1. i + 1 \in Int /\ Len(q) \in Int /\ \A k \in (i + 1)..Len(q) : q[k] \in S
      BY <1>1, <1>2
    <3> QED
      BY <3>1, SubSeqProperties
  <2> QED
    BY <1>1, <2>1
<1>5. /\ u \o v \in Seq(S)
      /\ Len(u \o v) = Len(u) + Len(v)
      /\ \A k \in 1..(Len(u) + Len(v)) :
           (u \o v)[k] = IF k <= Len(u) THEN u[k] ELSE v[k - Len(u)]
  BY <1>3, <1>4, ConcatProperties
<1>6. RemoveAt(q, i) = u \o v
  BY DEF RemoveAt
<1> HIDE DEF u, v
<1>7. Len(u \o v) = Len(q) - 1
  BY <1>1, <1>3, <1>4, <1>5
<1>8. ASSUME NEW k \in 1..(Len(q) - 1)
      PROVE  (u \o v)[k] = IF k < i THEN q[k] ELSE q[k + 1]
  <2>1. (u \o v)[k] = IF k <= i - 1 THEN u[k] ELSE v[k - (i - 1)]
    BY <1>1, <1>3, <1>4, <1>5
  <2>2. CASE k < i
    BY <1>1, <1>3, <2>1, <2>2
  <2>3. CASE ~(k < i)
    <3>1. k - (i - 1) \in 1..(Len(q) - i) /\ k - (i - 1) + i = k + 1
      BY <1>1, <2>3
    <3> QED
      BY <1>1, <1>4, <2>1, <2>3, <3>1
  <2> QED
    BY <2>2, <2>3
<1> QED
  BY <1>5, <1>6, <1>7, <1>8

(* Erasing a hook from a queue that holds it once removes that hook only.  *)
LEMMA RemoveAtElements ==
  ASSUME NEW S, NEW q \in Seq(S), NEW i \in 1..Len(q), Distinct(q)
  PROVE  /\ Distinct(RemoveAt(q, i))
         /\ ToSet(RemoveAt(q, i)) = ToSet(q) \ {q[i]}
<1> DEFINE r == RemoveAt(q, i)
<1>1. /\ r \in Seq(S)
      /\ Len(r) = Len(q) - 1
      /\ \A k \in 1..(Len(q) - 1) : r[k] = IF k < i THEN q[k] ELSE q[k + 1]
  BY RemoveAtIndex
<1> HIDE DEF r
<1>2. /\ Len(q) \in Nat
      /\ DOMAIN q = 1..Len(q)
      /\ DOMAIN r = 1..(Len(q) - 1)
  BY <1>1, LenProperties
<1>3. ASSUME NEW a \in 1..(Len(q) - 1), NEW b \in 1..(Len(q) - 1), r[a] = r[b]
      PROVE  a = b
  <2> DEFINE at(k) == IF k < i THEN k ELSE k + 1
  <2>1. at(a) \in 1..Len(q) /\ at(b) \in 1..Len(q)
    BY <1>2
  <2>2. q[at(a)] = q[at(b)]
    BY <1>1, <1>2, <1>3
  <2>3. at(a) = at(b)
    BY <1>2, <2>1, <2>2 DEF Distinct
  <2> QED
    BY <1>2, <2>3
<1>4. ToSet(r) \subseteq ToSet(q) \ {q[i]}
  BY <1>1, <1>2 DEF Distinct, ToSet
<1>5. ASSUME NEW x \in ToSet(q) \ {q[i]}
      PROVE  x \in ToSet(r)
  <2>1. PICK k \in 1..Len(q) : x = q[k] /\ k # i
    BY <1>2 DEF ToSet
  <2>2. CASE k < i
    <3>1. k \in 1..(Len(q) - 1) /\ r[k] = q[k]
      BY <1>1, <1>2, <2>1, <2>2
    <3> QED
      BY <1>2, <2>1, <3>1 DEF ToSet
  <2>3. CASE k > i
    <3>1. k - 1 \in 1..(Len(q) - 1) /\ r[k - 1] = q[k]
      BY <1>1, <1>2, <2>1, <2>3
    <3> QED
      BY <1>2, <2>1, <3>1 DEF ToSet
  <2> QED
    BY <2>1, <2>2, <2>3, <1>2
<1> QED
  BY <1>2, <1>3, <1>4, <1>5 DEF Distinct, r

(* A hook enters a queue at either end.                                    *)
LEMMA AppendElements ==
  ASSUME NEW S, NEW q \in Seq(S), NEW x \in S
  PROVE  /\ Append(q, x) \in Seq(S)
         /\ Len(Append(q, x)) = Len(q) + 1
         /\ ToSet(Append(q, x)) = ToSet(q) \union {x}
         /\ Distinct(q) /\ x \notin ToSet(q) => Distinct(Append(q, x))
<1> DEFINE r == Append(q, x)
<1>1. /\ r \in Seq(S)
      /\ Len(r) = Len(q) + 1
      /\ \A k \in 1..Len(q) : r[k] = q[k]
      /\ r[Len(q) + 1] = x
  BY AppendProperties
<1> HIDE DEF r
<1>2. /\ Len(q) \in Nat
      /\ DOMAIN q = 1..Len(q)
      /\ DOMAIN r = 1..(Len(q) + 1)
  BY <1>1, LenProperties
<1>3. ToSet(r) \subseteq ToSet(q) \union {x}
  BY <1>1, <1>2 DEF ToSet
<1>4. ToSet(q) \subseteq ToSet(r)
  BY <1>1, <1>2 DEF ToSet
<1>5. x \in ToSet(r)
  BY <1>1, <1>2 DEF ToSet
<1>6. Distinct(q) /\ x \notin ToSet(q) => Distinct(r)
  BY <1>1, <1>2 DEF ToSet, Distinct
<1> QED
  BY <1>1, <1>3, <1>4, <1>5, <1>6 DEF r

LEMMA PrependElements ==
  ASSUME NEW S, NEW q \in Seq(S), NEW x \in S
  PROVE  /\ <<x>> \o q \in Seq(S)
         /\ Len(<<x>> \o q) = Len(q) + 1
         /\ ToSet(<<x>> \o q) = ToSet(q) \union {x}
         /\ Distinct(q) /\ x \notin ToSet(q) => Distinct(<<x>> \o q)
<1> DEFINE r == <<x>> \o q
<1>1. <<x>> \in Seq(S) /\ Len(<<x>>) = 1 /\ <<x>>[1] = x
  OBVIOUS
<1>2. /\ r \in Seq(S)
      /\ Len(r) = Len(<<x>>) + Len(q)
      /\ \A k \in 1..(Len(<<x>>) + Len(q)) :
           r[k] = IF k <= Len(<<x>>) THEN <<x>>[k] ELSE q[k - Len(<<x>>)]
  BY <1>1, ConcatProperties
<1> HIDE DEF r
<1>3. /\ Len(q) \in Nat
      /\ DOMAIN q = 1..Len(q)
      /\ DOMAIN r = 1..(Len(q) + 1)
  BY <1>1, <1>2, LenProperties
<1>4. r[1] = x /\ \A k \in 1..Len(q) : r[k + 1] = q[k]
  BY <1>1, <1>2, <1>3
<1>5. \A k \in 1..(Len(q) + 1) : k # 1 => (k - 1 \in 1..Len(q) /\ r[k] = q[k - 1])
  <2> TAKE k \in 1..(Len(q) + 1)
  <2> HAVE k # 1
  <2>1. k - 1 \in 1..Len(q) /\ (k - 1) + 1 = k
    BY <1>3
  <2> QED
    BY <1>4, <2>1
<1>6. ToSet(r) \subseteq ToSet(q) \union {x}
  <2> SUFFICES ASSUME NEW k \in 1..(Len(q) + 1)
               PROVE  r[k] = x \/ \E h \in 1..Len(q) : r[k] = q[h]
    BY <1>3 DEF ToSet
  <2> QED
    BY <1>4, <1>5
<1>7. ToSet(q) \subseteq ToSet(r)
  BY <1>3, <1>4 DEF ToSet
<1>8. x \in ToSet(r)
  BY <1>3, <1>4 DEF ToSet
<1>9. Distinct(q) /\ x \notin ToSet(q) => Distinct(r)
  <2> SUFFICES ASSUME Distinct(q), x \notin ToSet(q),
                      NEW a \in 1..(Len(q) + 1), NEW b \in 1..(Len(q) + 1), r[a] = r[b]
               PROVE  a = b
    BY <1>3 DEF Distinct
  <2>1. \A k \in 1..(Len(q) + 1) : k # 1 => r[k] # x
    BY <1>3, <1>5 DEF ToSet
  <2>2. CASE a = 1 \/ b = 1
    BY <1>4, <2>1, <2>2
  <2>3. CASE a # 1 /\ b # 1
    <3>1. a - 1 \in 1..Len(q) /\ b - 1 \in 1..Len(q) /\ q[a - 1] = q[b - 1]
      BY <1>5, <2>3
    <3>2. a - 1 = b - 1
      BY <1>3, <3>1 DEF Distinct
    <3> QED
      BY <1>3, <3>2
  <2> QED
    BY <2>2, <2>3
<1> QED
  BY <1>1, <1>2, <1>3, <1>6, <1>7, <1>8, <1>9 DEF r

(* pop_next_job and its siblings find at most one position.                *)
LEMMA FirstUnique ==
  ASSUME NEW T, NEW q \in Seq(T), NEW S
  PROVE  /\ First(q, S) \subseteq 1..Len(q)
         /\ \A i \in First(q, S) : q[i] \in S /\ q[i] \in ToSet(q) /\ q[i] \in T
         /\ \A i, h \in First(q, S) : i = h
<1>1. Len(q) \in Nat /\ DOMAIN q = 1..Len(q) /\ \A i \in 1..Len(q) : q[i] \in T
  BY LenProperties, ElementOfSeq
<1>2. \A i, h \in First(q, S) : ~(i < h)
  BY <1>1 DEF First
<1> QED
  BY <1>1, <1>2 DEF First, ToSet

(* QueueWithout erases the one hook of {x}, if it is there.                *)
LEMMA QueueWithoutOne ==
  ASSUME NEW T, NEW q \in Seq(T), NEW x, Distinct(q)
  PROVE  /\ QueueWithout(q, {x}) \in Seq(T)
         /\ Distinct(QueueWithout(q, {x}))
         /\ ToSet(QueueWithout(q, {x})) = ToSet(q) \ {x}
         /\ Len(QueueWithout(q, {x})) = IF x \in ToSet(q) THEN Len(q) - 1 ELSE Len(q)
<1> DEFINE found == First(q, {x})
<1>1. Len(q) \in Nat /\ DOMAIN q = 1..Len(q)
  BY LenProperties
<1>2. \A i \in 1..Len(q) : q[i] = x => i \in found
  BY <1>1 DEF First, Distinct
<1>3. \A i \in found : i \in 1..Len(q) /\ q[i] = x
  BY FirstUnique
<1> HIDE DEF found
<1>4. CASE found = {}
  <2>1. x \notin ToSet(q)
    BY <1>1, <1>2, <1>4 DEF ToSet
  <2>2. QueueWithout(q, {x}) = q
    BY <1>4 DEF QueueWithout, found
  <2> QED
    BY <2>1, <2>2
<1>5. CASE found # {}
  <2>1. PICK i \in 1..Len(q) : i = (CHOOSE n \in found : TRUE) /\ q[i] = x
    BY <1>3, <1>5
  <2>2. QueueWithout(q, {x}) = RemoveAt(q, i)
    BY <1>5, <2>1 DEF QueueWithout, found
  <2>3. x \in ToSet(q)
    BY <1>1, <2>1 DEF ToSet
  <2>4. RemoveAt(q, i) \in Seq(T) /\ Len(RemoveAt(q, i)) = Len(q) - 1
    BY RemoveAtIndex
  <2>5. Distinct(RemoveAt(q, i)) /\ ToSet(RemoveAt(q, i)) = ToSet(q) \ {q[i]}
    BY RemoveAtElements
  <2> QED
    BY <2>1, <2>2, <2>3, <2>4, <2>5
<1> QED
  BY <1>4, <1>5

LEMMA QueueWithoutNone ==
  ASSUME NEW T, NEW q \in Seq(T)
  PROVE  QueueWithout(q, {}) = q
BY FirstUnique DEF QueueWithout
-----------------------------------------------------------------------------
(* Lemmas about the moves of a hook                                        *)

(* What pop_next_job takes, and leaves.                                    *)
LEMMA NextJobMoves ==
  ASSUME TypeOK, Partition, NEW next \in NextJob
  PROVE  /\ next.critical \in Seq(Jobs) /\ Distinct(next.critical)
         /\ next.normal \in Seq(Jobs) /\ Distinct(next.normal)
         /\ Len(next.critical) + Len(next.normal) = PendingCount - 1
         /\ ToSet(next.critical) \intersect ToSet(next.normal) = {}
         /\ ToSet(next.critical) \union ToSet(next.normal) = Pending \ {next.job}
         /\ next.job \in Pending
         /\ next.job \in Jobs
<1> DEFINE critical == First(criticalJobs, Runnable)
           normal == First(normalJobs, Runnable)
<1>0. /\ criticalJobs \in Seq(Jobs) /\ Distinct(criticalJobs)
      /\ normalJobs \in Seq(Jobs) /\ Distinct(normalJobs)
      /\ ToSet(criticalJobs) \intersect ToSet(normalJobs) = {}
  BY DEF TypeOK, Partition
<1>1. \A i \in critical : /\ i \in 1..Len(criticalJobs)
                          /\ criticalJobs[i] \in ToSet(criticalJobs)
                          /\ criticalJobs[i] \in Jobs
  BY <1>0, FirstUnique
<1>2. \A i \in normal : /\ i \in 1..Len(normalJobs)
                        /\ normalJobs[i] \in ToSet(normalJobs)
                        /\ normalJobs[i] \in Jobs
  BY <1>0, FirstUnique
<1>3. Len(criticalJobs) \in Nat /\ Len(normalJobs) \in Nat
  BY <1>0, LenProperties
<1>4. \/ \E i \in critical : next = [job |-> criticalJobs[i],
             critical |-> RemoveAt(criticalJobs, i), normal |-> normalJobs]
      \/ \E i \in normal : next = [job |-> normalJobs[i],
             critical |-> criticalJobs, normal |-> RemoveAt(normalJobs, i)]
  BY DEF NextJob
<1> HIDE DEF critical, normal
<1>5. CASE \E i \in critical : next = [job |-> criticalJobs[i],
             critical |-> RemoveAt(criticalJobs, i), normal |-> normalJobs]
  <2>1. PICK i \in critical : next = [job |-> criticalJobs[i],
             critical |-> RemoveAt(criticalJobs, i), normal |-> normalJobs]
    BY <1>5
  <2>2. /\ RemoveAt(criticalJobs, i) \in Seq(Jobs)
        /\ Len(RemoveAt(criticalJobs, i)) = Len(criticalJobs) - 1
    BY <1>0, <1>1, RemoveAtIndex
  <2>3. /\ Distinct(RemoveAt(criticalJobs, i))
        /\ ToSet(RemoveAt(criticalJobs, i)) = ToSet(criticalJobs) \ {criticalJobs[i]}
    BY <1>0, <1>1, RemoveAtElements
  <2>4. /\ next.job = criticalJobs[i]
        /\ next.critical = RemoveAt(criticalJobs, i)
        /\ next.normal = normalJobs
    BY <2>1
  <2>5. next.job \in ToSet(criticalJobs) /\ next.job \notin ToSet(normalJobs)
    BY <1>0, <1>1, <2>4
  <2>6. Len(next.critical) + Len(next.normal) = PendingCount - 1
    BY <1>3, <2>2, <2>4 DEF PendingCount
  <2> QED
    BY <1>0, <1>1, <2>2, <2>3, <2>4, <2>5, <2>6 DEF Pending
<1>6. CASE \E i \in normal : next = [job |-> normalJobs[i],
             critical |-> criticalJobs, normal |-> RemoveAt(normalJobs, i)]
  <2>1. PICK i \in normal : next = [job |-> normalJobs[i],
             critical |-> criticalJobs, normal |-> RemoveAt(normalJobs, i)]
    BY <1>6
  <2>2. /\ RemoveAt(normalJobs, i) \in Seq(Jobs)
        /\ Len(RemoveAt(normalJobs, i)) = Len(normalJobs) - 1
    BY <1>0, <1>2, RemoveAtIndex
  <2>3. /\ Distinct(RemoveAt(normalJobs, i))
        /\ ToSet(RemoveAt(normalJobs, i)) = ToSet(normalJobs) \ {normalJobs[i]}
    BY <1>0, <1>2, RemoveAtElements
  <2>4. /\ next.job = normalJobs[i]
        /\ next.normal = RemoveAt(normalJobs, i)
        /\ next.critical = criticalJobs
    BY <2>1
  <2>5. next.job \in ToSet(normalJobs) /\ next.job \notin ToSet(criticalJobs)
    BY <1>0, <1>2, <2>4
  <2>6. Len(next.critical) + Len(next.normal) = PendingCount - 1
    BY <1>3, <2>2, <2>4 DEF PendingCount
  <2> QED
    BY <1>0, <1>2, <2>2, <2>3, <2>4, <2>5, <2>6 DEF Pending
<1> QED
  BY <1>4, <1>5, <1>6

(* coalesce_pending and evict_coalescible_job find one waiting hook.       *)
LEMMA OneMakesRoom ==
  ASSUME TypeOK, NEW k \in Kinds
  PROVE  /\ Superseded(k) # {} => \E v \in Pending : Superseded(k) = {v}
         /\ Evictable # {} => \E v \in Pending : Evictable = {v}
<1> DEFINE found(q, S) == {q[i] : i \in First(q, S)}
<1>1. ASSUME NEW q \in Seq(Jobs), ToSet(q) \subseteq Pending, NEW S, found(q, S) # {}
      PROVE  \E v \in Pending : found(q, S) = {v}
  <2>1. PICK i \in First(q, S) : TRUE
    BY <1>1
  <2>2. q[i] \in Pending /\ \A h \in First(q, S) : h = i
    BY <1>1, FirstUnique
  <2> QED
    BY <2>1, <2>2
<1>2. /\ criticalJobs \in Seq(Jobs) /\ ToSet(criticalJobs) \subseteq Pending
      /\ normalJobs \in Seq(Jobs) /\ ToSet(normalJobs) \subseteq Pending
  BY DEF TypeOK, Pending
<1>3. ASSUME Superseded(k) # {}
      PROVE  \E v \in Pending : Superseded(k) = {v}
  <2> DEFINE same == {j \in 1..Len(kind) : CoalesceKey[kind[j]] = CoalesceKey[k]}
  <2>1. Superseded(k) = found(criticalJobs, same) \/ Superseded(k) = found(normalJobs, same)
    BY <1>3 DEF Superseded
  <2> HIDE DEF found, same
  <2> QED
    BY <1>1, <1>2, <1>3, <2>1
<1>4. ASSUME Evictable # {}
      PROVE  \E v \in Pending : Evictable = {v}
  <2> DEFINE coalescible == {j \in 1..Len(kind) : CoalesceKey[kind[j]] # NoKey}
  <2>1. Evictable = found(normalJobs, coalescible)
    BY DEF Evictable
  <2> HIDE DEF found, coalescible
  <2> QED
    BY <1>1, <1>2, <1>4, <2>1
<1> QED
  BY <1>3, <1>4

(* submit: the new hook enters, the hook of out leaves.                    *)
LEMMA EnqueueMoves ==
  ASSUME TypeOK, Partition, Len(kind) < MaxJobs, NEW k \in Kinds,
         NEW out, out = {} \/ \E v \in Pending : out = {v}, Enqueue(k, out)
  PROVE  /\ kind' \in Seq(Kinds) /\ Len(kind') = Len(kind) + 1
         /\ criticalJobs' \in Seq(Jobs) /\ Distinct(criticalJobs')
         /\ normalJobs' \in Seq(Jobs) /\ Distinct(normalJobs')
         /\ PendingCount' = PendingCount + (IF out = {} THEN 1 ELSE 0)
         /\ ToSet(criticalJobs') \intersect ToSet(normalJobs') = {}
         /\ Pending' = (Pending \ out) \union {Len(kind) + 1}
<1> DEFINE j == Len(kind) + 1
           critical == QueueWithout(criticalJobs, out)
           normal == QueueWithout(normalJobs, out)
<1>1. /\ criticalJobs \in Seq(Jobs) /\ Distinct(criticalJobs)
      /\ normalJobs \in Seq(Jobs) /\ Distinct(normalJobs)
      /\ ToSet(criticalJobs) \intersect ToSet(normalJobs) = {}
      /\ Len(criticalJobs) \in Nat /\ Len(normalJobs) \in Nat
  BY LenProperties DEF TypeOK, Partition
<1>2. /\ Len(kind) \in Nat
      /\ j \in Jobs
      /\ j \notin Pending
  BY OptionsAssumption, LenProperties DEF TypeOK, Partition, Jobs
<1>3. kind' \in Seq(Kinds) /\ Len(kind') = Len(kind) + 1
  BY AppendProperties DEF Enqueue, TypeOK
<1>4. /\ critical \in Seq(Jobs) /\ Distinct(critical)
      /\ normal \in Seq(Jobs) /\ Distinct(normal)
      /\ ToSet(critical) = ToSet(criticalJobs) \ out
      /\ ToSet(normal) = ToSet(normalJobs) \ out
      /\ Len(critical) + Len(normal) = PendingCount - (IF out = {} THEN 0 ELSE 1)
      /\ Len(critical) \in Nat /\ Len(normal) \in Nat
  <2>1. CASE out = {}
    BY <1>1, <2>1, QueueWithoutNone DEF PendingCount
  <2>2. CASE \E v \in Pending : out = {v}
    <3>1. PICK v \in Pending : out = {v}
      BY <2>2
    <3>2. /\ QueueWithout(criticalJobs, {v}) \in Seq(Jobs)
          /\ Distinct(QueueWithout(criticalJobs, {v}))
          /\ ToSet(QueueWithout(criticalJobs, {v})) = ToSet(criticalJobs) \ {v}
          /\ Len(QueueWithout(criticalJobs, {v})) =
               IF v \in ToSet(criticalJobs) THEN Len(criticalJobs) - 1 ELSE Len(criticalJobs)
      BY <1>1, QueueWithoutOne
    <3>3. /\ QueueWithout(normalJobs, {v}) \in Seq(Jobs)
          /\ Distinct(QueueWithout(normalJobs, {v}))
          /\ ToSet(QueueWithout(normalJobs, {v})) = ToSet(normalJobs) \ {v}
          /\ Len(QueueWithout(normalJobs, {v})) =
               IF v \in ToSet(normalJobs) THEN Len(normalJobs) - 1 ELSE Len(normalJobs)
      BY <1>1, QueueWithoutOne
    <3>4. v \in ToSet(criticalJobs) <=> v \notin ToSet(normalJobs)
      BY <1>1 DEF Pending
    <3>5. Len(critical) \in Nat /\ Len(normal) \in Nat
      BY <3>1, <3>2, <3>3, LenProperties
    <3>6. Len(QueueWithout(criticalJobs, {v})) + Len(QueueWithout(normalJobs, {v}))
            = PendingCount - 1
      BY <1>1, <3>2, <3>3, <3>4 DEF PendingCount
    <3> QED
      BY <3>1, <3>2, <3>3, <3>5, <3>6
  <2> QED
    BY <2>1, <2>2
<1> HIDE DEF critical, normal
<1>5. CASE k \in Critical
  <2>1. criticalJobs' = Append(critical, j) /\ normalJobs' = normal
    BY <1>5 DEF Enqueue, critical, normal
  <2>2. /\ Append(critical, j) \in Seq(Jobs)
        /\ Len(Append(critical, j)) = Len(critical) + 1
        /\ ToSet(Append(critical, j)) = ToSet(critical) \union {j}
        /\ Distinct(Append(critical, j))
    BY <1>2, <1>4, AppendElements DEF Pending
  <2>3. PendingCount' = PendingCount + (IF out = {} THEN 1 ELSE 0)
    <3>1. PendingCount' = Len(critical) + Len(normal) + 1
      BY <1>4, <2>1, <2>2 DEF PendingCount
    <3> QED
      BY <1>1, <1>4, <3>1 DEF PendingCount
  <2>4. Pending' = ToSet(criticalJobs') \union ToSet(normalJobs')
    BY DEF Pending
  <2> QED
    BY <1>1, <1>2, <1>3, <1>4, <2>1, <2>2, <2>3, <2>4 DEF Pending
<1>6. CASE k \notin Critical
  <2>1. criticalJobs' = critical /\ normalJobs' = Append(normal, j)
    BY <1>6 DEF Enqueue, critical, normal
  <2>2. /\ Append(normal, j) \in Seq(Jobs)
        /\ Len(Append(normal, j)) = Len(normal) + 1
        /\ ToSet(Append(normal, j)) = ToSet(normal) \union {j}
        /\ Distinct(Append(normal, j))
    BY <1>2, <1>4, AppendElements DEF Pending
  <2>3. PendingCount' = PendingCount + (IF out = {} THEN 1 ELSE 0)
    <3>1. PendingCount' = Len(critical) + Len(normal) + 1
      BY <1>4, <2>1, <2>2 DEF PendingCount
    <3> QED
      BY <1>1, <1>4, <3>1 DEF PendingCount
  <2>4. Pending' = ToSet(criticalJobs') \union ToSet(normalJobs')
    BY DEF Pending
  <2> QED
    BY <1>1, <1>2, <1>3, <1>4, <2>1, <2>2, <2>3, <2>4 DEF Pending
<1> QED
  BY <1>5, <1>6

(* run: a popped hook goes back to the front of its queue.                 *)
LEMMA RequeueMoves ==
  ASSUME TypeOK, Partition, NEW next \in NextJob, Requeue(next)
  PROVE  /\ criticalJobs' \in Seq(Jobs) /\ Distinct(criticalJobs')
         /\ normalJobs' \in Seq(Jobs) /\ Distinct(normalJobs')
         /\ PendingCount' = PendingCount
         /\ ToSet(criticalJobs') \intersect ToSet(normalJobs') = {}
         /\ Pending' = Pending
<1> DEFINE job == next.job
           c == next.critical
           n == next.normal
<1>1. /\ c \in Seq(Jobs) /\ Distinct(c)
      /\ n \in Seq(Jobs) /\ Distinct(n)
      /\ Len(c) + Len(n) = PendingCount - 1
      /\ ToSet(c) \intersect ToSet(n) = {}
      /\ ToSet(c) \union ToSet(n) = Pending \ {job}
      /\ job \in Pending
      /\ job \in Jobs
  BY NextJobMoves
<1> HIDE DEF job, c, n
<1>2. /\ Len(c) \in Nat /\ Len(n) \in Nat
      /\ Len(criticalJobs) \in Nat /\ Len(normalJobs) \in Nat
  BY <1>1, LenProperties DEF TypeOK
<1>3. /\ <<job>> \o c \in Seq(Jobs)
      /\ Len(<<job>> \o c) = Len(c) + 1
      /\ ToSet(<<job>> \o c) = ToSet(c) \union {job}
      /\ Distinct(<<job>> \o c)
  BY <1>1, PrependElements
<1>4. /\ <<job>> \o n \in Seq(Jobs)
      /\ Len(<<job>> \o n) = Len(n) + 1
      /\ ToSet(<<job>> \o n) = ToSet(n) \union {job}
      /\ Distinct(<<job>> \o n)
  BY <1>1, PrependElements
<1>5. \/ criticalJobs' = <<job>> \o c /\ normalJobs' = n
      \/ criticalJobs' = c /\ normalJobs' = <<job>> \o n
  BY DEF Requeue, job, c, n
<1>6. Len(criticalJobs') + Len(normalJobs') = Len(c) + Len(n) + 1
  <2>1. CASE criticalJobs' = <<job>> \o c /\ normalJobs' = n
    <3>1. Len(criticalJobs') = Len(c) + 1 /\ Len(normalJobs') = Len(n)
      BY <1>3, <2>1
    <3> QED
      BY <1>2, <3>1
  <2>2. CASE criticalJobs' = c /\ normalJobs' = <<job>> \o n
    <3>1. Len(criticalJobs') = Len(c) /\ Len(normalJobs') = Len(n) + 1
      BY <1>4, <2>2
    <3> QED
      BY <1>2, <3>1
  <2> QED
    BY <1>5, <2>1, <2>2
<1>7. PendingCount' = PendingCount
  <2>1. PendingCount' = Len(criticalJobs') + Len(normalJobs')
    BY DEF PendingCount
  <2>2. PendingCount \in Nat
    BY <1>2 DEF PendingCount
  <2> QED
    BY <1>1, <1>2, <1>6, <2>1, <2>2
<1>8. ToSet(criticalJobs') \union ToSet(normalJobs') = Pending
  BY <1>1, <1>3, <1>4, <1>5
<1>9. ToSet(criticalJobs') \intersect ToSet(normalJobs') = {}
  BY <1>1, <1>3, <1>4, <1>5
<1> QED
  BY <1>1, <1>3, <1>4, <1>5, <1>7, <1>8, <1>9 DEF Pending

(* The table of children grows and shrinks by one hook at a time.          *)
LEMMA ChildrenFinite ==
  IsFiniteSet(Children) /\ Cardinality(Children) \in Nat
<1>1. IsFiniteSet(Jobs) /\ Children \subseteq Jobs
  BY OptionsAssumption, FS_Interval DEF Jobs, Children
<1> QED
  BY <1>1, FS_Subset, FS_CardinalityType

LEMMA ChildEnters ==
  ASSUME TypeOK, NEW j \in Jobs, j \notin Children,
         child' = [child EXCEPT ![j] = "launching"]
  PROVE  /\ Children' = Children \union {j}
         /\ Cardinality(Children') = Cardinality(Children) + 1
         /\ child' \in [Jobs -> Stages \union {"none"}]
<1>1. Children' = Children \union {j}
  BY DEF Children, TypeOK
<1>2. Cardinality(Children \union {j}) = Cardinality(Children) + 1
  BY ChildrenFinite, FS_AddElement
<1> QED
  BY <1>1, <1>2 DEF TypeOK, Stages

LEMMA ChildLeaves ==
  ASSUME TypeOK, NEW j \in Jobs, j \in Children,
         child' = [child EXCEPT ![j] = "none"]
  PROVE  /\ Children' = Children \ {j}
         /\ Cardinality(Children') = Cardinality(Children) - 1
         /\ child' \in [Jobs -> Stages \union {"none"}]
<1>1. Children' = Children \ {j}
  BY DEF Children, TypeOK
<1>2. Cardinality(Children \ {j}) = Cardinality(Children) - 1
  BY ChildrenFinite, FS_RemoveElement
<1> QED
  BY <1>1, <1>2 DEF TypeOK

LEMMA ChildMoves ==
  ASSUME TypeOK, NEW j \in Children, NEW stage \in Stages,
         child' = [child EXCEPT ![j] = stage]
  PROVE  /\ Children' = Children
         /\ child' \in [Jobs -> Stages \union {"none"}]
BY DEF Children, TypeOK, Stages

(* fail_supervisor empties the table.                                      *)
LEMMA ChildrenFail ==
  ASSUME child' = [j \in Jobs |-> "none"]
  PROVE  /\ Children' = {}
         /\ Cardinality(Children') = 0
         /\ child' \in [Jobs -> Stages \union {"none"}]
BY FS_EmptySet DEF Children
-----------------------------------------------------------------------------
(* Type correctness                                                        *)

LEMMA TypeGroups ==
  TypeOK <=> QueueTypes /\ TableTypes /\ ResultTypes /\ FlagTypes /\ SupervisorTypes
BY DEF TypeOK, QueueTypes, TableTypes, ResultTypes, FlagTypes, SupervisorTypes

(* fail_supervisor keeps the types whatever hooks it completes.            *)
LEMMA FailSupervisorTypes ==
  ASSUME TypeOK, NEW S \in SUBSET Jobs, FailSupervisor(S)
  PROVE  /\ TableTypes'
         /\ ResultTypes'
         /\ failed' \in BOOLEAN /\ socketOpen' \in BOOLEAN
         /\ supervisor' \in SupervisorStates
         /\ kids' \subseteq Jobs
         /\ outbox' \subseteq Responses
         /\ requests' \in Seq(Jobs \union {Stop})
         /\ responses' \in Seq(Responses)
         /\ proc' \in [Jobs -> ProcStates]
<1>1. TableTypes'
  <2>1. child' = [j \in Jobs |-> "none"] /\ late' = {}
    BY DEF FailSupervisor
  <2>2. Cardinality(Children') = 0 /\ child' \in [Jobs -> Stages \union {"none"}]
    BY <2>1, ChildrenFail
  <2> QED
    BY <2>1, <2>2, OptionsAssumption DEF TableTypes
<1>2. ResultTypes'
  <2>1. Cardinality(S \union Children) \in Nat
    <3>1. IsFiniteSet(Jobs)
      BY OptionsAssumption, FS_Interval DEF Jobs
    <3>2. S \union Children \in SUBSET Jobs
      BY DEF Children
    <3> QED
      BY <3>1, <3>2, FS_Subset, FS_CardinalityType
  <2> QED
    BY <2>1 DEF FailSupervisor, FailedHooks, Owe, Count, ResultTypes, TypeOK
<1>3. proc' \in [Jobs -> ProcStates]
  BY DEF FailSupervisor, KillGroups, TypeOK, ProcStates
<1>4. requests' \in Seq(Jobs \union {Stop}) /\ responses' \in Seq(Responses)
  BY DEF FailSupervisor
<1> QED
  BY <1>1, <1>2, <1>3, <1>4 DEF FailSupervisor, TypeOK, SupervisorStates

LEMMA TypeNext ==
  ASSUME TypeOK, Partition, [Next]_vars
  PROVE  TypeOK'
<1> USE DEF queueVars, tableVars, resultVars, supervisorVars, socketVars
<1>0. QueueTypes /\ TableTypes /\ ResultTypes /\ FlagTypes /\ SupervisorTypes
  BY TypeGroups
<1>g. QueueTypes' /\ TableTypes' /\ ResultTypes' /\ FlagTypes' /\ SupervisorTypes' => TypeOK'
  BY DEF TypeOK, QueueTypes, TableTypes, ResultTypes, FlagTypes, SupervisorTypes
<1>q. UNCHANGED queueVars => QueueTypes'
  BY DEF QueueTypes, TypeOK, PendingCount
<1>t. UNCHANGED tableVars => TableTypes'
  <2>1. UNCHANGED child => Children' = Children
    BY DEF Children
  <2> QED
    BY <2>1 DEF TableTypes, TypeOK
<1>r. UNCHANGED resultVars => ResultTypes'
  BY DEF ResultTypes, TypeOK
<1>c. ASSUME NEW n \in Nat, NEW d \in Nat, NEW o \in Nat, Count(n, d, o)
      PROVE  counters' \in [completed : Nat, dropped : Nat, coalesced : Nat]
  BY <1>c DEF Count, TypeOK
<1>p. ASSUME NEW next \in NextJob, criticalJobs' = next.critical, normalJobs' = next.normal
      PROVE  /\ criticalJobs' \in Seq(Jobs)
             /\ normalJobs' \in Seq(Jobs)
             /\ PendingCount' <= MaxPending
             /\ next.job \in Jobs /\ next.job \notin Children
  <2>1. /\ criticalJobs' \in Seq(Jobs)
        /\ normalJobs' \in Seq(Jobs)
        /\ Len(criticalJobs') + Len(normalJobs') = PendingCount - 1
        /\ next.job \in Jobs /\ next.job \in Pending
    BY <1>p, NextJobMoves
  <2>2. PendingCount' = PendingCount - 1 /\ PendingCount \in Nat
    BY <2>1, LenProperties DEF PendingCount, TypeOK
  <2>3. PendingCount' <= MaxPending
    BY <1>0, <2>2, OptionsAssumption DEF QueueTypes
  <2> QED
    BY <2>1, <2>3 DEF Partition
<1>1. ASSUME NEW k \in Kinds, Submit(k)
      PROVE  TypeOK'
  <2>1. QueueTypes' /\ ResultTypes'
    <3>1. CASE Refuse(k)
      <4>1. kind' \in Seq(Kinds) /\ Len(kind') = Len(kind) + 1 /\ Len(kind) \in Nat
        BY <3>1, AppendProperties, LenProperties DEF Refuse, TypeOK
      <4>2. Len(kind) + 1 \in Jobs /\ Len(kind') <= MaxJobs
        BY <1>1, <4>1, OptionsAssumption DEF Submit, Jobs
      <4>3. PendingCount' = PendingCount
        BY <3>1 DEF Refuse, PendingCount
      <4> QED
        BY <1>0, <1>c, <3>1, <4>1, <4>2, <4>3 DEF Refuse, QueueTypes, ResultTypes
    <3>2. ASSUME NEW out, out = {} \/ \E v \in Pending : out = {v}, Enqueue(k, out),
                 out = {} => HasRoom,
                 \/ Count(0, 0, 0)
                 \/ Count(0, 0, 1)
                 \/ Count(0, 1, 0)
          PROVE  QueueTypes' /\ ResultTypes'
      <4>1. /\ kind' \in Seq(Kinds) /\ Len(kind') = Len(kind) + 1
            /\ criticalJobs' \in Seq(Jobs)
            /\ normalJobs' \in Seq(Jobs)
            /\ PendingCount' = PendingCount + (IF out = {} THEN 1 ELSE 0)
        BY <1>1, <3>2, EnqueueMoves DEF Submit
      <4>2. Len(kind) \in Nat /\ PendingCount \in Nat
        BY LenProperties DEF TypeOK, PendingCount
      <4>3. Len(kind') <= MaxJobs /\ PendingCount' <= MaxPending
        BY <1>0, <1>1, <3>2, <4>1, <4>2, OptionsAssumption DEF Submit, HasRoom, QueueTypes
      <4>4. ResultTypes'
        BY <1>0, <1>c, <3>2 DEF Enqueue, Owe, ResultTypes
      <4> QED
        BY <4>1, <4>3, <4>4 DEF QueueTypes
    <3> QED
      BY <1>1, <3>1, <3>2, OneMakesRoom DEF Submit
  <2> QED
    BY <1>1, <1>0, <1>g, <1>t, <2>1 DEF Submit, FlagTypes, SupervisorTypes
<1>2. CASE RequestStop
  <2>1. QueueTypes'
    <3>1. PendingCount' = 0
      BY <1>2 DEF RequestStop, PendingCount
    <3> QED
      BY <1>0, <1>2, <3>1, OptionsAssumption DEF RequestStop, QueueTypes
  <2>2. TableTypes'
    <3>1. Children' = Children
      BY <1>0, <1>2 DEF RequestStop, Children, TableTypes
    <3> QED
      BY <1>0, <1>2, <3>1 DEF RequestStop, TableTypes, Stages
  <2>3. ResultTypes'
    <3>1. Pending \subseteq Jobs
      BY ElementOfSeq, LenProperties DEF Pending, ToSet, TypeOK
    <3>2. PendingCount \in Nat
      BY LenProperties DEF TypeOK, PendingCount
    <3> QED
      BY <1>0, <1>c, <1>2, <3>1, <3>2 DEF RequestStop, ResultTypes
  <2> QED
    BY <1>2, <1>0, <1>g, <2>1, <2>2, <2>3 DEF RequestStop, FlagTypes, SupervisorTypes
<1>3. CASE RestartSupervisor
  <2>1. requests' \in Seq(Jobs \union {Stop}) /\ responses' \in Seq(Responses)
    BY <1>3 DEF RestartSupervisor
  <2>2. FlagTypes'
    BY <1>0, <1>3 DEF RestartSupervisor, FlagTypes, WorkerSteps
  <2>3. SupervisorTypes'
    BY <1>0, <1>3, <2>1 DEF RestartSupervisor, SupervisorTypes, SupervisorStates
  <2> QED
    BY <1>3, <1>q, <1>t, <1>r, <1>g, <2>2, <2>3 DEF RestartSupervisor
<1>4. CASE Wake
  BY <1>4, <1>q, <1>t, <1>r, <1>0, <1>g
     DEF Wake, FlagTypes, SupervisorTypes, WorkerSteps
<1>5. CASE LaunchSent
  <2>1. PICK next \in NextJob : /\ criticalJobs' = next.critical
                               /\ normalJobs' = next.normal
                               /\ requests' = Append(requests, next.job)
                               /\ child' = [child EXCEPT ![next.job] = "launching"]
    BY <1>5 DEF LaunchSent
  <2>2. QueueTypes'
    BY <1>0, <1>5, <1>p, <2>1 DEF LaunchSent, QueueTypes
  <2>3. TableTypes'
    <3>1. /\ Children' = Children \union {next.job}
          /\ Cardinality(Children') = Cardinality(Children) + 1
          /\ child' \in [Jobs -> Stages \union {"none"}]
      BY <1>p, <2>1, ChildEnters
    <3>2. Cardinality(Children) < MaxConcurrent /\ Cardinality(Children) \in Nat
      BY <1>5, ChildrenFinite DEF LaunchSent, MayLaunch
    <3>3. Cardinality(Children') <= MaxConcurrent
      BY <3>1, <3>2, OptionsAssumption
    <3> QED
      BY <1>0, <1>5, <3>1, <3>3 DEF LaunchSent, TableTypes
  <2>4. requests' \in Seq(Jobs \union {Stop})
    BY <1>0, <1>p, <2>1, AppendProperties DEF SupervisorTypes
  <2> QED
    BY <1>5, <1>0, <1>g, <1>r, <2>2, <2>3, <2>4 DEF LaunchSent, FlagTypes, SupervisorTypes
<1>6. CASE LaunchBackpressure
  <2>1. QueueTypes'
    BY <1>0, <1>6, RequeueMoves DEF LaunchBackpressure, QueueTypes
  <2> QED
    BY <1>6, <1>0, <1>g, <1>t, <1>r, <2>1
       DEF LaunchBackpressure, FlagTypes, SupervisorTypes, WorkerSteps
<1>7. CASE LaunchTooLarge
  <2>1. PICK next \in NextJob : /\ criticalJobs' = next.critical
                               /\ normalJobs' = next.normal
                               /\ Owe({next.job})
    BY <1>7 DEF LaunchTooLarge
  <2>2. QueueTypes'
    BY <1>0, <1>7, <1>p, <2>1 DEF LaunchTooLarge, QueueTypes
  <2>3. ResultTypes'
    BY <1>0, <1>c, <1>7, <2>1 DEF LaunchTooLarge, Owe, ResultTypes
  <2> QED
    BY <1>7, <1>0, <1>g, <1>t, <2>2, <2>3 DEF LaunchTooLarge, FlagTypes, SupervisorTypes
<1>8. CASE LaunchBroken
  <2>1. PICK next \in NextJob : /\ criticalJobs' = next.critical
                               /\ normalJobs' = next.normal
                               /\ FailSupervisor({next.job})
    BY <1>8 DEF LaunchBroken
  <2>2. QueueTypes'
    BY <1>0, <1>8, <1>p, <2>1 DEF LaunchBroken, QueueTypes
  <2> QED
    BY <1>8, <1>0, <1>g, <1>p, <2>1, <2>2, FailSupervisorTypes
       DEF LaunchBroken, FlagTypes, SupervisorTypes
<1>9. CASE LaunchDone
  BY <1>9, <1>q, <1>t, <1>r, <1>0, <1>g
     DEF LaunchDone, FlagTypes, SupervisorTypes, WorkerSteps
<1>10. CASE ReceiveResponse
  <2> DEFINE r == Head(responses)
  <2>1. /\ responses # <<>>
        /\ responses' = Tail(responses)
    BY <1>10 DEF ReceiveResponse
  <2>2. r \in Responses /\ responses' \in Seq(Responses)
    BY <1>0, <2>1, HeadTailProperties DEF SupervisorTypes
  <2>3. r.job \in Jobs
    BY <2>2 DEF Responses
  <2> HIDE DEF r
  <2>4. CASE child[r.job] = "none"
    <3>1. UNCHANGED <<tableVars, resultVars>>
      BY <1>10, <2>4 DEF ReceiveResponse, r
    <3> QED
      BY <1>10, <1>q, <1>t, <1>r, <1>0, <1>g, <2>2, <3>1
         DEF ReceiveResponse, FlagTypes, SupervisorTypes
  <2>5. CASE child[r.job] # "none" /\ r.type = Launched
    <3>1. /\ child' = [child EXCEPT ![r.job] = "running"]
          /\ late' = late \ {r.job}
          /\ UNCHANGED resultVars
      BY <1>10, <2>5 DEF ReceiveResponse, r
    <3>2. /\ Children' = Children
          /\ child' \in [Jobs -> Stages \union {"none"}]
      BY <2>3, <2>5, <3>1, ChildMoves DEF Children, Stages
    <3>3. TableTypes'
      BY <1>0, <3>1, <3>2 DEF TableTypes
    <3> QED
      BY <1>10, <1>q, <1>r, <1>0, <1>g, <2>2, <3>1, <3>3
         DEF ReceiveResponse, FlagTypes, SupervisorTypes
  <2>6. CASE child[r.job] # "none" /\ r.type # Launched
    <3>1. /\ child' = [child EXCEPT ![r.job] = "none"]
          /\ late' = late \ {r.job}
          /\ Owe({r.job})
          /\ Count(1, 0, 0)
          /\ UNCHANGED <<calls, unanswered>>
      BY <1>10, <2>6 DEF ReceiveResponse, r
    <3>2. /\ Children' = Children \ {r.job}
          /\ Cardinality(Children') = Cardinality(Children) - 1
          /\ child' \in [Jobs -> Stages \union {"none"}]
      BY <2>3, <2>6, <3>1, ChildLeaves DEF Children
    <3>3. Cardinality(Children') <= MaxConcurrent
      BY <1>0, <3>2, OptionsAssumption, ChildrenFinite DEF TableTypes
    <3>4. TableTypes'
      BY <1>0, <3>1, <3>2, <3>3 DEF TableTypes
    <3>5. ResultTypes'
      BY <1>0, <1>c, <3>1 DEF Owe, ResultTypes
    <3> QED
      BY <1>10, <1>q, <1>0, <1>g, <2>2, <3>4, <3>5
         DEF ReceiveResponse, FlagTypes, SupervisorTypes
  <2> QED
    BY <2>4, <2>5, <2>6
<1>11. CASE ReceiveDone
  BY <1>11, <1>q, <1>t, <1>r, <1>0, <1>g
     DEF ReceiveDone, FlagTypes, SupervisorTypes, WorkerSteps, SupervisorStates
<1>12. CASE ReceiveFailure
  <2>1. FailSupervisor({})
    BY <1>12 DEF ReceiveFailure
  <2> QED
    BY <1>12, <1>q, <2>1, FailSupervisorTypes, <1>0, <1>g
       DEF ReceiveFailure, FlagTypes, SupervisorTypes, WorkerSteps
<1>13. ASSUME NEW j \in Jobs, ResponseTimeout(j)
       PROVE  TypeOK'
  <2>1. FailSupervisor({})
    BY <1>13 DEF ResponseTimeout
  <2> QED
    BY <1>13, <1>q, <2>1, FailSupervisorTypes, <1>0, <1>g
       DEF ResponseTimeout, FlagTypes, SupervisorTypes
<1>14. ASSUME NEW j \in Jobs, Terminate(j)
       PROVE  TypeOK'
  <2>1. j \in Children /\ child' = [child EXCEPT ![j] = "terminating"] /\ late' = late \ {j}
    BY <1>14 DEF Terminate, MustTerminate, Children
  <2>2. Children' = Children /\ child' \in [Jobs -> Stages \union {"none"}]
    BY <2>1, ChildMoves DEF Stages
  <2>3. TableTypes'
    BY <1>0, <2>1, <2>2 DEF TableTypes
  <2> QED
    BY <1>14, <1>q, <1>r, <1>0, <1>g, <2>3 DEF Terminate, FlagTypes, SupervisorTypes
<1>15. ASSUME NEW j \in Jobs, ForceKill(j)
       PROVE  TypeOK'
  <2>1. j \in Children /\ child' = [child EXCEPT ![j] = "killing"] /\ late' = late \ {j}
    BY <1>15 DEF ForceKill, MustKill, Children
  <2>2. Children' = Children /\ child' \in [Jobs -> Stages \union {"none"}]
    BY <2>1, ChildMoves DEF Stages
  <2>3. TableTypes'
    BY <1>0, <2>1, <2>2 DEF TableTypes
  <2>4. proc' \in [Jobs -> ProcStates]
    BY <1>0, <1>15 DEF ForceKill, KillGroups, SupervisorTypes, ProcStates
  <2> QED
    BY <1>15, <1>q, <1>r, <1>0, <1>g, <2>3, <2>4 DEF ForceKill, FlagTypes, SupervisorTypes
<1>16. ASSUME NEW j \in Jobs, CallCompletion(j)
       PROVE  TypeOK'
  <2>1. ResultTypes'
    BY <1>0, <1>16 DEF CallCompletion, ResultTypes
  <2> QED
    BY <1>16, <1>q, <1>t, <1>0, <1>g, <2>1
       DEF CallCompletion, FlagTypes, SupervisorTypes, WorkerSteps
<1>17. CASE CompletionsDone
  BY <1>17, <1>q, <1>t, <1>r, <1>0, <1>g
     DEF CompletionsDone, FlagTypes, SupervisorTypes, WorkerSteps
<1>18. CASE StopSupervisor
  <2>1. requests' \in Seq(Jobs \union {Stop})
    BY <1>0, <1>18, AppendProperties DEF StopSupervisor, SupervisorTypes
  <2> QED
    BY <1>18, <1>q, <1>t, <1>r, <1>0, <1>g, <2>1
       DEF StopSupervisor, FlagTypes, SupervisorTypes, WorkerSteps
<1>19. CASE ReapSupervisor
  BY <1>19, <1>q, <1>t, <1>r, <1>0, <1>g
     DEF ReapSupervisor, FlagTypes, SupervisorTypes, WorkerSteps, SupervisorStates
<1>20. CASE SupervisorProcess
  <2>1. CASE SupervisorReceive
    <3> DEFINE j == Head(requests)
    <3>1. j \in Jobs \union {Stop} /\ requests' \in Seq(Jobs \union {Stop})
      BY <1>0, <2>1, HeadTailProperties DEF SupervisorReceive, SupervisorTypes
    <3> HIDE DEF j
    <3>2. /\ supervisor' \in SupervisorStates
          /\ kids' \subseteq Jobs
          /\ outbox' \subseteq Responses
          /\ proc' \in [Jobs -> ProcStates]
      <4>1. CASE j = Stop \/ supervisor = "draining"
        BY <1>0, <2>1, <4>1 DEF SupervisorReceive, SupervisorTypes, SupervisorStates, j
      <4>2. CASE j # Stop /\ supervisor # "draining"
        <5>1. supervisor' = supervisor /\ \E type \in {Launched, Finished} : Respond(type, j)
          BY <2>1, <4>2 DEF SupervisorReceive, j
        <5>2. \/ proc' = [proc EXCEPT ![j] = "forked"] /\ kids' = kids \union {j}
              \/ UNCHANGED <<kids, proc>>
          BY <2>1, <4>2 DEF SupervisorReceive, j
        <5>3. outbox' \subseteq Responses
          BY <3>1, <4>2, <5>1 DEF Respond, Responses
        <5> QED
          BY <1>0, <3>1, <4>2, <5>1, <5>2, <5>3 DEF SupervisorTypes, ProcStates
      <4> QED
        BY <4>1, <4>2
    <3> QED
      BY <2>1, <1>q, <1>t, <1>r, <1>0, <1>g, <3>1, <3>2
         DEF SupervisorReceive, FlagTypes, SupervisorTypes
  <2>2. CASE SupervisorHangup
    BY <2>2, <1>q, <1>t, <1>r, <1>0, <1>g
       DEF SupervisorHangup, FlagTypes, SupervisorTypes, SupervisorStates
  <2>3. CASE SupervisorSend
    <3>1. /\ supervisor' \in SupervisorStates
          /\ outbox' \subseteq Responses
          /\ responses' \in Seq(Responses)
      <4>1. supervisor' \in SupervisorStates /\ outbox' = {}
        BY <1>0, <2>3 DEF SupervisorSend, SupervisorTypes, SupervisorStates
      <4>2. UNCHANGED responses \/ \E r \in outbox : responses' = Append(responses, r)
        BY <2>3 DEF SupervisorSend
      <4>3. responses' \in Seq(Responses)
        BY <1>0, <4>2, AppendProperties DEF SupervisorTypes
      <4> QED
        BY <4>1, <4>3
    <3> QED
      BY <2>3, <1>q, <1>t, <1>r, <1>0, <1>g, <3>1
         DEF SupervisorSend, FlagTypes, SupervisorTypes
  <2>4. CASE SupervisorExit
    <3>1. proc' \in [Jobs -> ProcStates]
      BY <1>0, <2>4 DEF SupervisorExit, OrphansAfter, SupervisorTypes, ProcStates
    <3> QED
      BY <2>4, <1>q, <1>t, <1>r, <1>0, <1>g, <3>1
         DEF SupervisorExit, FlagTypes, SupervisorTypes, SupervisorStates
  <2>5. ASSUME NEW j \in Jobs, SupervisorReap(j)
        PROVE  TypeOK'
    BY <2>5, <1>q, <1>t, <1>r, <1>0, <1>g
       DEF SupervisorReap, Respond, Responses, FlagTypes, SupervisorTypes
  <2>6. ASSUME NEW j \in Jobs, SupervisorKill(j)
        PROVE  TypeOK'
    <3>1. proc' \in [Jobs -> ProcStates]
      BY <1>0, <2>6 DEF SupervisorKill, KillGroups, SupervisorTypes, ProcStates
    <3> QED
      BY <2>6, <1>q, <1>t, <1>r, <1>0, <1>g, <3>1
         DEF SupervisorKill, FlagTypes, SupervisorTypes
  <2> QED
    BY <1>20, <2>1, <2>2, <2>3, <2>4, <2>5, <2>6 DEF SupervisorProcess
<1>21. CASE Environment
  <2>1. ASSUME Die, crashes' \in 0..MaxCrashes
        PROVE  TypeOK'
    <3>1. proc' \in [Jobs -> ProcStates]
      BY <1>0, <2>1 DEF Die, OrphansAfter, SupervisorTypes, ProcStates
    <3> QED
      BY <2>1, <1>q, <1>t, <1>r, <1>0, <1>g, <3>1
         DEF Die, FlagTypes, SupervisorTypes, SupervisorStates
  <2>2. CASE SupervisorKilled
    BY <1>0, <2>1, <2>2 DEF SupervisorKilled, SupervisorTypes
  <2>3. CASE SupervisorCrash
    BY <1>0, <2>1, <2>3, OptionsAssumption DEF SupervisorCrash, SupervisorTypes
  <2>4. ASSUME NEW j \in Jobs, HookArms(j) \/ HookStarts(j) \/ HookExits(j)
        PROVE  TypeOK'
    <3>1. proc' \in [Jobs -> ProcStates]
      BY <1>0, <2>4 DEF HookArms, HookStarts, HookExits, SupervisorTypes, ProcStates
    <3> QED
      BY <2>4, <1>q, <1>t, <1>r, <1>0, <1>g, <3>1
         DEF HookArms, HookStarts, HookExits, FlagTypes, SupervisorTypes
  <2>5. ASSUME NEW j \in Jobs, DeadlinePasses(j)
        PROVE  TypeOK'
    <3>1. TableTypes'
      <4>1. Children' = Children /\ j \in Children
        BY <2>5 DEF DeadlinePasses, Children
      <4> QED
        BY <1>0, <2>5, <4>1 DEF DeadlinePasses, TableTypes
    <3> QED
      BY <2>5, <1>q, <1>r, <1>0, <1>g, <3>1
         DEF DeadlinePasses, FlagTypes, SupervisorTypes
  <2>6. CASE ProgramDies
    <3>1. crashes' \in 0..MaxCrashes
      BY <1>0, <2>6, OptionsAssumption DEF ProgramDies, SupervisorTypes
    <3> QED
      BY <2>6, <1>q, <1>t, <1>r, <1>0, <1>g, <3>1
         DEF ProgramDies, FlagTypes, SupervisorTypes, WorkerSteps
  <2> QED
    BY <1>21, <2>2, <2>3, <2>4, <2>5, <2>6 DEF Environment
<1>22. CASE UNCHANGED vars
  BY <1>22, <1>q, <1>t, <1>r, <1>0, <1>g DEF vars, FlagTypes, SupervisorTypes
<1> QED
  BY <1>1, <1>2, <1>3, <1>4, <1>5, <1>6, <1>7, <1>8, <1>9, <1>10, <1>11, <1>12, <1>13,
     <1>14, <1>15, <1>16, <1>17, <1>18, <1>19, <1>20, <1>21, <1>22
     DEF Next, Worker, Done

LEMMA TypeInit ==
  ASSUME Init
  PROVE  TypeOK
<1>1. Children = {} /\ Cardinality(Children) = 0
  BY FS_EmptySet DEF Init, Children
<1>2. PendingCount = 0 /\ Len(kind) = 0
  BY DEF Init, PendingCount
<1>3. /\ kind \in Seq(Kinds) /\ criticalJobs \in Seq(Jobs) /\ normalJobs \in Seq(Jobs)
      /\ requests \in Seq(Jobs \union {Stop}) /\ responses \in Seq(Responses)
  BY DEF Init
<1>4. crashes \in 0..MaxCrashes
  BY OptionsAssumption DEF Init
<1>5. QueueTypes
  BY <1>2, <1>3, OptionsAssumption DEF QueueTypes
<1>6. TableTypes
  BY <1>1, OptionsAssumption DEF Init, TableTypes
<1>7. ResultTypes
  BY DEF Init, ResultTypes
<1>8. FlagTypes
  BY DEF Init, FlagTypes, WorkerSteps
<1>9. SupervisorTypes
  BY <1>3, <1>4 DEF Init, SupervisorTypes, SupervisorStates, ProcStates
<1> QED
  BY <1>5, <1>6, <1>7, <1>8, <1>9, TypeGroups
-----------------------------------------------------------------------------
(* Where a hook is                                                         *)

LEMMA PartitionInit ==
  ASSUME Init
  PROVE  Partition
BY DEF Init, Partition, Distinct, Pending, Children, ToSet

(* The hooks that have left without being refused.                         *)
Settled == (1..Len(kind)) \ (Pending \union Children \union unanswered)

LEMMA SettledIsAnswered ==
  AnsweredOnce <=> \A j \in Jobs : owed[j] + calls[j] = IF j \in Settled THEN 1 ELSE 0
BY DEF AnsweredOnce, Settled

(* The hooks of S settle and their completions are owed.                   *)
LEMMA AnsweredMoves ==
  ASSUME TypeOK, AnsweredOnce, NEW S \in SUBSET Jobs, S \intersect Settled = {},
         Owe(S), calls' = calls, Settled' = Settled \union S
  PROVE  AnsweredOnce'
<1> SUFFICES ASSUME NEW j \in Jobs
             PROVE  owed'[j] + calls'[j] = IF j \in Settled' THEN 1 ELSE 0
  BY DEF AnsweredOnce, Settled
<1>1. /\ owed[j] \in Nat /\ calls[j] \in Nat
      /\ owed[j] + calls[j] = IF j \in Settled THEN 1 ELSE 0
  BY SettledIsAnswered DEF TypeOK
<1>2. owed'[j] = IF j \in S THEN owed[j] + 1 ELSE owed[j]
  BY DEF Owe
<1> QED
  BY <1>1, <1>2

(* fail_supervisor: the hooks of S and all children settle.                *)
LEMMA FailSupervisorMoves ==
  ASSUME IInv, NEW S \in SUBSET Jobs, IsFiniteSet(S), S \intersect Children = {},
         S \intersect Settled = {}, S \intersect unanswered = {}, S \subseteq 1..Len(kind),
         FailSupervisor(S), kind' = kind,
         Distinct(criticalJobs'), Distinct(normalJobs'),
         ToSet(criticalJobs') \intersect ToSet(normalJobs') = {},
         Pending' = Pending \ S, PendingCount' + Cardinality(S) = PendingCount,
         PendingCount' \in Nat
  PROVE  Partition' /\ AnsweredOnce' /\ Conservation'
<1>1. Children' = {} /\ Cardinality(Children') = 0
  BY ChildrenFail DEF FailSupervisor
<1>2. Partition'
  BY <1>1 DEF IInv, Partition, FailSupervisor
<1>3. Settled' = Settled \union FailedHooks(S)
  <2>1. /\ Settled' = (1..Len(kind)) \ ((Pending \ S) \union unanswered)
        /\ Children \subseteq 1..Len(kind)
        /\ Children \intersect (Pending \union unanswered) = {}
    BY <1>1 DEF IInv, Partition, Settled, FailSupervisor
  <2> QED
    BY <2>1 DEF Settled, FailedHooks
<1>4. AnsweredOnce'
  <2>1. FailedHooks(S) \in SUBSET Jobs /\ FailedHooks(S) \intersect Settled = {}
    BY DEF FailedHooks, Children, Settled
  <2> QED
    BY <1>3, <2>1, AnsweredMoves DEF IInv, FailSupervisor
<1>5. Conservation'
  <2>1. /\ Cardinality(S) \in Nat /\ Cardinality(Children) \in Nat
        /\ PendingCount \in Nat
    BY ChildrenFinite, FS_CardinalityType, LenProperties DEF IInv, TypeOK, PendingCount
  <2>2. Cardinality(FailedHooks(S)) = Cardinality(S) + Cardinality(Children)
    <3>1. Cardinality(S \union Children)
            = Cardinality(S) + Cardinality(Children) - Cardinality(S \intersect Children)
      BY ChildrenFinite, FS_Union
    <3>2. Cardinality(S \intersect Children) = 0
      BY FS_EmptySet
    <3> QED
      BY <2>1, <3>1, <3>2 DEF FailedHooks
  <2>3. /\ counters.completed \in Nat /\ counters.dropped \in Nat
        /\ counters.coalesced \in Nat
    BY DEF IInv, TypeOK
  <2>4. /\ counters'.completed = counters.completed + Cardinality(FailedHooks(S))
        /\ counters'.dropped = counters.dropped
        /\ counters'.coalesced = counters.coalesced
    BY <2>3 DEF FailSupervisor, Count
  <2>5. Len(kind) = PendingCount + Cardinality(Children)
                    + counters.completed + counters.dropped + counters.coalesced
    BY DEF IInv, Conservation
  <2> DEFINE p == PendingCount
             q == PendingCount'
             s == Cardinality(S)
             c == Cardinality(Children)
             e == counters.completed
             d == counters.dropped
             o == counters.coalesced
  <2>6. p \in Nat /\ q \in Nat /\ s \in Nat /\ c \in Nat /\ e \in Nat /\ d \in Nat /\ o \in Nat
    BY <2>1, <2>3
  <2>7. q + s = p /\ Len(kind) = p + c + e + d + o
    BY <2>5
  <2>8. Conservation' <=> Len(kind) = q + 0 + (e + (s + c)) + d + o
    BY <1>1, <2>2, <2>4 DEF Conservation
  <2> HIDE DEF p, q, s, c, e, d, o
  <2>9. Len(kind) = q + 0 + (e + (s + c)) + d + o
    BY <2>6, <2>7
  <2> QED
    BY <2>8, <2>9
<1> QED
  BY <1>2, <1>4, <1>5

(* The arithmetic of status(): one step moves the numbers by these amounts. *)
LEMMA CounterMoves ==
  ASSUME IInv, NEW submitted \in Nat, NEW waiting \in Int, NEW running \in Int,
         NEW n \in Nat, NEW d \in Nat, NEW o \in Nat, Count(n, d, o),
         Len(kind') = Len(kind) + submitted,
         PendingCount' = PendingCount + waiting,
         Cardinality(Children') = Cardinality(Children) + running,
         submitted = waiting + running + n + d + o
  PROVE  Conservation'
<1>1. /\ PendingCount \in Nat /\ Cardinality(Children) \in Nat
      /\ counters.completed \in Nat /\ counters.dropped \in Nat
      /\ counters.coalesced \in Nat
  BY ChildrenFinite, LenProperties DEF IInv, TypeOK, PendingCount
<1>2. /\ counters'.completed = counters.completed + n
      /\ counters'.dropped = counters.dropped + d
      /\ counters'.coalesced = counters.coalesced + o
  BY DEF Count
<1>3. Len(kind) = PendingCount + Cardinality(Children)
                  + counters.completed + counters.dropped + counters.coalesced
  BY DEF IInv, Conservation
<1> DEFINE p == PendingCount
           c == Cardinality(Children)
           x == counters.completed
           y == counters.dropped
           z == counters.coalesced
<1>4. p \in Nat /\ c \in Nat /\ x \in Nat /\ y \in Nat /\ z \in Nat
  BY <1>1
<1>5. Len(kind) = p + c + x + y + z
  BY <1>3
<1>6. Conservation' <=>
        Len(kind) + submitted = (p + waiting) + (c + running) + (x + n) + (y + d) + (z + o)
  BY <1>2 DEF Conservation
<1> HIDE DEF p, c, x, y, z
<1>7. Len(kind) + submitted = (p + waiting) + (c + running) + (x + n) + (y + d) + (z + o)
  BY <1>4, <1>5
<1> QED
  BY <1>6, <1>7

LEMMA AccountNext ==
  ASSUME IInv, [Next]_vars
  PROVE  Partition' /\ AnsweredOnce' /\ Conservation'
<1> USE DEF queueVars, tableVars, resultVars, supervisorVars, socketVars
<1>0. /\ TypeOK /\ Partition /\ AnsweredOnce /\ Conservation
      /\ Len(kind) \in Nat /\ PendingCount \in Nat
      /\ Pending \subseteq Jobs /\ Children \subseteq Jobs
  <2>1. /\ TypeOK /\ Partition /\ AnsweredOnce /\ Conservation
        /\ Children \subseteq Jobs
    BY DEF IInv, Children
  <2>2. Len(kind) \in Nat /\ PendingCount \in Nat
    BY <2>1, LenProperties DEF TypeOK, PendingCount
  <2>3. Pending \subseteq Jobs
    BY <2>1, ElementOfSeq, LenProperties DEF Pending, ToSet, TypeOK
  <2> QED
    BY <2>1, <2>2, <2>3
<1>s. ASSUME UNCHANGED <<queueVars, unanswered, counters>>, Children' = Children,
             \A j \in Jobs : owed'[j] + calls'[j] = owed[j] + calls[j]
      PROVE  Partition' /\ AnsweredOnce' /\ Conservation'
  <2>1. Pending' = Pending /\ PendingCount' = PendingCount
    BY <1>s DEF Pending, PendingCount
  <2>2. Partition'
    BY <1>0, <1>s, <2>1 DEF Partition
  <2>3. AnsweredOnce'
    BY <1>0, <1>s, <2>1 DEF AnsweredOnce
  <2>4. Conservation'
    BY <1>0, <1>s, <2>1 DEF Conservation
  <2> QED
    BY <2>2, <2>3, <2>4
<1>1. ASSUME NEW k \in Kinds, Submit(k)
      PROVE  Partition' /\ AnsweredOnce' /\ Conservation'
  <2>1. Len(kind) + 1 \in Jobs /\ Len(kind') = Len(kind) + 1 /\ kind' \in Seq(Kinds)
    <3>1. kind' = Append(kind, k) /\ Len(kind) < MaxJobs
      BY <1>1 DEF Submit, Enqueue, Refuse
    <3> QED
      BY <1>0, <3>1, OptionsAssumption, AppendProperties DEF TypeOK, Jobs
  <2>2. child' = child
    BY <1>1 DEF Submit
  <2>3. Children' = Children /\ Cardinality(Children') = Cardinality(Children) + 0
    BY <2>2, ChildrenFinite DEF Children
  <2>4. Len(kind) + 1 \notin Pending \union Children \union unanswered \union Settled
    BY <1>0 DEF Partition, Settled
  <2>5. CASE Refuse(k)
    <3>1. Pending' = Pending /\ PendingCount' = PendingCount + 0
      BY <1>0, <2>5 DEF Refuse, Pending, PendingCount
    <3>2. Partition'
      BY <1>0, <2>1, <2>3, <2>4, <2>5, <3>1 DEF Refuse, Partition
    <3>3. Settled' = Settled
      BY <1>0, <2>1, <2>3, <2>4, <2>5, <3>1 DEF Refuse, Settled
    <3>4. AnsweredOnce'
      BY <1>0, <2>5, <3>3, SettledIsAnswered DEF Refuse, AnsweredOnce, Settled
    <3>5. Conservation'
      BY <2>1, <2>3, <2>5, <3>1, CounterMoves DEF Refuse
    <3> QED
      BY <3>2, <3>4, <3>5
  <2>6. ASSUME NEW out, out = {} \/ \E v \in Pending : out = {v}, Enqueue(k, out),
               NEW d \in Nat, NEW o \in Nat, Count(0, d, o),
               d + o = IF out = {} THEN 0 ELSE 1
        PROVE  Partition' /\ AnsweredOnce' /\ Conservation'
    <3>1. /\ criticalJobs' \in Seq(Jobs) /\ Distinct(criticalJobs')
          /\ normalJobs' \in Seq(Jobs) /\ Distinct(normalJobs')
          /\ PendingCount' = PendingCount + (IF out = {} THEN 1 ELSE 0)
          /\ ToSet(criticalJobs') \intersect ToSet(normalJobs') = {}
          /\ Pending' = (Pending \ out) \union {Len(kind) + 1}
      BY <1>0, <1>1, <2>6, EnqueueMoves DEF Submit
    <3>2. out \subseteq Pending /\ Owe(out) /\ calls' = calls /\ unanswered' = unanswered
      BY <2>6 DEF Enqueue
    <3>3. Partition'
      BY <1>0, <2>1, <2>3, <2>4, <3>1, <3>2 DEF Partition
    <3>4. Settled' = Settled \union out
      BY <1>0, <2>1, <2>3, <2>4, <3>1, <3>2 DEF Settled, Partition
    <3>5. out \in SUBSET Jobs /\ out \intersect Settled = {}
      BY <1>0, <3>2 DEF Settled
    <3>6. AnsweredOnce'
      BY <1>0, <3>2, <3>4, <3>5, AnsweredMoves
    <3>7. Conservation'
      BY <2>1, <2>3, <2>6, <3>1, CounterMoves
    <3> QED
      BY <3>3, <3>6, <3>7
  <2> QED
    BY <1>0, <1>1, <2>5, <2>6, OneMakesRoom DEF Submit
<1>2. CASE RequestStop
  <2>1. /\ Pending' = {} /\ PendingCount' = PendingCount + (0 - PendingCount)
        /\ Distinct(criticalJobs') /\ Distinct(normalJobs')
        /\ ToSet(criticalJobs') = {} /\ ToSet(normalJobs') = {}
    BY <1>0, <1>2 DEF RequestStop, Pending, PendingCount, ToSet, Distinct
  <2>2. Children' = Children /\ Cardinality(Children') = Cardinality(Children) + 0
    <3>1. Children' = Children
      BY <1>0, <1>2 DEF RequestStop, Children, TypeOK
    <3> QED
      BY <3>1, ChildrenFinite
  <2>3. unanswered' = unanswered \union Pending /\ UNCHANGED <<kind, owed, calls>>
    BY <1>2 DEF RequestStop
  <2>4. Partition'
    BY <1>0, <2>1, <2>2, <2>3 DEF Partition
  <2>5. Settled' = Settled
    BY <2>1, <2>2, <2>3 DEF Settled
  <2>6. AnsweredOnce'
    BY <1>0, <2>3, <2>5, SettledIsAnswered DEF AnsweredOnce, Settled
  <2>7. Conservation'
    <3>1. Count(0, PendingCount, 0) /\ Len(kind') = Len(kind) + 0
      BY <1>0, <1>2 DEF RequestStop
    <3> DEFINE w == 0 - PendingCount
               m == 0
               d == PendingCount
    <3>2. /\ w \in Int /\ m \in Nat /\ m \in Int /\ d \in Nat
          /\ m = w + m + m + d + m
          /\ Len(kind') = Len(kind) + m
          /\ PendingCount' = PendingCount + w
          /\ Cardinality(Children') = Cardinality(Children) + m
          /\ Count(m, d, m)
      BY <1>0, <2>1, <2>2, <3>1
    <3> HIDE DEF w, m, d
    <3> QED
      BY <3>2, CounterMoves
  <2> QED
    BY <2>4, <2>6, <2>7
<1>p. ASSUME NEW next \in NextJob, criticalJobs' = next.critical, normalJobs' = next.normal
      PROVE  /\ Distinct(criticalJobs') /\ Distinct(normalJobs')
             /\ ToSet(criticalJobs') \intersect ToSet(normalJobs') = {}
             /\ PendingCount' = PendingCount - 1
             /\ PendingCount' \in Nat
             /\ Pending' = Pending \ {next.job}
             /\ next.job \in Pending /\ next.job \in Jobs
             /\ next.job \in 1..Len(kind)
             /\ next.job \notin Children \union unanswered \union Settled
  <2>1. /\ criticalJobs' \in Seq(Jobs) /\ Distinct(criticalJobs')
        /\ normalJobs' \in Seq(Jobs) /\ Distinct(normalJobs')
        /\ Len(criticalJobs') + Len(normalJobs') = PendingCount - 1
        /\ ToSet(criticalJobs') \intersect ToSet(normalJobs') = {}
        /\ ToSet(criticalJobs') \union ToSet(normalJobs') = Pending \ {next.job}
        /\ next.job \in Pending /\ next.job \in Jobs
    BY <1>0, <1>p, NextJobMoves
  <2>2. Pending' = Pending \ {next.job} /\ PendingCount' = PendingCount - 1
    BY <2>1 DEF Pending, PendingCount
  <2>3. PendingCount' \in Nat
    BY <2>1, LenProperties DEF PendingCount
  <2>4. /\ next.job \in 1..Len(kind)
        /\ next.job \notin Children \union unanswered \union Settled
    BY <1>0, <2>1 DEF Partition, Settled
  <2> QED
    BY <2>1, <2>2, <2>3, <2>4
<1>5. CASE LaunchSent
  <2>1. PICK next \in NextJob : /\ criticalJobs' = next.critical
                               /\ normalJobs' = next.normal
                               /\ child' = [child EXCEPT ![next.job] = "launching"]
    BY <1>5 DEF LaunchSent
  <2>2. /\ Distinct(criticalJobs') /\ Distinct(normalJobs')
        /\ ToSet(criticalJobs') \intersect ToSet(normalJobs') = {}
        /\ PendingCount' = PendingCount - 1
        /\ PendingCount' \in Nat
        /\ Pending' = Pending \ {next.job}
        /\ next.job \in Pending /\ next.job \in Jobs
        /\ next.job \in 1..Len(kind)
        /\ next.job \notin Children \union unanswered \union Settled
    BY <1>p, <2>1
  <2> DEFINE j == next.job
  <2>3. /\ Children' = Children \union {j}
        /\ Cardinality(Children') = Cardinality(Children) + 1
    BY <1>0, <2>1, <2>2, ChildEnters
  <2>4. UNCHANGED <<kind, resultVars>>
    BY <1>5 DEF LaunchSent
  <2> HIDE DEF j
  <2>5. Partition'
    BY <1>0, <2>2, <2>3, <2>4 DEF Partition, j
  <2>6. Settled' = Settled
    BY <1>0, <2>2, <2>3, <2>4 DEF Settled, j
  <2>7. AnsweredOnce'
    BY <1>0, <2>4, <2>6, SettledIsAnswered DEF AnsweredOnce, Settled
  <2>8. Conservation'
    BY <1>0, <2>2, <2>3, <2>4, ChildrenFinite DEF Conservation
  <2> QED
    BY <2>5, <2>7, <2>8
<1>6. CASE LaunchBackpressure
  <2>1. PICK next \in NextJob : Requeue(next)
    BY <1>6 DEF LaunchBackpressure
  <2>2. /\ Distinct(criticalJobs') /\ Distinct(normalJobs')
        /\ PendingCount' = PendingCount
        /\ ToSet(criticalJobs') \intersect ToSet(normalJobs') = {}
        /\ Pending' = Pending
    BY <1>0, <2>1, RequeueMoves
  <2>3. UNCHANGED <<kind, child, resultVars>>
    BY <1>6 DEF LaunchBackpressure
  <2>4. Children' = Children
    BY <2>3 DEF Children
  <2>5. Partition'
    BY <1>0, <2>2, <2>3, <2>4 DEF Partition
  <2>6. AnsweredOnce'
    BY <1>0, <2>2, <2>3, <2>4 DEF AnsweredOnce
  <2>7. Conservation'
    BY <1>0, <2>2, <2>3, <2>4 DEF Conservation
  <2> QED
    BY <2>5, <2>6, <2>7
<1>7. CASE LaunchTooLarge
  <2>1. PICK next \in NextJob : /\ criticalJobs' = next.critical
                               /\ normalJobs' = next.normal
                               /\ Owe({next.job})
    BY <1>7 DEF LaunchTooLarge
  <2>2. /\ Distinct(criticalJobs') /\ Distinct(normalJobs')
        /\ ToSet(criticalJobs') \intersect ToSet(normalJobs') = {}
        /\ PendingCount' = PendingCount - 1
        /\ PendingCount' \in Nat
        /\ Pending' = Pending \ {next.job}
        /\ next.job \in Pending /\ next.job \in Jobs
        /\ next.job \in 1..Len(kind)
        /\ next.job \notin Children \union unanswered \union Settled
    BY <1>p, <2>1
  <2> DEFINE j == next.job
  <2>3. UNCHANGED <<kind, child, calls, unanswered>> /\ Count(1, 0, 0)
    BY <1>7 DEF LaunchTooLarge
  <2>4. Children' = Children /\ Cardinality(Children') = Cardinality(Children) + 0
    BY <2>3, ChildrenFinite DEF Children
  <2> HIDE DEF j
  <2>5. Partition'
    BY <1>0, <2>2, <2>3, <2>4 DEF Partition
  <2>6. Settled' = Settled \union {j}
    BY <1>0, <2>2, <2>3, <2>4 DEF Settled, j
  <2>7. AnsweredOnce'
    BY <1>0, <2>1, <2>2, <2>3, <2>6, AnsweredMoves DEF j
  <2>8. Conservation'
    <3> DEFINE w == 0 - 1
               m == 0
               n == 1
    <3>1. /\ w \in Int /\ m \in Nat /\ m \in Int /\ n \in Nat
          /\ m = w + m + n + m + m
          /\ Len(kind') = Len(kind) + m
          /\ PendingCount' = PendingCount + w
          /\ Cardinality(Children') = Cardinality(Children) + m
          /\ Count(n, m, m)
      BY <1>0, <2>2, <2>3, <2>4
    <3> HIDE DEF w, m, n
    <3> QED
      BY <3>1, CounterMoves
  <2> QED
    BY <2>5, <2>7, <2>8
<1>8. CASE LaunchBroken
  <2>1. PICK next \in NextJob : /\ criticalJobs' = next.critical
                               /\ normalJobs' = next.normal
                               /\ FailSupervisor({next.job})
    BY <1>8 DEF LaunchBroken
  <2>2. /\ Distinct(criticalJobs') /\ Distinct(normalJobs')
        /\ ToSet(criticalJobs') \intersect ToSet(normalJobs') = {}
        /\ PendingCount' = PendingCount - 1
        /\ PendingCount' \in Nat
        /\ Pending' = Pending \ {next.job}
        /\ next.job \in Pending /\ next.job \in Jobs
        /\ next.job \in 1..Len(kind)
        /\ next.job \notin Children \union unanswered \union Settled
    BY <1>p, <2>1
  <2> DEFINE j == next.job
  <2>3. kind' = kind
    BY <1>8 DEF LaunchBroken
  <2> HIDE DEF j
  <2>4. /\ IsFiniteSet({j}) /\ Cardinality({j}) = 1
        /\ {j} \in SUBSET Jobs /\ {j} \subseteq 1..Len(kind)
        /\ {j} \intersect Children = {} /\ {j} \intersect Settled = {}
        /\ {j} \intersect unanswered = {}
    BY <2>2, FS_Singleton DEF j
  <2>5. FailSupervisor({j}) /\ Pending' = Pending \ {j}
    BY <2>1, <2>2 DEF j
  <2>6. PendingCount' + Cardinality({j}) = PendingCount
    BY <1>0, <2>2, <2>4
  <2> QED
    BY <2>2, <2>3, <2>4, <2>5, <2>6, FailSupervisorMoves
<1>9. CASE ReceiveResponse
  <2> DEFINE r == Head(responses)
  <2>1. r.job \in Jobs
    <3>1. responses # <<>> /\ responses \in Seq(Responses)
      BY <1>0, <1>9 DEF ReceiveResponse, TypeOK
    <3>2. r \in Responses
      BY <3>1, HeadTailProperties
    <3> QED
      BY <3>2 DEF Responses
  <2>2. UNCHANGED queueVars
    BY <1>9 DEF ReceiveResponse
  <2> HIDE DEF r
  <2>3. CASE child[r.job] = "none"
    <3>1. UNCHANGED <<tableVars, resultVars>>
      BY <1>9, <2>3 DEF ReceiveResponse, r
    <3>2. Children' = Children
      BY <3>1 DEF Children
    <3> QED
      BY <1>s, <2>2, <3>1, <3>2
  <2>4. CASE child[r.job] # "none" /\ r.type = Launched
    <3>1. child' = [child EXCEPT ![r.job] = "running"] /\ UNCHANGED resultVars
      BY <1>9, <2>4 DEF ReceiveResponse, r
    <3>2. Children' = Children
      BY <1>0, <2>1, <2>4, <3>1, ChildMoves DEF Children, Stages
    <3> QED
      BY <1>s, <2>2, <3>1, <3>2
  <2>5. CASE child[r.job] # "none" /\ r.type # Launched
    <3> DEFINE j == r.job
    <3>1. /\ child' = [child EXCEPT ![j] = "none"]
          /\ Owe({j})
          /\ Count(1, 0, 0)
          /\ UNCHANGED <<calls, unanswered>>
      BY <1>9, <2>5 DEF ReceiveResponse, r
    <3>2. j \in Children /\ j \in Jobs
      BY <2>1, <2>5 DEF Children
    <3> HIDE DEF j
    <3>3. /\ Children' = Children \ {j}
          /\ Cardinality(Children') = Cardinality(Children) - 1
      BY <1>0, <3>1, <3>2, ChildLeaves
    <3>4. Pending' = Pending /\ PendingCount' = PendingCount + 0 /\ Len(kind') = Len(kind) + 0
      BY <1>0, <2>2 DEF Pending, PendingCount
    <3>5. Partition'
      BY <1>0, <2>2, <3>1, <3>3, <3>4 DEF Partition
    <3>6. j \in 1..Len(kind) /\ j \notin Pending \union unanswered \union Settled
      BY <1>0, <3>2 DEF Partition, Settled
    <3>7. Settled' = Settled \union {j}
      BY <2>2, <3>1, <3>3, <3>4, <3>6 DEF Settled
    <3>8. AnsweredOnce'
      BY <1>0, <3>1, <3>2, <3>6, <3>7, AnsweredMoves
    <3>9. Conservation'
      <4>1. Cardinality(Children') = Cardinality(Children) + (0 - 1)
        BY <3>3, ChildrenFinite
      <4>2. 0 - 1 \in Int /\ 0 = 0 + (0 - 1) + 1 + 0 + 0
        OBVIOUS
      <4> QED
        BY <3>1, <3>4, <4>1, <4>2, CounterMoves
    <3> QED
      BY <3>5, <3>8, <3>9
  <2> QED
    BY <2>3, <2>4, <2>5
<1>10. CASE ReceiveFailure \/ \E j \in Jobs : ResponseTimeout(j)
  <2>1. FailSupervisor({}) /\ UNCHANGED queueVars
    BY <1>10 DEF ReceiveFailure, ResponseTimeout
  <2>2. Pending' = Pending \ {} /\ PendingCount' = PendingCount
    BY <2>1 DEF Pending, PendingCount
  <2>3. PendingCount' + Cardinality({}) = PendingCount /\ IsFiniteSet({})
    BY <1>0, <2>2, FS_EmptySet
  <2> QED
    BY <1>0, <2>1, <2>2, <2>3, FailSupervisorMoves DEF Partition
<1>11. ASSUME NEW j \in Jobs, Terminate(j) \/ ForceKill(j) \/ CallCompletion(j)
       PROVE  Partition' /\ AnsweredOnce' /\ Conservation'
  <2>1. CASE Terminate(j) \/ ForceKill(j)
    <3>1. /\ j \in Children
          /\ \E stage \in Stages : child' = [child EXCEPT ![j] = stage]
          /\ UNCHANGED <<queueVars, resultVars>>
      BY <2>1 DEF Terminate, MustTerminate, ForceKill, MustKill, Children, Stages
    <3>2. Children' = Children
      BY <1>0, <3>1, ChildMoves
    <3> QED
      BY <1>s, <3>1, <3>2
  <2>2. CASE CallCompletion(j)
    <3>1. /\ UNCHANGED <<queueVars, child, unanswered, counters>>
          /\ owed[j] > 0
          /\ owed' = [owed EXCEPT ![j] = owed[j] - 1]
          /\ calls' = [calls EXCEPT ![j] = calls[j] + 1]
      BY <2>2 DEF CallCompletion
    <3>2. \A i \in Jobs : owed'[i] + calls'[i] = owed[i] + calls[i]
      BY <1>0, <3>1 DEF TypeOK
    <3>3. Children' = Children
      BY <3>1 DEF Children
    <3> QED
      BY <1>s, <3>1, <3>2, <3>3
  <2> QED
    BY <1>11, <2>1, <2>2
<1>12. CASE UNCHANGED <<queueVars, child, resultVars>>
  <2>1. Children' = Children
    BY <1>12 DEF Children
  <2> QED
    BY <1>12, <1>s, <2>1
<1>13. CASE RestartSupervisor \/ Wake \/ LaunchDone \/ ReceiveDone \/ CompletionsDone
            \/ StopSupervisor \/ ReapSupervisor
  BY <1>12, <1>13
     DEF RestartSupervisor, Wake, LaunchDone, ReceiveDone, CompletionsDone,
         StopSupervisor, ReapSupervisor
<1>14. CASE SupervisorProcess
  BY <1>12, <1>14
     DEF SupervisorProcess, SupervisorReceive, SupervisorHangup, SupervisorSend,
         SupervisorExit, SupervisorReap, SupervisorKill
<1>15. CASE Environment
  BY <1>12, <1>15
     DEF Environment, SupervisorKilled, SupervisorCrash, ProgramDies, Die, HookArms, HookStarts,
         HookExits, DeadlinePasses
<1>16. CASE UNCHANGED vars
  BY <1>12, <1>16 DEF vars
<1> QED
  BY <1>1, <1>2, <1>5, <1>6, <1>7, <1>8, <1>9, <1>10, <1>11, <1>13, <1>14, <1>15, <1>16
     DEF Next, Worker, Done

(* Every reachable state satisfies the inductive invariant.                *)
THEOREM Invariance == Spec => []IInv
<1>1. Init => IInv
  <2> SUFFICES ASSUME Init
               PROVE  IInv
    OBVIOUS
  <2>1. TypeOK /\ Partition
    BY TypeInit, PartitionInit
  <2>2. Pending = {} /\ PendingCount = 0 /\ Children = {} /\ Cardinality(Children) = 0
    <3>1. Pending = {} /\ PendingCount = 0
      BY DEF Init, Pending, PendingCount, ToSet
    <3>2. Children = {}
      BY DEF Init, Children
    <3> QED
      BY <3>1, <3>2, FS_EmptySet
  <2>3. AnsweredOnce
    BY DEF Init, AnsweredOnce
  <2>4. Conservation
    BY <2>2 DEF Init, Conservation
  <2> QED
    BY <2>1, <2>3, <2>4 DEF IInv
<1>2. IInv /\ [Next]_vars => IInv'
  BY TypeNext, AccountNext DEF IInv
<1> QED
  BY <1>1, <1>2, PTL DEF Spec

(* The two queues together never hold more than max_pending hooks, the     *)
(* table of children never more than max_concurrent, and every variable    *)
(* keeps its type.                                                         *)
THEOREM TypeCorrect == Spec => []TypeOK
<1>1. IInv => TypeOK
  BY DEF IInv
<1> QED
  BY <1>1, Invariance, PTL

(* No completion is lost or called twice, whatever the supervisor process  *)
(* and its hooks do.                                                       *)
THEOREM NoCompletionLost == Spec => []AnsweredOnce
<1>1. IInv => AnsweredOnce
  BY DEF IInv
<1> QED
  BY <1>1, Invariance, PTL

(* The counters of status() account for every submission.                  *)
THEOREM CountersBalance == Spec => []Conservation
<1>1. IInv => Conservation
  BY DEF IInv
<1> QED
  BY <1>1, Invariance, PTL
-----------------------------------------------------------------------------
(* Which process a hook has                                                *)

(* The hooks whose launch request is on its way to the supervisor.         *)
Sent == ToSet(requests) \ {Stop}
Answers == outbox \union ToSet(responses)
LiveKids == {j \in kids : proc[j] # "dead"}

OnceEach(q) == \A a, b \in DOMAIN q : q[a] = q[b] /\ q[a] # Stop => a = b

(* The supervisor has never heard of hook j.                               *)
Untouched(j) ==
  /\ j \notin ToSet(requests)
  /\ proc[j] = "none"
  /\ j \notin kids
  /\ \A r \in Answers : r.job # j

Fresh == \A j \in Jobs : j \in Pending \/ j > Len(kind) => Untouched(j)

(* A hook is requested once; once it is answered as finished it has no     *)
(* process and never gets one.                                             *)
Launches ==
  /\ OnceEach(requests)
  /\ \A j \in Sent : proc[j] = "none" /\ j \notin kids /\ \A r \in Answers : r.job # j
  /\ \A r \in Answers :
       r.type = Finished => proc[r.job] \in {"none", "dead"} /\ r.job \notin kids
  /\ \A j \in kids : proc[j] # "none"

(* A hook process that has not died is the child of a living supervisor:   *)
(* the kernel ends it with the supervisor, or it ends itself.              *)
Orphans ==
  /\ \A j \in Jobs : proc[j] \in {"armed", "leader"} => j \in kids
  /\ supervisor \in {"zombie", "gone"} => kids = {}
  /\ pc = "joined" => supervisor = "gone"

(* The hooks that have, or may still get, a process of this supervisor are *)
(* of different serial keys, and children unless the supervisor has failed. *)
Occupied == Children \union Sent \union LiveKids

Serial ==
  /\ \A i, j \in Occupied : i # j => ~SameSerialKey(i, j)
  /\ ~failed => Sent \union LiveKids \subseteq Children

ProcessInv == Fresh /\ Launches /\ Orphans /\ Serial
-----------------------------------------------------------------------------
(* The messages of a socket: what is left when the first one is received.  *)
LEMMA TailElements ==
  ASSUME NEW S, NEW q \in Seq(S), q # <<>>
  PROVE  /\ Tail(q) \in Seq(S) /\ Head(q) \in S
         /\ ToSet(q) = ToSet(Tail(q)) \union {Head(q)}
         /\ OnceEach(q) => /\ OnceEach(Tail(q))
                           /\ Head(q) # Stop => Head(q) \notin ToSet(Tail(q))
<1> DEFINE t == Tail(q)
<1>1. /\ t \in Seq(S) /\ Head(q) \in S /\ Head(q) = q[1]
      /\ Len(t) = Len(q) - 1
      /\ \A i \in 1..Len(t) : t[i] = q[i + 1]
  BY HeadTailProperties
<1> HIDE DEF t
<1>2. /\ Len(q) \in Nat /\ Len(q) > 0
      /\ DOMAIN q = 1..Len(q)
      /\ DOMAIN t = 1..(Len(q) - 1)
  <2>1. Len(q) \in Nat /\ DOMAIN q = 1..Len(q) /\ Len(q) # 0
    BY EmptySeq, LenProperties
  <2> QED
    BY <1>1, <2>1, LenProperties
<1>3. \A i \in 1..(Len(q) - 1) : t[i] = q[i + 1] /\ i + 1 \in 1..Len(q)
  BY <1>1, <1>2
<1>4. \A k \in 1..Len(q) : k = 1 \/ (k - 1 \in 1..(Len(q) - 1) /\ q[k] = t[k - 1])
  <2> TAKE k \in 1..Len(q)
  <2>1. CASE k # 1
    <3>1. k - 1 \in 1..(Len(q) - 1) /\ (k - 1) + 1 = k
      BY <1>2, <2>1
    <3> QED
      BY <1>3, <3>1
  <2> QED
    BY <2>1
<1>5. ToSet(q) = ToSet(t) \union {Head(q)}
  <2>1. \A x : x \in ToSet(q) <=> \E k \in 1..Len(q) : x = q[k]
    BY <1>2 DEF ToSet
  <2>2. \A x : x \in ToSet(t) <=> \E k \in 1..(Len(q) - 1) : x = t[k]
    BY <1>2 DEF ToSet
  <2>3. ToSet(q) \subseteq ToSet(t) \union {Head(q)}
    BY <1>1, <1>4, <2>1, <2>2
  <2>4. ToSet(t) \subseteq ToSet(q)
    BY <1>3, <2>1, <2>2
  <2>5. 1 \in 1..Len(q)
    BY <1>2
  <2> QED
    BY <1>1, <2>1, <2>3, <2>4, <2>5
<1>6. OnceEach(q) => OnceEach(t)
  <2> SUFFICES ASSUME OnceEach(q), NEW a \in 1..(Len(q) - 1), NEW b \in 1..(Len(q) - 1),
                      t[a] = t[b], t[a] # Stop
               PROVE  a = b
    BY <1>2 DEF OnceEach
  <2>1. a + 1 = b + 1
    BY <1>2, <1>3 DEF OnceEach
  <2> QED
    BY <2>1
<1>7. ASSUME OnceEach(q), Head(q) # Stop, Head(q) \in ToSet(t)
      PROVE  FALSE
  <2>1. PICK a \in 1..(Len(q) - 1) : t[a] = q[1]
    BY <1>1, <1>2, <1>7 DEF ToSet
  <2>2. a + 1 = 1
    BY <1>1, <1>2, <1>3, <1>7, <2>1 DEF OnceEach
  <2> QED
    BY <2>2
<1> QED
  BY <1>1, <1>5, <1>6, <1>7 DEF t

(* A request is sent behind the others.                                    *)
LEMMA SendElements ==
  ASSUME NEW S, NEW q \in Seq(S), NEW x \in S
  PROVE  /\ ToSet(Append(q, x)) = ToSet(q) \union {x}
         /\ OnceEach(q) /\ (x = Stop \/ x \notin ToSet(q)) => OnceEach(Append(q, x))
<1> DEFINE r == Append(q, x)
<1>1. /\ r \in Seq(S)
      /\ Len(r) = Len(q) + 1
      /\ \A k \in 1..Len(q) : r[k] = q[k]
      /\ r[Len(q) + 1] = x
  BY AppendProperties
<1>2. ToSet(r) = ToSet(q) \union {x}
  BY AppendElements
<1> HIDE DEF r
<1>3. /\ Len(q) \in Nat
      /\ DOMAIN q = 1..Len(q)
      /\ DOMAIN r = 1..(Len(q) + 1)
  BY <1>1, LenProperties
<1>4. OnceEach(q) /\ (x = Stop \/ x \notin ToSet(q)) => OnceEach(r)
  <2> SUFFICES ASSUME OnceEach(q), x = Stop \/ x \notin ToSet(q),
                      NEW a \in 1..(Len(q) + 1), NEW b \in 1..(Len(q) + 1),
                      r[a] = r[b], r[a] # Stop
               PROVE  a = b
    BY <1>3 DEF OnceEach
  <2>1. \A k \in 1..(Len(q) + 1) : k = Len(q) + 1 \/ (k \in 1..Len(q) /\ r[k] = q[k])
    BY <1>1, <1>3
  <2>2. \A k \in 1..Len(q) : q[k] \in ToSet(q)
    BY <1>3 DEF ToSet
  <2> QED
    BY <1>1, <1>3, <2>1, <2>2 DEF OnceEach
<1> QED
  BY <1>2, <1>4 DEF r

(* pop_next_job passes only over hooks that may not run yet.               *)
LEMMA NextJobChoice ==
  ASSUME TypeOK, NEW next \in NextJob
  PROVE  /\ next.job \in Runnable
         /\ \/ \E i \in 1..Len(criticalJobs) :
                 /\ next.job = criticalJobs[i]
                 /\ next.critical = RemoveAt(criticalJobs, i) /\ next.normal = normalJobs
                 /\ \A h \in 1..(i - 1) : criticalJobs[h] \notin Runnable
            \/ \E i \in 1..Len(normalJobs) :
                 /\ next.job = normalJobs[i]
                 /\ next.critical = criticalJobs /\ next.normal = RemoveAt(normalJobs, i)
<1> DEFINE critical == First(criticalJobs, Runnable)
           normal == First(normalJobs, Runnable)
<1>1. /\ critical \subseteq 1..Len(criticalJobs)
      /\ \A i \in critical : criticalJobs[i] \in Runnable
      /\ \A i \in critical : \A h \in 1..(i - 1) : criticalJobs[h] \notin Runnable
  BY FirstUnique DEF TypeOK, First
<1>2. /\ normal \subseteq 1..Len(normalJobs)
      /\ \A i \in normal : normalJobs[i] \in Runnable
  BY FirstUnique DEF TypeOK
<1>3. \/ \E i \in critical : next = [job |-> criticalJobs[i],
             critical |-> RemoveAt(criticalJobs, i), normal |-> normalJobs]
      \/ \E i \in normal : next = [job |-> normalJobs[i],
             critical |-> criticalJobs, normal |-> RemoveAt(normalJobs, i)]
  BY DEF NextJob
<1> HIDE DEF critical, normal
<1>4. CASE \E i \in critical : next = [job |-> criticalJobs[i],
             critical |-> RemoveAt(criticalJobs, i), normal |-> normalJobs]
  <2>1. PICK i \in critical : next = [job |-> criticalJobs[i],
             critical |-> RemoveAt(criticalJobs, i), normal |-> normalJobs]
    BY <1>4
  <2>2. /\ next.job = criticalJobs[i]
        /\ next.critical = RemoveAt(criticalJobs, i) /\ next.normal = normalJobs
    BY <2>1
  <2> QED
    BY <1>1, <2>2
<1>5. CASE \E i \in normal : next = [job |-> normalJobs[i],
             critical |-> criticalJobs, normal |-> RemoveAt(normalJobs, i)]
  <2>1. PICK i \in normal : next = [job |-> normalJobs[i],
             critical |-> criticalJobs, normal |-> RemoveAt(normalJobs, i)]
    BY <1>5
  <2>2. /\ next.job = normalJobs[i]
        /\ next.critical = criticalJobs /\ next.normal = RemoveAt(normalJobs, i)
    BY <2>1
  <2> QED
    BY <1>2, <2>2
<1> QED
  BY <1>3, <1>4, <1>5

(* A hook waits only if it waited before or is new.                        *)
LEMMA PendingNext ==
  ASSUME IInv, [Next]_vars, NEW j \in Jobs, j \in Pending' \/ j > Len(kind')
  PROVE  j \in Pending \/ j > Len(kind)
<1>0. TypeOK /\ Partition /\ Len(kind) \in Nat
  BY LenProperties DEF IInv, TypeOK
<1>1. CASE UNCHANGED queueVars
  BY <1>1 DEF queueVars, Pending
<1>2. ASSUME NEW k \in Kinds, Submit(k)
      PROVE  j \in Pending \/ j > Len(kind)
  <2>1. Len(kind) < MaxJobs
    BY <1>2 DEF Submit
  <2>2. CASE Refuse(k)
    <3>1. Pending' = Pending /\ Len(kind') = Len(kind) + 1
      BY <1>0, <2>2, AppendProperties DEF Refuse, Pending, TypeOK
    <3> QED
      BY <1>0, <3>1 DEF Jobs
  <2>3. ASSUME NEW out, out = {} \/ \E v \in Pending : out = {v}, Enqueue(k, out)
        PROVE  j \in Pending \/ j > Len(kind)
    <3>1. /\ Pending' = (Pending \ out) \union {Len(kind) + 1}
          /\ Len(kind') = Len(kind) + 1
      BY <1>0, <2>1, <2>3, EnqueueMoves
    <3> QED
      BY <1>0, <3>1 DEF Jobs
  <2> QED
    BY <1>0, <1>2, <2>2, <2>3, OneMakesRoom DEF Submit
<1>3. CASE RequestStop
  <2>1. criticalJobs' = <<>> /\ normalJobs' = <<>> /\ kind' = kind
    BY <1>3 DEF RequestStop
  <2> QED
    BY <2>1 DEF Pending, ToSet
<1>4. ASSUME NEW next \in NextJob, criticalJobs' = next.critical, normalJobs' = next.normal,
             kind' = kind
      PROVE  j \in Pending \/ j > Len(kind)
  <2>1. Pending' = Pending \ {next.job}
    BY <1>0, <1>4, NextJobMoves DEF Pending
  <2> QED
    BY <1>4, <2>1
<1>5. CASE LaunchSent \/ LaunchTooLarge \/ LaunchBroken
  BY <1>4, <1>5 DEF LaunchSent, LaunchTooLarge, LaunchBroken
<1>6. CASE LaunchBackpressure
  <2>1. PICK next \in NextJob : Requeue(next)
    BY <1>6 DEF LaunchBackpressure
  <2>2. Pending' = Pending
    BY <1>0, <2>1, RequeueMoves
  <2> QED
    BY <1>6, <2>2 DEF LaunchBackpressure
<1> QED
  BY <1>1, <1>2, <1>3, <1>5, <1>6
     DEF Next, Worker, SupervisorProcess, Environment, Done, vars, queueVars,
         RestartSupervisor, Wake, LaunchDone, ReceiveResponse, ReceiveDone, ReceiveFailure,
         ResponseTimeout, Terminate, ForceKill, CallCompletion, CompletionsDone, StopSupervisor,
         ReapSupervisor, SupervisorReceive, SupervisorHangup, SupervisorSend, SupervisorReap,
         SupervisorKill, SupervisorExit, SupervisorKilled, SupervisorCrash, ProgramDies, Die,
         HookArms, HookStarts, HookExits, DeadlinePasses

(* What a failed supervisor leaves of the processes and the sockets.       *)
LEMMA FailSupervisorProcesses ==
  ASSUME TypeOK, NEW S, FailSupervisor(S)
  PROVE  /\ ToSet(requests') = {} /\ requests' = <<>>
         /\ Answers' = outbox /\ kids' = kids
         /\ \A j \in Jobs : proc'[j] = proc[j] \/ (proc[j] = "leader" /\ proc'[j] = "dead")
BY DEF FailSupervisor, ToSet, Answers, KillGroups, TypeOK

(* The supervisor hears of a hook only by its launch request.              *)
LEMMA UntouchedNext ==
  ASSUME IInv, [Next]_vars, NEW j \in Jobs, Untouched(j)
  PROVE  Untouched(j)' \/ (j \in Pending /\ j \notin Pending' /\ LaunchSent)
<1> USE DEF supervisorVars, socketVars
<1>0. /\ TypeOK /\ Partition
      /\ requests \in Seq(Jobs \union {Stop}) /\ responses \in Seq(Responses)
      /\ proc \in [Jobs -> ProcStates]
      /\ j # Stop
  <2>1. j # Stop
    BY OptionsAssumption DEF Jobs, Stop
  <2> QED
    BY <2>1 DEF IInv, TypeOK
<1>1. CASE UNCHANGED <<requests, responses, outbox, kids, proc>>
  BY <1>1 DEF Untouched, Answers, ToSet
<1>2. ASSUME NEW S, FailSupervisor(S)
      PROVE  Untouched(j)'
  BY <1>0, <1>2, FailSupervisorProcesses DEF Untouched, Answers
<1>3. CASE RestartSupervisor
  BY <1>3 DEF RestartSupervisor, Untouched, Answers, ToSet
<1>4. CASE LaunchSent
  <2>1. PICK next \in NextJob : /\ criticalJobs' = next.critical
                               /\ normalJobs' = next.normal
                               /\ requests' = Append(requests, next.job)
    BY <1>4 DEF LaunchSent
  <2>2. /\ next.job \in Pending /\ next.job \in Jobs
        /\ Pending' = Pending \ {next.job}
    BY <1>0, <2>1, NextJobMoves DEF Pending
  <2>3. ToSet(requests') = ToSet(requests) \union {next.job}
    BY <1>0, <2>1, <2>2, SendElements
  <2>4. UNCHANGED <<responses, outbox, kids, proc>>
    BY <1>4 DEF LaunchSent
  <2>5. CASE j = next.job
    BY <1>4, <2>2, <2>5
  <2>6. CASE j # next.job
    BY <2>3, <2>4, <2>6 DEF Untouched, Answers
  <2> QED
    BY <2>5, <2>6
<1>5. CASE ReceiveResponse
  <2>1. ToSet(responses') \subseteq ToSet(responses)
    BY <1>0, <1>5, TailElements DEF ReceiveResponse
  <2> QED
    BY <1>5, <2>1 DEF ReceiveResponse, Untouched, Answers, ToSet
<1>6. ASSUME NEW i \in Jobs, ForceKill(i) \/ SupervisorKill(i)
      PROVE  Untouched(j)'
  BY <1>0, <1>6 DEF ForceKill, SupervisorKill, KillGroups, Untouched, Answers
<1>7. CASE StopSupervisor
  <2>1. ToSet(requests') \subseteq ToSet(requests) \union {Stop}
    BY <1>0, <1>7, SendElements DEF StopSupervisor
  <2> QED
    BY <1>0, <1>7, <2>1 DEF StopSupervisor, Untouched, Answers
<1>8. CASE SupervisorReceive
  <2>1. /\ Head(requests) \in ToSet(requests) /\ ToSet(requests') \subseteq ToSet(requests)
        /\ j # Head(requests)
    BY <1>0, <1>8, TailElements DEF SupervisorReceive, Untouched
  <2>2. responses' = responses /\ ToSet(responses') = ToSet(responses)
    BY <1>8 DEF SupervisorReceive
  <2>3. /\ proc'[j] = proc[j] /\ j \notin kids'
        /\ \A r \in outbox' : r \in outbox \/ r.job = Head(requests)
    BY <1>0, <1>8, <2>1 DEF SupervisorReceive, Respond, Untouched
  <2> QED
    BY <2>1, <2>2, <2>3 DEF Untouched, Answers
<1>9. CASE SupervisorSend
  <2>1. ToSet(responses') \subseteq ToSet(responses) \union outbox
    <3>1. CASE \E r \in outbox : responses' = Append(responses, r)
      <4>1. PICK r \in outbox : responses' = Append(responses, r)
        BY <3>1
      <4>2. r \in Responses
        BY <1>0 DEF TypeOK
      <4> QED
        BY <1>0, <4>1, <4>2, SendElements
    <3> QED
      BY <1>9, <3>1 DEF SupervisorSend
  <2> QED
    BY <1>9, <2>1 DEF SupervisorSend, Untouched, Answers
<1>10. ASSUME NEW i \in Jobs, SupervisorReap(i)
       PROVE  Untouched(j)'
  BY <1>10 DEF SupervisorReap, Respond, Untouched, Answers
<1>11. CASE SupervisorExit \/ SupervisorKilled \/ SupervisorCrash
  BY <1>0, <1>11
     DEF SupervisorExit, SupervisorKilled, SupervisorCrash, Die, OrphansAfter, Untouched, Answers
<1>12. ASSUME NEW i \in Jobs, HookArms(i) \/ HookStarts(i) \/ HookExits(i)
       PROVE  Untouched(j)'
  BY <1>0, <1>12 DEF HookArms, HookStarts, HookExits, Untouched, Answers
<1> QED
  BY <1>1, <1>2, <1>3, <1>4, <1>5, <1>6, <1>7, <1>8, <1>9, <1>10, <1>11, <1>12
     DEF Next, Worker, SupervisorProcess, Environment, Done, vars,
         Submit, RequestStop, Wake, LaunchBackpressure, LaunchTooLarge, LaunchBroken, LaunchDone,
         ReceiveDone, ReceiveFailure, ResponseTimeout, Terminate, CallCompletion,
         CompletionsDone, ReapSupervisor, SupervisorHangup, ProgramDies, DeadlinePasses

LEMMA FreshNext ==
  ASSUME IInv, Fresh, [Next]_vars
  PROVE  Fresh'
<1> SUFFICES ASSUME NEW j \in Jobs, j \in Pending' \/ j > Len(kind')
             PROVE  Untouched(j)'
  BY DEF Fresh
<1>1. Untouched(j)
  BY PendingNext DEF Fresh
<1>2. ASSUME j \in Pending, LaunchSent
      PROVE  ~(j > Len(kind'))
  BY <1>2, LenProperties DEF IInv, TypeOK, Partition, LaunchSent
<1> QED
  BY <1>1, <1>2, UntouchedNext

LEMMA LaunchesNext ==
  ASSUME IInv, Fresh, Launches, [Next]_vars
  PROVE  Launches'
<1> USE DEF supervisorVars, socketVars
<1>0. /\ TypeOK /\ Partition
      /\ requests \in Seq(Jobs \union {Stop}) /\ responses \in Seq(Responses)
      /\ outbox \subseteq Responses
      /\ proc \in [Jobs -> ProcStates] /\ kids \subseteq Jobs
      /\ \A j \in Jobs : j # Stop
  <2>1. \A j \in Jobs : j # Stop
    BY OptionsAssumption DEF Jobs, Stop
  <2> QED
    BY <2>1 DEF IInv, TypeOK
<1>t. Sent \subseteq Jobs /\ Answers \subseteq Responses
  BY <1>0, LenProperties, ElementOfSeq DEF Sent, Answers, ToSet
<1>f. \A r \in Responses : r.job \in Jobs
  BY DEF Responses
<1>1. CASE UNCHANGED <<requests, responses, outbox, kids, proc>>
  BY <1>1 DEF Launches, Sent, Answers, ToSet, OnceEach
<1>m. ASSUME requests' = requests \/ (ToSet(requests') = {} /\ OnceEach(requests')),
             Answers' \subseteq Answers, kids' \subseteq kids,
             \A j \in Jobs : \/ proc'[j] = proc[j]
                             \/ proc[j] \notin {"none", "dead"} /\ proc'[j] # "none"
      PROVE  Launches'
  <2>1. OnceEach(requests') /\ Sent' \subseteq Sent
    BY <1>m DEF Launches, Sent, ToSet, OnceEach
  <2>2. \A j \in kids' : proc'[j] # "none"
    BY <1>0, <1>m DEF Launches
  <2>3. \A j \in Sent' : proc'[j] = "none" /\ j \notin kids' /\ \A r \in Answers' : r.job # j
    BY <1>m, <1>t, <2>1 DEF Launches
  <2>4. \A r \in Answers' :
          r.type = Finished => proc'[r.job] \in {"none", "dead"} /\ r.job \notin kids'
    BY <1>m, <1>t, <1>f DEF Launches
  <2> QED
    BY <2>1, <2>2, <2>3, <2>4 DEF Launches
<1>2. ASSUME NEW S, FailSupervisor(S)
      PROVE  Launches'
  <2>1. OnceEach(requests')
    BY <1>0, <1>2, FailSupervisorProcesses DEF OnceEach
  <2> QED
    BY <1>0, <1>2, <1>m, <2>1, FailSupervisorProcesses DEF Answers
<1>3. CASE RestartSupervisor
  BY <1>3 DEF RestartSupervisor, Launches, Sent, Answers, ToSet, OnceEach
<1>4. CASE LaunchSent
  <2>1. PICK next \in NextJob : requests' = Append(requests, next.job)
    BY <1>4 DEF LaunchSent
  <2>2. next.job \in Pending /\ next.job \in Jobs
    BY <1>0, <2>1, NextJobMoves
  <2>3. Untouched(next.job)
    BY <2>2 DEF Fresh
  <2>4. ToSet(requests') = ToSet(requests) \union {next.job} /\ OnceEach(requests')
    BY <1>0, <2>1, <2>2, <2>3, SendElements DEF Launches, Untouched
  <2>5. UNCHANGED <<responses, outbox, kids, proc>> /\ ToSet(responses') = ToSet(responses)
    BY <1>4 DEF LaunchSent
  <2> QED
    BY <2>3, <2>4, <2>5 DEF Launches, Sent, Answers, Untouched
<1>5. CASE ReceiveResponse
  <2>1. ToSet(responses') \subseteq ToSet(responses)
    BY <1>0, <1>5, TailElements DEF ReceiveResponse
  <2>2. Answers' \subseteq Answers /\ UNCHANGED <<requests, kids, proc>>
    BY <1>5, <2>1 DEF ReceiveResponse, Answers
  <2> QED
    BY <1>m, <2>2
<1>6. ASSUME NEW i \in Jobs, ForceKill(i) \/ SupervisorKill(i)
      PROVE  Launches'
  <2>1. \A j \in Jobs : proc'[j] = proc[j] \/ (proc[j] = "leader" /\ proc'[j] = "dead")
    BY <1>0, <1>6 DEF ForceKill, SupervisorKill, KillGroups
  <2>2. Answers' = Answers /\ UNCHANGED <<requests, kids>>
    BY <1>6 DEF ForceKill, SupervisorKill, Answers
  <2> QED
    BY <1>m, <2>1, <2>2
<1>7. CASE StopSupervisor
  <2>1. /\ ToSet(requests') \subseteq ToSet(requests) \union {Stop}
        /\ OnceEach(requests')
    BY <1>0, <1>7, SendElements DEF StopSupervisor, Launches
  <2>2. UNCHANGED <<responses, outbox, kids, proc>> /\ ToSet(responses') = ToSet(responses)
    BY <1>7 DEF StopSupervisor
  <2> QED
    BY <2>1, <2>2 DEF Launches, Sent, Answers
<1>8. CASE SupervisorReceive
  <2> DEFINE h == Head(requests)
  <2>1. /\ ToSet(requests) = ToSet(requests') \union {h}
        /\ OnceEach(requests')
        /\ h # Stop => h \notin ToSet(requests')
        /\ h \in Jobs \union {Stop}
    BY <1>0, <1>8, TailElements DEF SupervisorReceive, Launches
  <2>2. responses' = responses /\ ToSet(responses') = ToSet(responses) /\ outbox = {}
    BY <1>8 DEF SupervisorReceive
  <2>3. CASE UNCHANGED <<kids, outbox, proc>>
    BY <2>1, <2>2, <2>3 DEF Launches, Sent, Answers
  <2>4. h # Stop => h \in Sent
    BY <2>1 DEF Sent
  <2>5. CASE /\ h # Stop /\ proc' = [proc EXCEPT ![h] = "forked"] /\ kids' = kids \union {h}
             /\ Respond(Launched, h)
    <3>1. outbox' = {[type |-> Launched, job |-> h]} /\ Launched # Finished
      BY <2>5 DEF Respond, Launched, Finished
    <3>2. Answers' = Answers \union {[type |-> Launched, job |-> h]}
      BY <2>2, <3>1 DEF Answers
    <3>3. Sent' \subseteq Sent \ {h}
      BY <2>1, <2>5 DEF Sent
    <3>4. \A j \in Jobs : proc'[j] = IF j = h THEN "forked" ELSE proc[j]
      BY <1>0, <2>1, <2>5
    <3>5. \A r \in Answers : r.job # h
      BY <2>4, <2>5 DEF Launches
    <3>6. \A r \in Answers' :
            r.type = Finished => proc'[r.job] \in {"none", "dead"} /\ r.job \notin kids'
      <4> SUFFICES ASSUME NEW r \in Answers', r.type = Finished
                   PROVE  proc'[r.job] \in {"none", "dead"} /\ r.job \notin kids'
        OBVIOUS
      <4>1. r \in Answers
        BY <3>1, <3>2
      <4> QED
        BY <1>t, <1>f, <2>5, <3>4, <3>5, <4>1 DEF Launches
    <3>7. \A j \in Sent' : proc'[j] = "none" /\ j \notin kids' /\ \A r \in Answers' : r.job # j
      BY <1>t, <2>5, <3>2, <3>3, <3>4 DEF Launches
    <3>8. \A j \in kids' : proc'[j] # "none"
      <4>1. kids' = kids \union {h} /\ \A j \in kids : j \in Jobs /\ proc[j] # "none"
        BY <1>0, <2>5 DEF Launches
      <4>2. h \in Jobs
        BY <2>1, <2>5
      <4> QED
        BY <3>4, <4>1, <4>2
    <3> QED
      BY <2>1, <3>6, <3>7, <3>8 DEF Launches
  <2>6. CASE h # Stop /\ UNCHANGED <<kids, proc>> /\ Respond(Finished, h)
    <3>1. outbox' = {[type |-> Finished, job |-> h]}
      BY <2>6 DEF Respond
    <3>2. Answers' = Answers \union {[type |-> Finished, job |-> h]}
      BY <2>2, <3>1 DEF Answers
    <3>3. Sent' \subseteq Sent \ {h}
      BY <2>1, <2>6 DEF Sent
    <3> QED
      BY <2>1, <2>4, <2>6, <3>2, <3>3 DEF Launches
  <2> QED
    BY <1>8, <2>3, <2>5, <2>6 DEF SupervisorReceive
<1>9. CASE SupervisorSend
  <2>1. ToSet(responses') \subseteq ToSet(responses) \union outbox
    <3>1. CASE \E r \in outbox : responses' = Append(responses, r)
      <4>1. PICK r \in outbox : responses' = Append(responses, r)
        BY <3>1
      <4>2. r \in Responses
        BY <1>0 DEF TypeOK
      <4> QED
        BY <1>0, <4>1, <4>2, SendElements
    <3> QED
      BY <1>9, <3>1 DEF SupervisorSend
  <2>2. Answers' \subseteq Answers /\ UNCHANGED <<requests, kids, proc>>
    BY <1>9, <2>1 DEF SupervisorSend, Answers
  <2> QED
    BY <1>m, <2>2
<1>10. ASSUME NEW i \in Jobs, SupervisorReap(i)
       PROVE  Launches'
  <2>1. /\ outbox' = {[type |-> Finished, job |-> i]}
        /\ UNCHANGED <<requests, responses, proc>> /\ kids' = kids \ {i} /\ i \in kids
        /\ proc[i] = "dead"
    BY <1>10 DEF SupervisorReap, Respond
  <2>2. /\ Answers' \subseteq Answers \union {[type |-> Finished, job |-> i]}
        /\ Sent' = Sent
    BY <2>1 DEF Answers, Sent, ToSet
  <2> QED
    BY <2>1, <2>2 DEF Launches
<1>11. CASE SupervisorExit \/ SupervisorKilled \/ SupervisorCrash
  <2>1. \A j \in Jobs : proc'[j] = proc[j] \/ (proc[j] \in {"armed", "leader"} /\ proc'[j] = "dead")
    BY <1>0, <1>11
       DEF SupervisorExit, SupervisorKilled, SupervisorCrash, Die, OrphansAfter
  <2>2. Answers' \subseteq Answers /\ requests' = requests /\ kids' \subseteq kids
    BY <1>11 DEF SupervisorExit, SupervisorKilled, SupervisorCrash, Die, Answers
  <2> QED
    BY <1>m, <2>1, <2>2
<1>12. ASSUME NEW i \in Jobs, HookArms(i) \/ HookStarts(i) \/ HookExits(i)
       PROVE  Launches'
  <2>1. \A j \in Jobs : \/ proc'[j] = proc[j]
                        \/ proc[j] \notin {"none", "dead"} /\ proc'[j] # "none"
    BY <1>0, <1>12 DEF HookArms, HookStarts, HookExits
  <2>2. Answers' = Answers /\ UNCHANGED <<requests, kids>>
    BY <1>12 DEF HookArms, HookStarts, HookExits, Answers
  <2> QED
    BY <1>m, <2>1, <2>2
<1> QED
  BY <1>1, <1>2, <1>3, <1>4, <1>5, <1>6, <1>7, <1>8, <1>9, <1>10, <1>11, <1>12
     DEF Next, Worker, SupervisorProcess, Environment, Done, vars,
         Submit, RequestStop, Wake, LaunchBackpressure, LaunchTooLarge, LaunchBroken, LaunchDone,
         ReceiveDone, ReceiveFailure, ResponseTimeout, Terminate, CallCompletion,
         CompletionsDone, ReapSupervisor, SupervisorHangup, ProgramDies, DeadlinePasses

LEMMA OrphansNext ==
  ASSUME IInv, Launches, Orphans, [Next]_vars
  PROVE  Orphans'
<1> USE DEF supervisorVars, socketVars
<1>0. /\ proc \in [Jobs -> ProcStates] /\ kids \subseteq Jobs
      /\ \A r \in outbox : r.job \in Jobs
  BY DEF IInv, TypeOK, Responses
<1>1. ASSUME \A j \in Jobs : /\ proc'[j] = "armed" => proc[j] = "armed" \/ j \in kids
                             /\ proc'[j] = "leader" => proc[j] \in {"armed", "leader"},
             kids' = kids
      PROVE  \A j \in Jobs : proc'[j] \in {"armed", "leader"} => j \in kids'
  BY <1>1 DEF Orphans
<1>2. \A j \in Jobs : proc'[j] \in {"armed", "leader"} => j \in kids'
  <2>1. CASE UNCHANGED <<proc, kids>>
    BY <2>1 DEF Orphans
  <2>2. ASSUME NEW S, FailSupervisor(S)
        PROVE  \A j \in Jobs : proc'[j] \in {"armed", "leader"} => j \in kids'
    BY <1>0, <2>2 DEF FailSupervisor, KillGroups, Orphans
  <2>3. CASE RestartSupervisor
    BY <2>3 DEF RestartSupervisor, MayRestart, Orphans
  <2>4. ASSUME NEW i \in Jobs, ForceKill(i) \/ SupervisorKill(i)
        PROVE  \A j \in Jobs : proc'[j] \in {"armed", "leader"} => j \in kids'
    BY <1>0, <2>4 DEF ForceKill, SupervisorKill, KillGroups, Orphans
  <2>5. CASE SupervisorReceive
    BY <1>0, <2>5 DEF SupervisorReceive, Orphans
  <2>6. ASSUME NEW i \in Jobs, SupervisorReap(i)
        PROVE  \A j \in Jobs : proc'[j] \in {"armed", "leader"} => j \in kids'
    BY <2>6 DEF SupervisorReap, Orphans
  <2>7. CASE SupervisorExit \/ SupervisorKilled \/ SupervisorCrash
    BY <1>0, <2>7
       DEF SupervisorExit, SupervisorKilled, SupervisorCrash, Die, OrphansAfter, Orphans
  <2>8. ASSUME NEW i \in Jobs, HookArms(i) \/ HookStarts(i) \/ HookExits(i)
        PROVE  \A j \in Jobs : proc'[j] \in {"armed", "leader"} => j \in kids'
    BY <1>0, <2>8 DEF HookArms, HookStarts, HookExits, Orphans
  <2> QED
    BY <2>1, <2>2, <2>3, <2>4, <2>5, <2>6, <2>7, <2>8
       DEF Next, Worker, SupervisorProcess, Environment, Done, vars,
           Submit, RequestStop, Wake, LaunchSent, LaunchBackpressure, LaunchTooLarge,
           LaunchBroken, LaunchDone, ReceiveResponse, ReceiveDone, ReceiveFailure,
           ResponseTimeout, Terminate, CallCompletion, CompletionsDone, StopSupervisor,
           ReapSupervisor, SupervisorHangup, SupervisorSend, ProgramDies, DeadlinePasses
<1>3. supervisor' \in {"zombie", "gone"} => kids' = {}
  <2>1. CASE UNCHANGED <<supervisor, kids>>
    BY <2>1 DEF Orphans
  <2>2. ASSUME NEW S, FailSupervisor(S)
        PROVE  supervisor' \in {"zombie", "gone"} => kids' = {}
    BY <2>2 DEF FailSupervisor, Orphans
  <2> QED
    BY <2>1, <2>2
       DEF Next, Worker, SupervisorProcess, Environment, Done, vars, Orphans, SupervisorExited,
           SupervisorAlive, Die, Submit, RequestStop, RestartSupervisor, Wake, LaunchSent,
           LaunchBackpressure, LaunchTooLarge, LaunchBroken, LaunchDone, ReceiveResponse,
           ReceiveDone, ReceiveFailure, ResponseTimeout, Terminate, ForceKill, CallCompletion,
           CompletionsDone, StopSupervisor, ReapSupervisor, SupervisorReceive,
           SupervisorHangup, SupervisorSend, SupervisorReap, SupervisorKill, SupervisorExit,
           SupervisorKilled, SupervisorCrash, ProgramDies, HookArms, HookStarts, HookExits,
           DeadlinePasses
<1>4. pc' = "joined" => supervisor' = "gone"
  BY DEF Next, Worker, SupervisorProcess, Environment, Done, vars, Orphans, SupervisorAlive, Die,
         MayLaunch, MayExit, CompletionsTurn, Submit, RequestStop, RestartSupervisor, Wake,
         LaunchSent, LaunchBackpressure, LaunchTooLarge, LaunchBroken, LaunchDone,
         ReceiveResponse, ReceiveDone, ReceiveFailure, ResponseTimeout, Terminate, ForceKill,
         CallCompletion, CompletionsDone, StopSupervisor, ReapSupervisor, SupervisorReceive,
         SupervisorHangup, SupervisorSend, SupervisorReap, SupervisorKill, SupervisorExit,
         SupervisorKilled, SupervisorCrash, ProgramDies, HookArms, HookStarts, HookExits,
         DeadlinePasses
<1> QED
  BY <1>2, <1>3, <1>4 DEF Orphans

(* The key of a submitted hook does not change.                            *)
LEMMA KeysStay ==
  ASSUME IInv, [Next]_vars
  PROVE  /\ Len(kind) \in Nat /\ Len(kind') \in Nat /\ Len(kind') >= Len(kind)
         /\ \A j \in 1..Len(kind) : kind'[j] = kind[j]
<1>1. kind \in Seq(Kinds) /\ Len(kind) \in Nat
  BY LenProperties DEF IInv, TypeOK
<1>2. CASE kind' = kind
  BY <1>1, <1>2
<1>3. ASSUME NEW k \in Kinds, kind' = Append(kind, k)
      PROVE  /\ Len(kind') = Len(kind) + 1
             /\ \A j \in 1..Len(kind) : kind'[j] = kind[j]
  BY <1>1, <1>3, AppendProperties
<1>4. kind' = kind \/ \E k \in Kinds : kind' = Append(kind, k)
  BY DEF Next, Worker, SupervisorProcess, Environment, Done, vars, queueVars, Die, Enqueue,
         Refuse, Submit, RequestStop, RestartSupervisor, Wake,
         LaunchSent, LaunchBackpressure, LaunchTooLarge, LaunchBroken, LaunchDone,
         ReceiveResponse, ReceiveDone, ReceiveFailure, ResponseTimeout, Terminate, ForceKill,
         CallCompletion, CompletionsDone, StopSupervisor, ReapSupervisor, SupervisorReceive,
         SupervisorHangup, SupervisorSend, SupervisorReap, SupervisorKill, SupervisorExit,
         SupervisorKilled, SupervisorCrash, ProgramDies, HookArms, HookStarts, HookExits,
         DeadlinePasses
<1> QED
  BY <1>1, <1>2, <1>3, <1>4

LEMMA SerialNext ==
  ASSUME IInv, ProcessInv, [Next]_vars
  PROVE  Serial'
<1> USE DEF supervisorVars, socketVars, tableVars
<1>0. /\ TypeOK /\ Partition /\ Fresh /\ Launches /\ Orphans /\ Serial
      /\ requests \in Seq(Jobs \union {Stop}) /\ responses \in Seq(Responses)
      /\ proc \in [Jobs -> ProcStates] /\ kids \subseteq Jobs
      /\ child \in [Jobs -> Stages \union {"none"}]
  BY DEF IInv, TypeOK, ProcessInv
<1>t. /\ Sent \subseteq Jobs /\ Children \subseteq Jobs /\ LiveKids \subseteq Jobs
      /\ \A r \in Responses : r.job \in Jobs
  BY <1>0, LenProperties, ElementOfSeq DEF Sent, ToSet, Children, LiveKids, Responses
<1>o. Occupied \subseteq 1..Len(kind)
  <2> SUFFICES ASSUME NEW j \in Occupied
               PROVE  j \in 1..Len(kind)
    OBVIOUS
  <2>1. j \in Jobs /\ (j \in Children \/ ~Untouched(j))
    BY <1>t DEF Occupied, Sent, LiveKids, Untouched
  <2>2. CASE j \in Children
    BY <1>0, <2>2 DEF Partition
  <2>3. CASE ~(j > Len(kind))
    BY <2>1, <2>3, KeysStay DEF Jobs
  <2> QED
    BY <1>0, <2>1, <2>2, <2>3 DEF Fresh
<1>k. \A i, j \in Occupied : SameSerialKey(i, j)' <=> SameSerialKey(i, j)
  BY <1>o, KeysStay DEF SameSerialKey
<1>m. ASSUME Occupied' \subseteq Occupied, ~failed' => Sent' \union LiveKids' \subseteq Children'
      PROVE  Serial'
  BY <1>0, <1>k, <1>m DEF Serial
<1>s. ASSUME UNCHANGED <<requests, kids, failed>>, Children' = Children,
             \A j \in Jobs : proc[j] = "dead" => proc'[j] = "dead"
      PROVE  Serial'
  <2>1. Sent' = Sent /\ LiveKids' \subseteq LiveKids
    BY <1>0, <1>s DEF Sent, LiveKids, ToSet
  <2> QED
    BY <1>0, <1>m, <1>s, <2>1 DEF Serial, Occupied
<1>1. CASE UNCHANGED <<requests, kids, failed, child, proc>>
  <2>1. Children' = Children
    BY <1>1 DEF Children
  <2> QED
    BY <1>1, <1>s, <2>1
<1>2. ASSUME NEW S, FailSupervisor(S)
      PROVE  Serial'
  <2>1. Children' = {} /\ failed' = TRUE
    BY <1>2 DEF FailSupervisor, Children
  <2>2. Sent' = {} /\ LiveKids' \subseteq LiveKids
    BY <1>0, <1>2, FailSupervisorProcesses DEF Sent, LiveKids
  <2> QED
    BY <1>m, <2>1, <2>2 DEF Occupied
<1>3. CASE RestartSupervisor
  <2>1. Sent' = {} /\ LiveKids' = {} /\ Children' = Children
    BY <1>3 DEF RestartSupervisor, Sent, LiveKids, ToSet, Children
  <2> QED
    BY <1>m, <2>1 DEF Occupied
<1>4. CASE LaunchSent
  <2>1. PICK next \in NextJob : /\ criticalJobs' = next.critical
                               /\ normalJobs' = next.normal
                               /\ requests' = Append(requests, next.job)
                               /\ child' = [child EXCEPT ![next.job] = "launching"]
    BY <1>4 DEF LaunchSent
  <2> DEFINE j == next.job
  <2>2. j \in Pending /\ j \in Jobs /\ j \notin Children /\ j \in Runnable
    <3>1. next.job \in Pending /\ next.job \in Jobs
      BY <1>0, NextJobMoves
    <3>2. next.job \in Runnable
      BY <1>0, NextJobChoice
    <3> QED
      BY <1>0, <3>1, <3>2 DEF Partition
  <2>3. /\ Children' = Children \union {j}
        /\ Sent' \subseteq Sent \union {j}
        /\ LiveKids' = LiveKids
    <3>1. Children' = Children \union {j}
      BY <1>0, <2>1, <2>2, ChildEnters
    <3>2. ToSet(requests') = ToSet(requests) \union {j}
      BY <1>0, <2>1, <2>2, SendElements
    <3> QED
      BY <1>4, <3>1, <3>2 DEF LaunchSent, Sent, LiveKids
  <2>4. failed' = failed /\ ~failed /\ kind' = kind
    BY <1>4 DEF LaunchSent, MayLaunch
  <2>5. Occupied = Children /\ Occupied' \subseteq Children \union {j}
    BY <1>0, <2>3, <2>4 DEF Occupied, Serial
  <2>6. \A i \in Children : ~SameSerialKey(i, j) /\ ~SameSerialKey(j, i)
    BY <2>2 DEF Runnable, SameSerialKey
  <2>7. \A i, h \in Occupied' : i # h => ~SameSerialKey(i, h)
    BY <1>0, <2>5, <2>6 DEF Serial
  <2>8. \A i, h \in Occupied' : SameSerialKey(i, h)' <=> SameSerialKey(i, h)
    BY <2>4 DEF SameSerialKey
  <2> QED
    BY <1>0, <2>3, <2>4, <2>5, <2>7, <2>8 DEF Serial, Occupied
<1>5. CASE ReceiveResponse
  <2> DEFINE r == Head(responses)
  <2>1. r \in Answers /\ r \in Responses /\ r.job \in Jobs
    <3>1. Head(responses) \in ToSet(responses) /\ Head(responses) \in Responses
      BY <1>0, <1>5, TailElements DEF ReceiveResponse
    <3> QED
      BY <1>t, <3>1 DEF Answers
  <2>2. UNCHANGED <<requests, kids, failed, proc>>
    BY <1>5 DEF ReceiveResponse
  <2>3. CASE child' = child
    BY <1>1, <2>2, <2>3
  <2>4. CASE r.job \in Children /\ child' = [child EXCEPT ![r.job] = "running"]
    <3>1. Children' = Children
      BY <1>0, <2>4, ChildMoves DEF Stages
    <3> QED
      BY <1>s, <2>2, <3>1
  <2>5. CASE r.type = Finished /\ child' = [child EXCEPT ![r.job] = "none"]
    <3>1. Children' = Children \ {r.job}
      BY <1>0, <2>1, <2>5 DEF Children
    <3>2. r.job \notin Sent /\ r.job \notin LiveKids
      BY <1>0, <2>1, <2>5 DEF Launches, LiveKids
    <3>3. Sent' = Sent /\ LiveKids' = LiveKids
      BY <2>2 DEF Sent, LiveKids, ToSet
    <3> QED
      BY <1>0, <1>m, <2>2, <3>1, <3>2, <3>3 DEF Serial, Occupied
  <2>6. child[r.job] # "none" => r.job \in Children
    BY <2>1 DEF Children
  <2>7. r.type = Launched \/ r.type = Finished
    BY <2>1 DEF Responses
  <2> QED
    BY <1>5, <2>3, <2>4, <2>5, <2>6, <2>7 DEF ReceiveResponse
<1>6. CASE RequestStop
  <2>1. Children' = Children
    BY <1>0, <1>6 DEF RequestStop, Children
  <2> QED
    BY <1>6, <1>s, <2>1 DEF RequestStop
<1>7. ASSUME NEW i \in Jobs, Terminate(i) \/ ForceKill(i)
      PROVE  Serial'
  <2>1. i \in Children /\ (\/ child' = [child EXCEPT ![i] = "terminating"]
                           \/ child' = [child EXCEPT ![i] = "killing"])
    BY <1>7 DEF Terminate, ForceKill, MustTerminate, MustKill, Children
  <2>2. Children' = Children
    BY <1>0, <2>1, ChildMoves DEF Stages
  <2>3. \A j \in Jobs : proc[j] = "dead" => proc'[j] = "dead"
    BY <1>0, <1>7 DEF Terminate, ForceKill, KillGroups
  <2> QED
    BY <1>7, <1>s, <2>2, <2>3 DEF Terminate, ForceKill
<1>8. CASE StopSupervisor
  <2>1. Sent' \subseteq Sent
    <3>1. ToSet(requests') \subseteq ToSet(requests) \union {Stop}
      BY <1>0, <1>8, SendElements DEF StopSupervisor
    <3> QED
      BY <3>1 DEF Sent
  <2>2. LiveKids' = LiveKids /\ Children' = Children /\ failed' = failed
    BY <1>8 DEF StopSupervisor, LiveKids, Children
  <2> QED
    BY <1>0, <1>m, <2>1, <2>2 DEF Serial, Occupied
<1>9. CASE SupervisorReceive
  <2> DEFINE h == Head(requests)
  <2>1. ToSet(requests) = ToSet(requests') \union {h}
    BY <1>0, <1>9, TailElements DEF SupervisorReceive
  <2>2. Sent' \subseteq Sent /\ (h # Stop => h \in Sent)
    BY <2>1 DEF Sent
  <2>3. LiveKids' \subseteq LiveKids \/ (h \in Sent /\ LiveKids' \subseteq LiveKids \union {h})
    BY <1>0, <1>9, <2>2 DEF SupervisorReceive, LiveKids
  <2>4. failed' = failed /\ Children' = Children
    BY <1>9 DEF SupervisorReceive, Children
  <2> QED
    BY <1>0, <1>m, <2>2, <2>3, <2>4 DEF Serial, Occupied
<1>10. ASSUME NEW i \in Jobs, SupervisorReap(i) \/ SupervisorKill(i)
       PROVE  Serial'
  <2>1. LiveKids' \subseteq LiveKids
    BY <1>0, <1>10 DEF SupervisorReap, SupervisorKill, KillGroups, LiveKids
  <2>2. failed' = failed /\ Children' = Children /\ Sent' = Sent
    BY <1>10 DEF SupervisorReap, SupervisorKill, Children, Sent, ToSet
  <2> QED
    BY <1>0, <1>m, <2>1, <2>2 DEF Serial, Occupied
<1>11. CASE SupervisorExit \/ SupervisorKilled \/ SupervisorCrash
  <2>1. LiveKids' = {}
    BY <1>11 DEF SupervisorExit, SupervisorKilled, SupervisorCrash, Die, LiveKids
  <2>2. failed' = failed /\ Children' = Children /\ Sent' = Sent
    BY <1>11 DEF SupervisorExit, SupervisorKilled, SupervisorCrash, Die, Children, Sent, ToSet
  <2> QED
    BY <1>0, <1>m, <2>1, <2>2 DEF Serial, Occupied
<1>12. ASSUME NEW i \in Jobs, HookArms(i) \/ HookStarts(i) \/ HookExits(i)
       PROVE  Serial'
  <2>1. Children' = Children
    BY <1>12 DEF HookArms, HookStarts, HookExits, Children
  <2>2. \A j \in Jobs : proc[j] = "dead" => proc'[j] = "dead"
    BY <1>0, <1>12 DEF HookArms, HookStarts, HookExits
  <2> QED
    BY <1>12, <1>s, <2>1, <2>2 DEF HookArms, HookStarts, HookExits
<1> QED
  BY <1>1, <1>2, <1>3, <1>4, <1>5, <1>6, <1>7, <1>8, <1>9, <1>10, <1>11, <1>12
     DEF Next, Worker, SupervisorProcess, Environment, Done, vars,
         Submit, Wake, LaunchBackpressure, LaunchTooLarge, LaunchBroken, LaunchDone,
         ReceiveDone, ReceiveFailure, ResponseTimeout, CallCompletion,
         CompletionsDone, ReapSupervisor, SupervisorHangup, SupervisorSend, ProgramDies,
         DeadlinePasses

LEMMA ProcessInit ==
  ASSUME Init
  PROVE  ProcessInv
<1>1. /\ ToSet(requests) = {} /\ ToSet(responses) = {} /\ DOMAIN requests = {}
      /\ Pending = {} /\ Children = {}
  BY DEF Init, ToSet, Pending, Children
<1>2. Fresh
  BY <1>1 DEF Init, Fresh, Untouched, Answers
<1>3. Launches
  BY <1>1 DEF Init, Launches, OnceEach, Sent, Answers
<1>4. Orphans
  BY DEF Init, Orphans
<1>5. Serial
  BY <1>1 DEF Init, Serial, Occupied, Sent, LiveKids
<1> QED
  BY <1>2, <1>3, <1>4, <1>5 DEF ProcessInv

(* ProcessInv is an invariant: what the supervisor and the processes of    *)
(* the hooks are at any moment, also after a crash of either.              *)
THEOREM ProcessInvariance == Spec => [](IInv /\ ProcessInv)
<1>1. Init => ProcessInv
  BY ProcessInit
<1>2. IInv /\ ProcessInv /\ [Next]_vars => ProcessInv'
  BY FreshNext, LaunchesNext, OrphansNext, SerialNext DEF ProcessInv
<1> QED
  BY <1>1, <1>2, Invariance, PTL DEF Spec

(* Two hooks of one serial key never run side by side, also not as         *)
(* processes that a failed supervisor has left behind.                     *)
THEOREM NeverSideBySide == Spec => []SerialProcesses
<1>1. IInv /\ ProcessInv => SerialProcesses
  <2> SUFFICES ASSUME IInv, ProcessInv, NEW i \in 1..Len(kind), NEW j \in 1..Len(kind),
                      i # j, SameSerialKey(i, j), proc[i] = "leader", proc[j] = "leader"
               PROVE  FALSE
    BY DEF SerialProcesses
  <2>1. i \in Jobs /\ j \in Jobs
    BY OptionsAssumption, LenProperties DEF IInv, TypeOK, Jobs
  <2>2. i \in LiveKids /\ j \in LiveKids
    BY <2>1 DEF ProcessInv, Orphans, LiveKids
  <2> QED
    BY <2>2 DEF ProcessInv, Serial, Occupied
<1> QED
  BY <1>1, ProcessInvariance, PTL

(* When stop() has returned no process of a hook runs or will ever run,    *)
(* whatever the supervisor did and whenever it died.                       *)
THEOREM StopLeavesNothingBehind == Spec => []StopLeavesNoHook
<1>1. ProcessInv => StopLeavesNoHook
  BY DEF ProcessInv, Orphans, StopLeavesNoHook
<1> QED
  BY <1>1, ProcessInvariance, PTL
-----------------------------------------------------------------------------
(* In which order hooks start                                              *)

Started(j) == j \in Children \/ ~Untouched(j)

SameKey(K, i, j) ==
  /\ SerialKey[K[i]] = SerialKey[K[j]]
  /\ SerialKey[K[i]] # NoKey

(* The queue of critical hooks holds the hooks of one serial key in the    *)
(* order of their submission.                                              *)
Sorted(K, q) ==
  \A a, b \in DOMAIN q : a < b /\ SameKey(K, q[a], q[b]) => q[a] < q[b]

(* A hook waits in the queue of its priority, and no critical one has been *)
(* overtaken.                                                              *)
OrderInv ==
  /\ \A j \in ToSet(criticalJobs) : kind[j] \in Critical
  /\ \A j \in ToSet(normalJobs) : kind[j] \notin Critical
  /\ Sorted(kind, criticalJobs)
  /\ \A i, j \in 1..Len(kind) :
       /\ i < j
       /\ {kind[i], kind[j]} \subseteq Critical
       /\ SameSerialKey(i, j)
       /\ Started(j)
       => i \notin Pending

(* Only the keys of the hooks that wait matter.                            *)
LEMMA SortedStays ==
  ASSUME NEW K, NEW q \in Seq(Jobs), NEW M, Sorted(K, q), \A j \in ToSet(q) : M[j] = K[j]
  PROVE  Sorted(M, q)
BY DEF Sorted, SameKey, ToSet

LEMMA SortedWithout ==
  ASSUME NEW K, NEW q \in Seq(Jobs), NEW i \in 1..Len(q), Sorted(K, q)
  PROVE  Sorted(K, RemoveAt(q, i))
<1> DEFINE r == RemoveAt(q, i)
<1>1. /\ r \in Seq(Jobs)
      /\ Len(r) = Len(q) - 1
      /\ \A k \in 1..(Len(q) - 1) : r[k] = IF k < i THEN q[k] ELSE q[k + 1]
  BY RemoveAtIndex
<1> HIDE DEF r
<1>2. /\ Len(q) \in Nat
      /\ DOMAIN q = 1..Len(q)
      /\ DOMAIN r = 1..(Len(q) - 1)
  BY <1>1, LenProperties
<1> SUFFICES ASSUME NEW a \in 1..(Len(q) - 1), NEW b \in 1..(Len(q) - 1), a < b,
                    SameKey(K, r[a], r[b])
             PROVE  r[a] < r[b]
  BY <1>2 DEF Sorted, r
<1> DEFINE at(k) == IF k < i THEN k ELSE k + 1
<1>3. at(a) \in 1..Len(q) /\ at(b) \in 1..Len(q) /\ at(a) < at(b)
  BY <1>2
<1>4. r[a] = q[at(a)] /\ r[b] = q[at(b)]
  BY <1>1
<1> HIDE DEF at
<1> QED
  BY <1>2, <1>3, <1>4 DEF Sorted

(* coalesce_pending and evict_coalescible_job only ever remove.            *)
LEMMA QueueWithoutMembers ==
  ASSUME NEW q \in Seq(Jobs), NEW S
  PROVE  /\ QueueWithout(q, S) \in Seq(Jobs)
         /\ ToSet(QueueWithout(q, S)) \subseteq ToSet(q)
<1>1. CASE First(q, S) = {}
  BY <1>1 DEF QueueWithout
<1>2. CASE First(q, S) # {}
  <2>1. PICK i \in 1..Len(q) : QueueWithout(q, S) = RemoveAt(q, i)
    BY <1>2, FirstUnique DEF QueueWithout
  <2> DEFINE r == RemoveAt(q, i)
  <2>2. /\ r \in Seq(Jobs)
        /\ Len(r) = Len(q) - 1
        /\ \A k \in 1..(Len(q) - 1) : r[k] = IF k < i THEN q[k] ELSE q[k + 1]
    BY RemoveAtIndex
  <2> HIDE DEF r
  <2>3. /\ Len(q) \in Nat
        /\ DOMAIN q = 1..Len(q)
        /\ DOMAIN r = 1..(Len(q) - 1)
    BY <2>2, LenProperties
  <2>4. \A k \in 1..(Len(q) - 1) : \E h \in 1..Len(q) : r[k] = q[h]
    BY <2>2, <2>3
  <2>5. ToSet(r) \subseteq ToSet(q)
    BY <2>3, <2>4 DEF ToSet
  <2> QED
    BY <2>1, <2>2, <2>5 DEF r
<1> QED
  BY <1>1, <1>2

LEMMA QueueWithoutSorted ==
  ASSUME NEW K, NEW q \in Seq(Jobs), Sorted(K, q), NEW S
  PROVE  Sorted(K, QueueWithout(q, S))
<1>1. CASE First(q, S) = {}
  BY <1>1 DEF QueueWithout
<1>2. CASE First(q, S) # {}
  <2>1. PICK i \in 1..Len(q) : QueueWithout(q, S) = RemoveAt(q, i)
    BY <1>2, FirstUnique DEF QueueWithout
  <2> QED
    BY <2>1, SortedWithout
<1> QED
  BY <1>1, <1>2

LEMMA SortedAppend ==
  ASSUME NEW K, NEW q \in Seq(Jobs), NEW j \in Jobs, Sorted(K, q), \A i \in ToSet(q) : i < j
  PROVE  Sorted(K, Append(q, j))
<1> DEFINE r == Append(q, j)
<1>1. /\ r \in Seq(Jobs)
      /\ Len(r) = Len(q) + 1
      /\ \A k \in 1..Len(q) : r[k] = q[k]
      /\ r[Len(q) + 1] = j
  BY AppendProperties
<1> HIDE DEF r
<1>2. /\ Len(q) \in Nat
      /\ DOMAIN q = 1..Len(q)
      /\ DOMAIN r = 1..(Len(q) + 1)
  BY <1>1, LenProperties
<1> SUFFICES ASSUME NEW a \in 1..(Len(q) + 1), NEW b \in 1..(Len(q) + 1), a < b,
                    SameKey(K, r[a], r[b])
             PROVE  r[a] < r[b]
  BY <1>2 DEF Sorted, r
<1>3. a \in 1..Len(q) /\ r[a] = q[a] /\ q[a] \in ToSet(q)
  BY <1>1, <1>2 DEF ToSet
<1>4. CASE b = Len(q) + 1
  BY <1>1, <1>3, <1>4
<1>5. CASE b \in 1..Len(q)
  BY <1>1, <1>2, <1>3, <1>5 DEF Sorted
<1> QED
  BY <1>2, <1>4, <1>5

LEMMA SortedPrepend ==
  ASSUME NEW K, NEW q \in Seq(Jobs), NEW j \in Jobs, Sorted(K, q),
         \A i \in ToSet(q) : SameKey(K, j, i) => j < i
  PROVE  Sorted(K, <<j>> \o q)
<1> DEFINE r == <<j>> \o q
<1>1. <<j>> \in Seq(Jobs) /\ Len(<<j>>) = 1 /\ <<j>>[1] = j
  OBVIOUS
<1>2. /\ r \in Seq(Jobs)
      /\ Len(r) = Len(<<j>>) + Len(q)
      /\ \A k \in 1..(Len(<<j>>) + Len(q)) :
           r[k] = IF k <= Len(<<j>>) THEN <<j>>[k] ELSE q[k - Len(<<j>>)]
  BY <1>1, ConcatProperties
<1> HIDE DEF r
<1>3. /\ Len(q) \in Nat
      /\ DOMAIN q = 1..Len(q)
      /\ DOMAIN r = 1..(Len(q) + 1)
  BY <1>1, <1>2, LenProperties
<1>4. r[1] = j /\ \A k \in 1..(Len(q) + 1) : k > 1 => k - 1 \in 1..Len(q) /\ r[k] = q[k - 1]
  BY <1>1, <1>2, <1>3
<1> SUFFICES ASSUME NEW a \in 1..(Len(q) + 1), NEW b \in 1..(Len(q) + 1), a < b,
                    SameKey(K, r[a], r[b])
             PROVE  r[a] < r[b]
  BY <1>3 DEF Sorted, r
<1>5. b - 1 \in 1..Len(q) /\ r[b] = q[b - 1] /\ q[b - 1] \in ToSet(q)
  BY <1>3, <1>4 DEF ToSet
<1>6. CASE a = 1
  BY <1>4, <1>5, <1>6
<1>7. CASE a > 1
  <2>1. a - 1 \in 1..Len(q) /\ r[a] = q[a - 1] /\ a - 1 < b - 1
    BY <1>3, <1>4, <1>7
  <2> QED
    BY <1>3, <1>5, <2>1 DEF Sorted
<1> QED
  BY <1>6, <1>7

(* The hook that is popped was submitted before the critical ones of its   *)
(* serial key that wait behind it.                                         *)
LEMMA PoppedFirst ==
  ASSUME IInv, OrderInv, NEW next \in NextJob, NEW i \in Pending, i # next.job,
         kind[i] \in Critical, kind[next.job] \in Critical,
         SameSerialKey(i, next.job) \/ SameSerialKey(next.job, i)
  PROVE  next.job < i
<1>0. /\ TypeOK /\ Partition
      /\ Len(criticalJobs) \in Nat /\ DOMAIN criticalJobs = 1..Len(criticalJobs)
      /\ Len(normalJobs) \in Nat /\ DOMAIN normalJobs = 1..Len(normalJobs)
  BY LenProperties DEF IInv, TypeOK
<1>1. SameSerialKey(next.job, i) /\ (next.job \in Runnable => i \in Runnable)
  BY <1>0 DEF SameSerialKey, Runnable, Partition
<1>2. PICK p \in 1..Len(criticalJobs) :
        next.job = criticalJobs[p] /\ \A h \in 1..(p - 1) : criticalJobs[h] \notin Runnable
  <2>1. \A k \in 1..Len(normalJobs) : next.job # normalJobs[k]
    BY <1>0 DEF OrderInv, ToSet
  <2> QED
    BY <1>0, <2>1, NextJobChoice
<1>3. PICK a \in 1..Len(criticalJobs) : i = criticalJobs[a]
  BY <1>0 DEF OrderInv, Pending, ToSet
<1>4. ~(a < p)
  <2>1. a < p => a \in 1..(p - 1)
    BY <1>0
  <2> QED
    BY <1>0, <1>1, <1>2, <1>3, <2>1, NextJobChoice
<1>5. p < a
  BY <1>0, <1>2, <1>3, <1>4
<1> QED
  BY <1>0, <1>1, <1>2, <1>3, <1>5 DEF OrderInv, Sorted, SameKey, SameSerialKey

(* A hook starts by being popped from its queue.                           *)
LEMMA StartedNext ==
  ASSUME IInv, [Next]_vars, NEW j \in Jobs, Started(j)'
  PROVE  Started(j) \/ (LaunchSent /\ j \in Pending /\ j \notin Pending')
<1>0. TypeOK /\ Partition /\ child \in [Jobs -> Stages \union {"none"}]
  BY DEF IInv, TypeOK
<1>1. CASE ~Untouched(j)'
  BY <1>1, UntouchedNext DEF Started
<1>2. CASE j \in Children'
  <2>1. CASE Children' \subseteq Children
    BY <1>2, <2>1 DEF Started
  <2>2. CASE LaunchSent
    <3>1. PICK next \in NextJob : /\ criticalJobs' = next.critical
                                 /\ normalJobs' = next.normal
                                 /\ child' = [child EXCEPT ![next.job] = "launching"]
      BY <2>2 DEF LaunchSent
    <3>2. /\ next.job \in Pending /\ next.job \in Jobs
          /\ Pending' = Pending \ {next.job}
      BY <1>0, <3>1, NextJobMoves DEF Pending
    <3>3. Children' \subseteq Children \union {next.job}
      BY <1>0, <3>1, <3>2 DEF Children
    <3> QED
      BY <1>2, <2>2, <3>2, <3>3 DEF Started
  <2>3. CASE child' = child
    BY <1>2, <2>3 DEF Children, Started
  <2>4. CASE RequestStop
    BY <1>0, <1>2, <2>4 DEF RequestStop, Children, Started
  <2>5. ASSUME NEW S, FailSupervisor(S)
        PROVE  Children' \subseteq Children
    BY <2>5 DEF FailSupervisor, Children
  <2>6. CASE ReceiveResponse
    BY <1>0, <1>2, <2>6 DEF ReceiveResponse, tableVars, Children, Started
  <2>7. ASSUME NEW i \in Jobs, Terminate(i) \/ ForceKill(i)
        PROVE  Children' \subseteq Children
    BY <1>0, <2>7 DEF Terminate, ForceKill, MustTerminate, MustKill, Children
  <2> QED
    BY <2>1, <2>2, <2>3, <2>4, <2>5, <2>6, <2>7
       DEF Next, Worker, SupervisorProcess, Environment, Done, vars, tableVars, Die,
           Submit, RestartSupervisor, Wake, LaunchBackpressure, LaunchTooLarge, LaunchBroken,
           LaunchDone, ReceiveDone, ReceiveFailure, ResponseTimeout, CallCompletion,
           CompletionsDone, StopSupervisor, ReapSupervisor, SupervisorReceive,
           SupervisorHangup, SupervisorSend, SupervisorReap, SupervisorKill, SupervisorExit,
           SupervisorKilled, SupervisorCrash, ProgramDies, HookArms, HookStarts, HookExits,
           DeadlinePasses
<1> QED
  BY <1>1, <1>2 DEF Started

LEMMA OrderNext ==
  ASSUME IInv, Fresh, OrderInv, [Next]_vars
  PROVE  OrderInv'
<1>0. /\ TypeOK /\ Partition
      /\ criticalJobs \in Seq(Jobs) /\ normalJobs \in Seq(Jobs)
      /\ kind \in Seq(Kinds) /\ Len(kind) \in Nat
      /\ Pending \subseteq 1..Len(kind) /\ 1..Len(kind) \subseteq Jobs
      /\ ToSet(criticalJobs) \subseteq Pending /\ ToSet(normalJobs) \subseteq Pending
  <2>1. 1..Len(kind) \subseteq Jobs
    BY OptionsAssumption, LenProperties DEF IInv, TypeOK, Jobs
  <2>2. ToSet(criticalJobs) \subseteq Pending /\ ToSet(normalJobs) \subseteq Pending
    BY DEF Pending
  <2> QED
    BY <2>1, <2>2, LenProperties DEF IInv, TypeOK, Partition
<1>k. /\ Len(kind') \in Nat /\ Len(kind') >= Len(kind)
      /\ \A j \in 1..Len(kind) : kind'[j] = kind[j]
      /\ \A i, j \in 1..Len(kind) : SameSerialKey(i, j)' <=> SameSerialKey(i, j)
  BY KeysStay DEF SameSerialKey
<1>1. \A i, j \in 1..Len(kind') :
        /\ i < j
        /\ {kind'[i], kind'[j]} \subseteq Critical
        /\ SameSerialKey(i, j)'
        /\ Started(j)'
        => i \notin Pending'
  <2> SUFFICES ASSUME NEW i \in 1..Len(kind'), NEW j \in 1..Len(kind'), i < j,
                      kind'[i] \in Critical, kind'[j] \in Critical,
                      SameSerialKey(i, j)', Started(j)', i \in Pending'
               PROVE  FALSE
    OBVIOUS
  <2>1. j \in Jobs /\ i \in Jobs
    <3>1. kind' \in Seq(Kinds) /\ Len(kind') <= MaxJobs
      BY TypeNext DEF IInv, TypeOK
    <3> QED
      BY <1>k, <3>1, OptionsAssumption DEF Jobs
  <2>2. j \in 1..Len(kind) /\ i \in 1..Len(kind)
    <3>1. Started(j) \/ j \in Pending
      BY <2>1, StartedNext
    <3>2. ~(j > Len(kind))
      BY <1>0, <2>1, <3>1 DEF Started, Fresh, Partition
    <3> QED
      BY <1>0, <1>k, <3>2
  <2>3. i \in Pending
    BY <1>0, <2>1, <2>2, PendingNext
  <2>4. /\ SameSerialKey(i, j) /\ kind[i] \in Critical /\ kind[j] \in Critical
    BY <1>k, <2>2
  <2>5. LaunchSent /\ j \in Pending /\ j \notin Pending'
    BY <2>1, <2>2, <2>3, <2>4, StartedNext DEF OrderInv
  <2>6. PICK next \in NextJob : /\ criticalJobs' = next.critical
                               /\ normalJobs' = next.normal
    BY <2>5 DEF LaunchSent
  <2>7. Pending' = Pending \ {next.job}
    BY <1>0, <2>6, NextJobMoves DEF Pending
  <2>8. j = next.job
    BY <2>5, <2>7
  <2>9. j < i
    BY <2>3, <2>4, <2>5, <2>6, <2>7, <2>8, PoppedFirst
  <2> QED
    BY <1>0, <2>2, <2>9
<1> DEFINE Queues(K, c, n) == /\ \A j \in ToSet(c) : K[j] \in Critical
                              /\ \A j \in ToSet(n) : K[j] \notin Critical
                              /\ Sorted(K, c)
<1>g. Queues(kind', criticalJobs', normalJobs') => OrderInv'
  BY <1>1 DEF OrderInv
<1>i. Queues(kind, criticalJobs, normalJobs)
  BY DEF OrderInv
<1>m. ASSUME NEW c \in Seq(Jobs), NEW n, Queues(kind, c, n),
             ToSet(c) \subseteq Pending, ToSet(n) \subseteq Pending
      PROVE  Queues(kind', c, n)
  <2>1. \A j \in ToSet(c) \union ToSet(n) : kind'[j] = kind[j]
    BY <1>0, <1>k, <1>m
  <2> QED
    BY <1>m, <2>1, SortedStays
<1> HIDE DEF Queues
<1>2. CASE UNCHANGED <<criticalJobs, normalJobs>>
  BY <1>0, <1>g, <1>i, <1>m, <1>2
<1>3. ASSUME NEW k \in Kinds, Submit(k)
      PROVE  OrderInv'
  <2>1. CASE Refuse(k)
    BY <1>2, <2>1 DEF Refuse
  <2>2. ASSUME NEW out, Enqueue(k, out)
        PROVE  OrderInv'
    <3> DEFINE j == Len(kind) + 1
               c == QueueWithout(criticalJobs, out)
               n == QueueWithout(normalJobs, out)
    <3>1. /\ Sorted(kind, c) /\ c \in Seq(Jobs) /\ ToSet(c) \subseteq ToSet(criticalJobs)
      BY <1>0, <1>i, QueueWithoutMembers, QueueWithoutSorted DEF Queues
    <3>2. n \in Seq(Jobs) /\ ToSet(n) \subseteq ToSet(normalJobs)
      BY <1>0, QueueWithoutMembers
    <3>3. kind' = Append(kind, k) /\ kind'[j] = k /\ j \in Jobs
      BY <1>0, <1>3, <2>2, OptionsAssumption, AppendProperties DEF Enqueue, Submit, Jobs
    <3>4. \/ k \in Critical /\ criticalJobs' = Append(c, j) /\ normalJobs' = n
          \/ k \notin Critical /\ criticalJobs' = c /\ normalJobs' = Append(n, j)
      BY <2>2 DEF Enqueue
    <3> HIDE DEF c, n
    <3>5. \A i \in ToSet(c) \union ToSet(n) : i < j
      <4>1. \A i \in ToSet(c) \union ToSet(n) : i \in 1..Len(kind)
        BY <1>0, <3>1, <3>2
      <4> QED
        BY <1>0, <4>1
    <3> HIDE DEF j
    <3>6. Queues(kind, c, n)
      BY <1>i, <3>1, <3>2 DEF Queues
    <3>7. Queues(kind', c, n)
      BY <1>0, <1>m, <3>1, <3>2, <3>6
    <3>8. CASE k \in Critical /\ criticalJobs' = Append(c, j) /\ normalJobs' = n
      <4>1. Sorted(kind', Append(c, j)) /\ ToSet(Append(c, j)) = ToSet(c) \union {j}
        BY <3>1, <3>3, <3>5, <3>7, SortedAppend, AppendElements DEF Queues
      <4>2. Queues(kind', Append(c, j), n)
        BY <3>3, <3>7, <3>8, <4>1 DEF Queues
      <4> QED
        BY <1>g, <3>8, <4>2
    <3>9. CASE k \notin Critical /\ criticalJobs' = c /\ normalJobs' = Append(n, j)
      <4>1. ToSet(Append(n, j)) = ToSet(n) \union {j}
        BY <3>2, <3>3, AppendElements
      <4>2. Queues(kind', c, Append(n, j))
        BY <3>3, <3>7, <3>9, <4>1 DEF Queues
      <4> QED
        BY <1>g, <3>9, <4>2
    <3> QED
      BY <3>4, <3>8, <3>9
  <2> QED
    BY <1>3, <2>1, <2>2 DEF Submit
<1>4. CASE RequestStop
  <2>1. criticalJobs' = <<>> /\ normalJobs' = <<>>
    BY <1>4 DEF RequestStop
  <2>2. Queues(kind', <<>>, <<>>)
    BY DEF Queues, Sorted, ToSet
  <2> QED
    BY <1>g, <2>1, <2>2
<1>5. ASSUME NEW next \in NextJob
      PROVE  /\ next.critical \in Seq(Jobs) /\ ToSet(next.critical) \subseteq ToSet(criticalJobs)
             /\ next.normal \in Seq(Jobs) /\ ToSet(next.normal) \subseteq ToSet(normalJobs)
             /\ Queues(kind, next.critical, next.normal)
             /\ Queues(kind', next.critical, next.normal)
  <2>1. /\ next.critical \in Seq(Jobs) /\ next.normal \in Seq(Jobs)
        /\ next.critical = criticalJobs
             \/ \E i \in 1..Len(criticalJobs) : next.critical = RemoveAt(criticalJobs, i)
        /\ next.normal = normalJobs
             \/ \E i \in 1..Len(normalJobs) : next.normal = RemoveAt(normalJobs, i)
    BY <1>0, <1>5, NextJobMoves, NextJobChoice
  <2>2. /\ ToSet(next.critical) \subseteq ToSet(criticalJobs)
        /\ ToSet(next.normal) \subseteq ToSet(normalJobs)
    BY <1>0, <2>1, RemoveAtElements DEF Partition
  <2>3. Sorted(kind, next.critical)
    BY <1>0, <1>i, <2>1, SortedWithout DEF Queues
  <2>4. Queues(kind, next.critical, next.normal)
    BY <1>i, <2>2, <2>3 DEF Queues
  <2> QED
    BY <1>0, <1>m, <2>1, <2>2, <2>4
<1>6. CASE LaunchSent \/ LaunchTooLarge \/ LaunchBroken
  <2>1. PICK next \in NextJob : /\ criticalJobs' = next.critical
                               /\ normalJobs' = next.normal
    BY <1>6 DEF LaunchSent, LaunchTooLarge, LaunchBroken
  <2> QED
    BY <1>5, <1>g, <2>1
<1>7. CASE LaunchBackpressure
  <2>1. PICK next \in NextJob : Requeue(next)
    BY <1>7 DEF LaunchBackpressure
  <2> DEFINE j == next.job
             c == next.critical
             n == next.normal
  <2>2. /\ j \in Pending /\ j \in Jobs
        /\ ToSet(c) \union ToSet(n) = Pending \ {j}
    BY <1>0, NextJobMoves
  <2>3. /\ c \in Seq(Jobs) /\ n \in Seq(Jobs)
        /\ Queues(kind, c, n)
    BY <1>5
  <2>4. kind' = kind
    BY <1>7 DEF LaunchBackpressure
  <2>5. CASE kind[j] \in Critical
    <3>1. criticalJobs' = <<j>> \o c /\ normalJobs' = n
      BY <2>1, <2>5 DEF Requeue
    <3>2. \A i \in ToSet(c) : SameKey(kind, j, i) => j < i
      <4> SUFFICES ASSUME NEW i \in ToSet(c), SameKey(kind, j, i)
                   PROVE  j < i
        OBVIOUS
      <4>1. i \in Pending /\ i # j /\ kind[i] \in Critical /\ SameSerialKey(j, i)
        BY <2>2, <2>3 DEF Queues, SameKey, SameSerialKey
      <4> QED
        BY <2>5, <4>1, PoppedFirst
    <3>3. Sorted(kind, <<j>> \o c) /\ ToSet(<<j>> \o c) = ToSet(c) \union {j}
      <4> HIDE DEF j, c
      <4> QED
        BY <2>2, <2>3, <3>2, SortedPrepend, PrependElements DEF Queues
    <3> HIDE DEF j, c, n
    <3>4. Queues(kind, <<j>> \o c, n)
      BY <2>3, <2>5, <3>3 DEF Queues
    <3> QED
      BY <1>g, <2>4, <3>1, <3>4
  <2>6. CASE kind[j] \notin Critical
    <3>1. criticalJobs' = c /\ normalJobs' = <<j>> \o n
      BY <2>1, <2>6 DEF Requeue
    <3> HIDE DEF j, c, n
    <3>2. ToSet(<<j>> \o n) = ToSet(n) \union {j}
      BY <2>2, <2>3, PrependElements
    <3>3. Queues(kind, c, <<j>> \o n)
      BY <2>3, <2>6, <3>2 DEF Queues
    <3> QED
      BY <1>g, <2>4, <3>1, <3>3
  <2> QED
    BY <2>5, <2>6
<1> QED
  BY <1>2, <1>3, <1>4, <1>6, <1>7
     DEF Next, Worker, SupervisorProcess, Environment, Done, vars, queueVars,
         RestartSupervisor, Wake, LaunchDone, ReceiveResponse, ReceiveDone, ReceiveFailure,
         ResponseTimeout, Terminate, ForceKill, CallCompletion, CompletionsDone, StopSupervisor,
         ReapSupervisor, SupervisorReceive, SupervisorHangup, SupervisorSend, SupervisorReap,
         SupervisorKill, SupervisorExit, SupervisorKilled, SupervisorCrash, ProgramDies, Die,
         HookArms, HookStarts, HookExits, DeadlinePasses

(* OrderInv is an invariant, beside the two it rests on.                   *)
THEOREM OrderInvariance == Spec => [](IInv /\ ProcessInv /\ OrderInv)
<1>1. Init => OrderInv
  BY DEF Init, OrderInv, Sorted, ToSet
<1>2. IInv /\ ProcessInv /\ OrderInv /\ [Next]_vars => OrderInv'
  BY OrderNext DEF ProcessInv
<1> QED
  BY <1>1, <1>2, ProcessInvariance, PTL DEF Spec

(* The critical hooks of one camera start in the order of their            *)
(* submission, whatever is coalesced, evicted, put back or skipped.        *)
THEOREM NeverOvertaken == Spec => []StartOrder
<1>1. OrderInv => StartOrder
  BY DEF OrderInv, StartOrder, Started, Untouched
<1> QED
  BY <1>1, OrderInvariance, PTL
-----------------------------------------------------------------------------
(* The executor implements HookContract                                    *)

StatusOf ==
  [j \in Jobs |-> IF j > Len(kind) THEN "new"
                  ELSE IF j \in Pending THEN "pending"
                  ELSE IF j \in Children THEN "running"
                  ELSE IF j \in unanswered THEN "unanswered" ELSE "settled"]
Heard == {j \in Jobs : calls[j] > 0}

(* The places of the hooks are the states of the contract.                 *)
LEMMA StatusPlaces ==
  ASSUME IInv
  PROVE  /\ \A j \in Jobs : StatusOf[j] = "pending" <=> j \in Pending
         /\ \A j \in Jobs : StatusOf[j] = "running" <=> j \in Children
         /\ \A j \in Jobs : StatusOf[j] = "settled" <=> j \in Settled
         /\ Contract!Having("pending") = Pending
         /\ Contract!Having("running") = Children
<1>1. /\ Partition /\ Len(kind) \in Nat
      /\ Pending \subseteq Jobs /\ Children \subseteq Jobs
  BY LenProperties, ElementOfSeq DEF IInv, TypeOK, Pending, Children, ToSet
<1>2. /\ Pending \subseteq 1..Len(kind) /\ Children \subseteq 1..Len(kind)
      /\ Pending \intersect Children = {}
      /\ \A j \in 1..Len(kind) : ~(j > Len(kind))
      /\ \A j \in Jobs : ~(j > Len(kind)) => j \in 1..Len(kind)
  BY <1>1 DEF Partition, Jobs
<1>3. /\ \A j \in Jobs : StatusOf[j] = "pending" <=> j \in Pending
      /\ \A j \in Jobs : StatusOf[j] = "running" <=> j \in Children
      /\ \A j \in Jobs : StatusOf[j] = "settled" <=> j \in Settled
  BY <1>2 DEF StatusOf, Settled
<1>4. Contract!Jobs = Jobs
  BY DEF Contract!Jobs, Jobs
<1>5. \A s : Contract!Having(s) = {j \in Jobs : StatusOf[j] = s}
  BY <1>4 DEF Contract!Having, StatusOf
<1> QED
  BY <1>1, <1>3, <1>5

(* The number of waiting hooks is the length of the two queues.            *)
LEMMA PendingCardinality ==
  ASSUME IInv
  PROVE  IsFiniteSet(Pending) /\ Cardinality(Pending) = PendingCount
<1>1. ASSUME NEW q \in Seq(Jobs), Distinct(q)
      PROVE  IsFiniteSet(ToSet(q)) /\ Cardinality(ToSet(q)) = Len(q) /\ Len(q) \in Nat
  <2>1. Len(q) \in Nat /\ DOMAIN q = 1..Len(q) /\ q \in [1..Len(q) -> Jobs]
    BY LenProperties
  <2>2. q \in [1..Len(q) -> ToSet(q)]
    BY <2>1 DEF ToSet
  <2>3. q \in Bijection(1..Len(q), ToSet(q))
    BY <1>1, <2>1, <2>2 DEF Bijection, Injection, Surjection, IsInjective, Distinct, ToSet
  <2>4. ExistsBijection(1..Len(q), ToSet(q))
    BY <2>3 DEF ExistsBijection
  <2>5. IsFiniteSet(ToSet(q))
    BY <2>1, <2>4, FS_NatBijection
  <2> QED
    BY <2>1, <2>4, <2>5, FS_CountingElements
<1>2. /\ criticalJobs \in Seq(Jobs) /\ Distinct(criticalJobs)
      /\ normalJobs \in Seq(Jobs) /\ Distinct(normalJobs)
      /\ ToSet(criticalJobs) \intersect ToSet(normalJobs) = {}
  BY DEF IInv, TypeOK, Partition
<1>3. /\ IsFiniteSet(Pending)
      /\ Cardinality(Pending) = Cardinality(ToSet(criticalJobs)) + Cardinality(ToSet(normalJobs))
                                - Cardinality(ToSet(criticalJobs) \intersect ToSet(normalJobs))
  BY <1>1, <1>2, FS_Union DEF Pending
<1>4. Cardinality(ToSet(criticalJobs) \intersect ToSet(normalJobs)) = 0
  BY <1>2, FS_EmptySet
<1> QED
  BY <1>1, <1>2, <1>3, <1>4 DEF PendingCount

LEMMA ContractCardinality ==
  \A S : Contract!Cardinality(S) = Cardinality(S)
BY DEF Contract!Cardinality, Cardinality

(* A step that moves no hook and calls no completion is a stuttering step. *)
LEMMA StutterStep ==
  ASSUME UNCHANGED <<kind, calls, unanswered, stopping>>, Pending' = Pending,
         Children' = Children
  PROVE  [Contract!Next]_(Contract!vars)
BY DEF Contract!vars

(* The hooks of S settle.                                                  *)
LEMMA SettleStep ==
  ASSUME IInv, NEW S \in SUBSET Jobs, S # {}, S \subseteq Pending \union Children,
         NEW W, S \intersect Pending \subseteq {W},
         UNCHANGED <<kind, calls, unanswered, stopping>>, Pending' = Pending \ S,
         Children' = Children \ S
  PROVE  Contract!Next
<1>1. /\ Partition /\ Len(kind) \in Nat
      /\ Contract!Jobs = Jobs
      /\ Contract!Having("pending") = Pending /\ Contract!Having("running") = Children
  BY StatusPlaces, LenProperties DEF IInv, TypeOK, Contract!Jobs, Jobs
<1>2. Cardinality(S \intersect Pending) <= 1
  <2>1. S \intersect Pending = {} \/ S \intersect Pending = {W}
    OBVIOUS
  <2>2. Cardinality({}) = 0 /\ Cardinality({W}) = 1
    BY FS_EmptySet, FS_Singleton
  <2> QED
    BY <2>1, <2>2
<1>3. \A j \in S : j \in 1..Len(kind) /\ ~(j > Len(kind)) /\ j \notin unanswered
  BY <1>1 DEF Partition
<1>4. StatusOf' = [j \in Jobs |-> IF j \in S THEN "settled" ELSE StatusOf[j]]
  BY <1>3 DEF StatusOf
<1>5. Contract!Settle(S)
  BY <1>1, <1>2, <1>4, ContractCardinality DEF Contract!Settle, StatusOf
<1> QED
  BY <1>1, <1>5 DEF Contract!Next

LEMMA FailSupervisorStep ==
  ASSUME IInv, NEW S \in SUBSET Jobs, NEW W, S \subseteq {W}, S \subseteq Pending,
         FailSupervisor(S), Pending' = Pending \ S, UNCHANGED <<kind, stopping>>
  PROVE  [Contract!Next]_(Contract!vars)
<1>1. /\ Children' = {} /\ UNCHANGED <<calls, unanswered>>
      /\ Children \subseteq Jobs /\ Pending \intersect Children = {}
  BY DEF FailSupervisor, Children, IInv, Partition
<1>2. CASE S \union Children = {}
  <2>1. Pending' = Pending /\ Children' = Children
    BY <1>1, <1>2
  <2> QED
    BY <1>1, <2>1, StutterStep
<1>3. CASE S \union Children # {}
  <2> DEFINE T == S \union Children
  <2>1. /\ T \in SUBSET Jobs /\ T # {} /\ T \subseteq Pending \union Children
        /\ T \intersect Pending \subseteq {W}
        /\ Pending' = Pending \ T /\ Children' = Children \ T
    BY <1>1, <1>3
  <2> HIDE DEF T
  <2> QED
    BY <1>1, <2>1, SettleStep
<1> QED
  BY <1>2, <1>3

(* submit() either refuses the hook or accepts it, in the place of at most *)
(* one coalescible hook that waits.                                        *)
LEMMA SubmitStep ==
  ASSUME IInv, NEW k \in Kinds, Submit(k)
  PROVE  Contract!Next
<1>0. /\ TypeOK /\ Partition /\ Len(kind) \in Nat /\ Len(kind) < MaxJobs
      /\ Contract!Jobs = Jobs /\ kind \in Seq(Kinds)
      /\ Contract!Having("pending") = Pending
      /\ Len(kind) + 1 \in Jobs
      /\ PendingCount \in Nat /\ PendingCount <= MaxPending /\ MaxPending \in Nat
  <2>1. Len(kind) \in Nat /\ Len(kind) < MaxJobs
    BY LenProperties DEF IInv, TypeOK, Submit
  <2>2. PendingCount \in Nat
    BY LenProperties DEF IInv, TypeOK, PendingCount
  <2>3. Contract!Jobs = Jobs /\ Contract!Having("pending") = Pending
    BY StatusPlaces DEF Contract!Jobs, Jobs
  <2>4. Len(kind) + 1 \in Jobs /\ MaxPending \in Nat
    BY <2>1, OptionsAssumption DEF Jobs
  <2> QED
    BY <2>1, <2>2, <2>3, <2>4 DEF IInv, TypeOK
<1>1. Children' = Children /\ stopping' = stopping
  BY <1>0 DEF Submit, tableVars, Children
<1>2. CASE Refuse(k)
  <2>1. /\ kind' = Append(kind, k) /\ Len(kind') = Len(kind) + 1
        /\ unanswered' = unanswered \union {Len(kind) + 1}
        /\ Pending' = Pending /\ calls' = calls
    BY <1>0, <1>2, AppendProperties DEF Refuse, Pending
  <2>2. StatusOf' = [StatusOf EXCEPT ![Len(kind) + 1] = "unanswered"]
    <3>1. \A j \in Jobs : j # Len(kind) + 1 => (j > Len(kind) + 1 <=> j > Len(kind))
      BY <1>0 DEF Jobs
    <3>2. Len(kind) + 1 \notin Pending \union Children
      BY <1>0 DEF Partition
    <3>3. StatusOf' = [j \in Jobs |-> IF j = Len(kind) + 1 THEN "unanswered" ELSE StatusOf[j]]
      BY <1>0, <1>1, <2>1, <3>1, <3>2 DEF StatusOf
    <3> QED
      BY <1>0, <3>3 DEF StatusOf
  <2>3. Contract!Refuse(k)
    BY <1>0, <1>1, <2>1, <2>2 DEF Contract!Refuse, StatusOf
  <2> QED
    BY <2>3 DEF Contract!Next
<1>3. ASSUME NEW out, out = {} \/ \E v \in Pending : out = {v}, Enqueue(k, out), ~stopping,
             \A v \in out : CoalesceKey[kind[v]] # NoKey,
             out = {} => PendingCount < MaxPending
      PROVE  Contract!Next
  <2>1. /\ kind' = Append(kind, k) /\ Len(kind') = Len(kind) + 1
        /\ Pending' = (Pending \ out) \union {Len(kind) + 1}
        /\ UNCHANGED <<calls, unanswered>>
    BY <1>0, <1>3, EnqueueMoves DEF Enqueue
  <2>2. StatusOf' = [j \in Jobs |-> IF j = Len(kind) + 1 THEN "pending"
                                    ELSE IF j \in out THEN "settled" ELSE StatusOf[j]]
    <3>1. \A j \in Jobs : j # Len(kind) + 1 => (j > Len(kind) + 1 <=> j > Len(kind))
      BY <1>0 DEF Jobs
    <3>2. \A j \in out : /\ j # Len(kind) + 1 /\ ~(j > Len(kind))
                         /\ j \notin Children \union unanswered
      BY <1>0, <1>3 DEF Partition
    <3> QED
      BY <1>0, <1>1, <2>1, <3>1, <3>2 DEF StatusOf
  <2>3. Cardinality(Pending \ out) < MaxPending
    <3>1. CASE out = {}
      BY <1>0, <1>3, <3>1, PendingCardinality
    <3>2. CASE \E v \in Pending : out = {v}
      <4>1. Cardinality(Pending \ out) = PendingCount - 1
        BY <3>2, PendingCardinality, FS_RemoveElement
      <4> QED
        BY <1>0, <4>1
    <3> QED
      BY <1>3, <3>1, <3>2
  <2>4. out \in SUBSET Jobs /\ out \subseteq Pending /\ \A v \in out : out = {v}
    BY <1>0, <1>3, OptionsAssumption DEF Partition, Jobs
  <2>5. Contract!Accept(k, out)
    BY <1>0, <1>1, <1>3, <2>1, <2>2, <2>3, <2>4, ContractCardinality DEF Contract!Accept, StatusOf
  <2> QED
    BY <1>0, <2>4, <2>5 DEF Contract!Next
<1>4. /\ Superseded(k) # {} => \E v \in Pending : Superseded(k) = {v}
      /\ Evictable # {} => \E v \in Pending : Evictable = {v}
  BY <1>0, OneMakesRoom
<1>5. /\ \A v \in Superseded(k) : CoalesceKey[kind[v]] # NoKey
      /\ \A v \in Evictable : CoalesceKey[kind[v]] # NoKey
  <2>1. ASSUME NEW q \in Seq(Jobs), NEW S, NEW v \in {q[i] : i \in First(q, S)}
        PROVE  v \in S
    BY <2>1, FirstUnique
  <2>2. criticalJobs \in Seq(Jobs) /\ normalJobs \in Seq(Jobs)
    BY <1>0 DEF TypeOK
  <2> DEFINE same == {j \in 1..Len(kind) : CoalesceKey[kind[j]] = CoalesceKey[k]}
             coalescible == {j \in 1..Len(kind) : CoalesceKey[kind[j]] # NoKey}
  <2>3. ASSUME NEW v \in Superseded(k)
        PROVE  CoalesceKey[kind[v]] # NoKey
    <3>1. \/ v \in {criticalJobs[i] : i \in First(criticalJobs, same)}
          \/ v \in {normalJobs[i] : i \in First(normalJobs, same)}
      BY <2>3 DEF Superseded
    <3>2. CoalesceKey[k] # NoKey
      BY <2>3 DEF Superseded
    <3>3. v \in same
      BY <2>1, <2>2, <3>1
    <3> QED
      BY <3>2, <3>3
  <2>4. ASSUME NEW v \in Evictable
        PROVE  CoalesceKey[kind[v]] # NoKey
    <3>1. v \in {normalJobs[i] : i \in First(normalJobs, coalescible)}
      BY <2>4 DEF Evictable
    <3>2. v \in coalescible
      BY <2>1, <2>2, <3>1
    <3> QED
      BY <3>2
  <2> QED
    BY <2>3, <2>4
<1> QED
  BY <1>2, <1>3, <1>4, <1>5 DEF Submit, HasRoom

(* launch() starts a hook beside which no hook of its key runs and before  *)
(* which no critical hook of its key waits.                                *)
LEMMA StartStep ==
  ASSUME IInv, OrderInv, LaunchSent
  PROVE  Contract!Next
<1>1. PICK next \in NextJob : /\ criticalJobs' = next.critical
                             /\ normalJobs' = next.normal
                             /\ child' = [child EXCEPT ![next.job] = "launching"]
  BY DEF LaunchSent
<1> DEFINE j == next.job
<1>2. /\ TypeOK /\ Partition /\ Contract!Jobs = Jobs
      /\ Contract!Having("pending") = Pending /\ Contract!Having("running") = Children
      /\ StatusOf[j] = "pending"
      /\ j \in Pending /\ j \in Jobs /\ j \notin Children
      /\ Pending' = Pending \ {j}
  <2>1. TypeOK /\ Partition
    BY DEF IInv
  <2>2. j \in Pending /\ j \in Jobs /\ Pending' = Pending \ {j}
    BY <1>1, <2>1, NextJobMoves DEF Pending
  <2>3. Contract!Jobs = Jobs
    BY DEF Contract!Jobs, Jobs
  <2> QED
    BY <2>1, <2>2, <2>3, StatusPlaces DEF Partition
<1>3. /\ Cardinality(Children) < MaxConcurrent /\ ~stopping
      /\ UNCHANGED <<kind, calls, unanswered, stopping>>
  BY DEF LaunchSent, MayLaunch, resultVars
<1>4. Children' = Children \union {j}
  BY <1>1, <1>2, ChildEnters
<1>5. \A i \in Children : ~Contract!SameSerialKey(i, j)
  BY NextJobChoice, <1>2 DEF Runnable, SameSerialKey, Contract!SameSerialKey
<1>6. kind[j] \in Critical =>
        \A i \in Pending : i < j /\ kind[i] \in Critical => ~Contract!SameSerialKey(i, j)
  <2> SUFFICES ASSUME kind[j] \in Critical, NEW i \in Pending, i < j, kind[i] \in Critical,
                      SameSerialKey(i, j)
               PROVE  FALSE
    BY DEF SameSerialKey, Contract!SameSerialKey
  <2>1. i \in Int /\ j \in Int
    BY <1>2, OptionsAssumption, LenProperties DEF Partition, Jobs
  <2>2. i # j
    BY <2>1
  <2>3. j < i
    BY <2>2, PoppedFirst
  <2> QED
    BY <2>1, <2>3
<1> HIDE DEF j
<1>7. StatusOf' = [StatusOf EXCEPT ![j] = "running"]
  <2>1. StatusOf' = [i \in Jobs |-> IF i = j THEN "running" ELSE StatusOf[i]]
    <3>1. ~(j > Len(kind))
      BY <1>2, LenProperties DEF Partition, TypeOK
    <3> QED
      BY <1>2, <1>3, <1>4, <3>1 DEF StatusOf
  <2> QED
    BY <1>2, <2>1 DEF StatusOf
<1>8. Contract!Start(j)
  BY <1>2, <1>3, <1>5, <1>6, <1>7, ContractCardinality DEF Contract!Start, StatusOf
<1> QED
  BY <1>2, <1>8 DEF Contract!Next

(* stop() forgets the hooks that wait.                                     *)
LEMMA CloseStep ==
  ASSUME IInv, RequestStop
  PROVE  Contract!Next
<1>1. /\ Partition /\ Contract!Jobs = Jobs
      /\ \A j \in Jobs : StatusOf[j] = "pending" <=> j \in Pending
      /\ Len(kind) \in Nat
  BY StatusPlaces, LenProperties DEF IInv, TypeOK, Contract!Jobs, Jobs
<1>2. /\ Pending' = {} /\ unanswered' = unanswered \union Pending
      /\ UNCHANGED <<kind, calls>> /\ ~stopping /\ stopping' = TRUE
  BY DEF RequestStop, Pending, ToSet
<1>3. Children' = Children
  BY DEF RequestStop, Children, IInv, TypeOK
<1>4. StatusOf' = [j \in Jobs |-> IF StatusOf[j] = "pending" THEN "unanswered" ELSE StatusOf[j]]
  <2>1. \A j \in Pending : ~(j > Len(kind)) /\ j \notin Children
    BY <1>1 DEF Partition
  <2> QED
    BY <1>1, <1>2, <1>3, <2>1 DEF StatusOf
<1>5. Contract!Close
  BY <1>1, <1>2, <1>4 DEF Contract!Close, StatusOf
<1> QED
  BY <1>5 DEF Contract!Next

(* A completion is called once.                                            *)
LEMMA HearStep ==
  ASSUME IInv, NEW j \in Jobs, CallCompletion(j)
  PROVE  Contract!Next
<1>1. /\ owed \in [Jobs -> Nat] /\ calls \in [Jobs -> Nat] /\ AnsweredOnce
      /\ Contract!Jobs = Jobs
      /\ StatusOf[j] = "settled" <=> j \in Settled
  BY StatusPlaces DEF IInv, TypeOK, Contract!Jobs, Jobs
<1>2. /\ owed[j] > 0 /\ calls' = [calls EXCEPT ![j] = @ + 1]
      /\ UNCHANGED <<kind, unanswered, stopping, criticalJobs, normalJobs, child>>
  BY DEF CallCompletion, queueVars, tableVars
<1>3. Pending' = Pending /\ Children' = Children
  BY <1>2 DEF Pending, Children
<1>4. j \in Settled /\ calls[j] = 0
  BY <1>1, <1>2, SettledIsAnswered
<1>5. Heard' = Heard \union {j} /\ j \notin Heard
  BY <1>1, <1>2, <1>4 DEF Heard
<1>6. StatusOf' = StatusOf
  BY <1>2, <1>3 DEF StatusOf
<1>7. Contract!Hear(j)
  BY <1>1, <1>2, <1>4, <1>5, <1>6 DEF Contract!Hear, StatusOf, Heard
<1> QED
  BY <1>1, <1>7 DEF Contract!Next

LEMMA ContractNext ==
  ASSUME IInv, OrderInv, [Next]_vars
  PROVE  [Contract!Next]_(Contract!vars)
<1> USE DEF queueVars, tableVars, resultVars, supervisorVars, socketVars
<1>0. TypeOK /\ Partition /\ child \in [Jobs -> Stages \union {"none"}]
  BY DEF IInv, TypeOK
<1>1. ASSUME UNCHANGED <<queueVars, calls, unanswered, stopping>>, Children' = Children
      PROVE  [Contract!Next]_(Contract!vars)
  BY <1>1, StutterStep DEF Pending
<1>2. CASE UNCHANGED <<queueVars, calls, unanswered, stopping, child>>
  BY <1>1, <1>2 DEF Children
<1>3. CASE \E k \in Kinds : Submit(k)
  BY <1>3, SubmitStep
<1>4. CASE RequestStop
  BY <1>4, CloseStep
<1>5. CASE LaunchSent
  BY <1>5, StartStep
<1>6. CASE LaunchBackpressure
  <2>1. PICK next \in NextJob : Requeue(next)
    BY <1>6 DEF LaunchBackpressure
  <2>2. Pending' = Pending
    BY <1>0, <2>1, RequeueMoves
  <2>3. Children' = Children /\ UNCHANGED <<kind, calls, unanswered, stopping>>
    BY <1>6 DEF LaunchBackpressure, Children
  <2> QED
    BY <2>2, <2>3, StutterStep
<1>7. ASSUME NEW next \in NextJob, criticalJobs' = next.critical, normalJobs' = next.normal
      PROVE  next.job \in Pending /\ next.job \in Jobs /\ Pending' = Pending \ {next.job}
  BY <1>0, <1>7, NextJobMoves DEF Pending
<1>8. CASE LaunchTooLarge
  <2>1. PICK next \in NextJob : criticalJobs' = next.critical /\ normalJobs' = next.normal
    BY <1>8 DEF LaunchTooLarge
  <2> DEFINE j == next.job
  <2>2. j \in Pending /\ j \in Jobs /\ j \notin Children /\ Pending' = Pending \ {j}
    BY <1>0, <1>7, <2>1 DEF Partition
  <2>3. Children' = Children /\ UNCHANGED <<kind, calls, unanswered, stopping>>
    BY <1>8 DEF LaunchTooLarge, Children
  <2> HIDE DEF j
  <2>4. {j} \in SUBSET Jobs /\ {j} # {} /\ {j} \subseteq Pending \union Children
        /\ {j} \intersect Pending \subseteq {j} /\ Children' = Children \ {j}
    BY <2>2, <2>3
  <2> QED
    BY <2>2, <2>3, <2>4, SettleStep
<1>9. CASE LaunchBroken
  <2>1. PICK next \in NextJob : /\ criticalJobs' = next.critical
                               /\ normalJobs' = next.normal
                               /\ FailSupervisor({next.job})
    BY <1>9 DEF LaunchBroken
  <2> DEFINE j == next.job
  <2>2. j \in Pending /\ j \in Jobs /\ Pending' = Pending \ {j} /\ FailSupervisor({j})
    BY <1>7, <2>1
  <2>3. UNCHANGED <<kind, stopping>>
    BY <1>9 DEF LaunchBroken
  <2> HIDE DEF j
  <2>4. {j} \in SUBSET Jobs /\ {j} \subseteq {j} /\ {j} \subseteq Pending
    BY <2>2
  <2> QED
    BY <2>2, <2>3, <2>4, FailSupervisorStep
<1>10. ASSUME FailSupervisor({}), UNCHANGED <<queueVars, stopping>>
       PROVE  [Contract!Next]_(Contract!vars)
  <2>1. Pending' = Pending \ {} /\ {} \in SUBSET Jobs /\ {} \subseteq {0} /\ {} \subseteq Pending
    BY <1>10 DEF Pending
  <2> QED
    BY <1>10, <2>1, FailSupervisorStep
<1>11. CASE ReceiveResponse
  <2> DEFINE j == Head(responses).job
  <2>1. j \in Jobs
    <3>1. responses \in Seq(Responses) /\ responses # <<>>
      BY <1>11 DEF IInv, TypeOK, ReceiveResponse
    <3>2. Head(responses) \in Responses
      BY <3>1, HeadTailProperties
    <3> QED
      BY <3>2 DEF Responses
  <2>2. UNCHANGED <<queueVars, calls, unanswered, stopping>>
    BY <1>11 DEF ReceiveResponse
  <2>3. \/ child' = child
        \/ j \in Children /\ child' = [child EXCEPT ![j] = "running"]
        \/ j \in Children /\ child' = [child EXCEPT ![j] = "none"]
    BY <1>11, <2>1 DEF ReceiveResponse, Children
  <2> HIDE DEF j
  <2>4. CASE child' = child
    BY <1>2, <2>2, <2>4
  <2>5. CASE j \in Children /\ child' = [child EXCEPT ![j] = "running"]
    <3>1. Children' = Children
      BY <1>0, <2>5, ChildMoves DEF Stages
    <3> QED
      BY <1>1, <2>2, <3>1
  <2>6. CASE j \in Children /\ child' = [child EXCEPT ![j] = "none"]
    <3>1. Children' = Children \ {j}
      BY <1>0, <2>1, <2>6, ChildLeaves
    <3>2. /\ {j} \in SUBSET Jobs /\ {j} # {} /\ {j} \subseteq Pending \union Children
          /\ {j} \intersect Pending \subseteq {j} /\ Pending' = Pending \ {j}
      BY <1>0, <2>1, <2>2, <2>6 DEF Partition, Pending
    <3> QED
      BY <2>2, <3>1, <3>2, SettleStep
  <2> QED
    BY <2>3, <2>4, <2>5, <2>6
<1>12. ASSUME NEW i \in Jobs, Terminate(i) \/ ForceKill(i)
       PROVE  [Contract!Next]_(Contract!vars)
  <2>1. i \in Children /\ (\/ child' = [child EXCEPT ![i] = "terminating"]
                           \/ child' = [child EXCEPT ![i] = "killing"])
    BY <1>12 DEF Terminate, ForceKill, MustTerminate, MustKill, Children
  <2>2. Children' = Children
    BY <1>0, <2>1, ChildMoves DEF Stages
  <2> QED
    BY <1>1, <1>12, <2>2 DEF Terminate, ForceKill
<1>13. CASE \E j \in Jobs : CallCompletion(j)
  BY <1>13, HearStep
<1> QED
  BY <1>2, <1>3, <1>4, <1>5, <1>6, <1>8, <1>9, <1>10, <1>11, <1>12, <1>13
     DEF Next, Worker, SupervisorProcess, Environment, Done, vars, Die,
         RestartSupervisor, Wake, LaunchDone, ReceiveDone, ReceiveFailure, ResponseTimeout,
         CompletionsDone, StopSupervisor, ReapSupervisor, SupervisorReceive,
         SupervisorHangup, SupervisorSend, SupervisorReap, SupervisorKill, SupervisorExit,
         SupervisorKilled, SupervisorCrash, ProgramDies, HookArms, HookStarts, HookExits,
         DeadlinePasses

LEMMA ContractInit ==
  ASSUME Init
  PROVE  Contract!Init
<1>1. Contract!Jobs = Jobs /\ Pending = {} /\ Children = {} /\ Len(kind) = 0
  BY DEF Init, Contract!Jobs, Jobs, Pending, Children, ToSet
<1>2. \A j \in Jobs : j > Len(kind)
  BY <1>1, OptionsAssumption DEF Jobs
<1>3. StatusOf = [j \in Jobs |-> "new"] /\ Heard = {}
  BY <1>1, <1>2 DEF Init, StatusOf, Heard
<1> QED
  BY <1>1, <1>3 DEF Init, Contract!Init, StatusOf, Heard

(* The executor keeps the contract its submitters rely on: with its        *)
(* supervisor process, sockets and deadlines it does nothing to a hook     *)
(* that HookContract does not allow.                                       *)
THEOREM ImplementsContract == Spec => KeepsContract
<1>1. Init => Contract!Init
  BY ContractInit
<1>2. IInv /\ OrderInv /\ [Next]_vars => [Contract!Next]_(Contract!vars)
  BY ContractNext
<1> QED
  BY <1>1, <1>2, OrderInvariance, PTL DEF Spec, KeepsContract, Contract!Spec
=============================================================================
