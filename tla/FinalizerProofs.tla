--------------------------- MODULE FinalizerProofs ---------------------------
(***************************************************************************)
(* What the finalizer buys, for every value of the constants: a pass works *)
(* from a cached copy of the resource that may be arbitrarily old, yet the *)
(* resource it works for is still there.                                   *)
(***************************************************************************)
EXTENDS WordPressProofs

-----------------------------------------------------------------------------
(* The inductive invariant *)

\* The versions of the resource the controller sees now or will see.
Seen == {obj["WordPress"][i] : i \in 1..Len(obj["WordPress"])}

Held(v) == v # Absent /\ v.finalizer

\* A version seen with the finalizer and no deletion is one of the stored
\* incarnation: the finalizer is removed only when the deletion has been seen.
HoldInv ==
  \A v \in Seen : (Held(v) /\ ~v.deleting) => Held(Resource) /\ Resource.uid = v.uid

\* A removal of the finalizer that would succeed was decided on the stored
\* version, and nothing older is on its way.
RemovalInv ==
  (fresh /\ pc = "finalize") =>
    InSync("WordPress") /\ Resource # Absent /\ Resource.deleting

\* Once the finalizer is stored every version seen is one of this incarnation,
\* and those that carry the deletion carry the pledged annotation too.
PledgeInv ==
  Resource # Absent =>
    /\ (Resource.finalizer /\ ~Resource.deleting) =>
         \A v \in Seen : v # Absent /\ ~v.deleting
    /\ Resource.pledge =>
         /\ Resource.finalizer /\ Resource.deleting
         /\ \A v \in Seen : v # Absent /\ (v.deleting => v.retain)

FinalizerInv == HoldInv /\ FinalizerHeld /\ RemovalInv /\ PledgeInv

-----------------------------------------------------------------------------
(* What a step does to the versions seen *)

USE DEF Resource

Same      == Seen' \subseteq Seen /\ Resource' = Resource
Writes(v) == Seen' \subseteq Seen \cup {v} /\ Resource' = v

\* The only ways in which the stored resource changes.
Unmarked(v) ==
  /\ v # Absent /\ v.uid = Resource.uid
  /\ v.finalizer = Resource.finalizer /\ v.deleting = Resource.deleting
  /\ v.pledge => Resource.pledge /\ v.retain = Resource.retain

Marked(v) ==
  /\ v # Absent /\ v.uid = Resource.uid /\ v.finalizer /\ v.deleting
  /\ v.pledge => v.retain

ResourceStep ==
  \/ Same
  \/ \E v \in Resources : Writes(v) /\ Resource # Absent /\ Unmarked(v)
  \/ \E v \in Resources : /\ Writes(v) /\ Marked(v)
                          /\ Held(Resource) /\ ~Resource.deleting
  \/ Writes(Absent) /\ Resource # Absent /\ ~Resource.finalizer
  \/ \E v \in Resources : /\ Writes(v) /\ Resource = Absent
                          /\ ~v.finalizer /\ ~v.deleting /\ ~v.pledge
                          /\ v.uid = used'["create"]
                          /\ used'["create"] = used["create"] + 1
  \/ \E v \in Resources : /\ Writes(v) /\ Seen = {Resource} /\ Resource # Absent
                          /\ ~Resource.deleting /\ v.uid = Resource.uid
                          /\ v.finalizer /\ ~v.deleting /\ v.pledge = Resource.pledge
  \/ Writes(Absent) /\ Seen = {Resource} /\ Resource.deleting /\ pc' = "idle"

\* The cached and the stored version are among those seen, and the only ones
\* when the cache has caught up.
LEMMA SeenEnds ==
  ASSUME TypeOK
  PROVE  /\ Resource \in Seen
         /\ Cached("WordPress") \in Seen
         /\ Seen \subseteq {Absent} \cup Resources
         /\ InSync("WordPress") => Seen = {Resource} /\ Cached("WordPress") = Resource
  <1>1. obj["WordPress"] \in Seq({Absent} \cup Resources) /\ obj["WordPress"] # <<>>
    BY VersionsOf DEF TypeOK, ClusterTypeOK, Kinds
  <1>2. Len(obj["WordPress"]) \in Nat \ {0}
    BY <1>1
  <1>3. /\ 1 \in 1..Len(obj["WordPress"])
        /\ Len(obj["WordPress"]) \in 1..Len(obj["WordPress"])
    BY <1>2
  <1>4. Head(obj["WordPress"]) = obj["WordPress"][1]
    BY <1>1
  <1>5. Seen \subseteq {Absent} \cup Resources
    BY <1>1 DEF Seen
  <1>6. InSync("WordPress") => 1..Len(obj["WordPress"]) = {1}
    BY DEF InSync
  <1>7. Resource \in Seen /\ Cached("WordPress") \in Seen
    BY <1>3, <1>4 DEF Seen, Live, Cached
  <1>8. ASSUME InSync("WordPress")
        PROVE  Seen = {Resource} /\ Cached("WordPress") = Resource
    <2>1. /\ Seen = {obj["WordPress"][i] : i \in {1}}
          /\ Resource = obj["WordPress"][1]
      BY <1>6, <1>8 DEF Seen, Live, InSync
    <2> QED
      BY <1>4, <2>1 DEF Cached
  <1> QED
    BY <1>5, <1>7, <1>8

\* A step that leaves the stream alone.
LEMMA StreamUnchanged ==
  ASSUME obj'["WordPress"] = obj["WordPress"]
  PROVE  /\ Seen' = Seen /\ Resource' = Resource /\ Same
         /\ InSync("WordPress")' = InSync("WordPress")
  <1>1. Seen' = Seen
    BY Zenon DEF Seen
  <1>2. Resource' = Resource
    BY Zenon DEF Live
  <1>3. InSync("WordPress")' = InSync("WordPress")
    BY Zenon DEF InSync
  <1> QED
    BY <1>1, <1>2, <1>3 DEF Same

\* A write of the resource adds one version and makes it the stored one; it
\* also tells a worker that holds the previous one (resourceVersion).
LEMMA ResourceWritten ==
  ASSUME TypeOK, NEW v \in {Absent} \cup Resources, PutWordPress(v)
  PROVE  /\ Writes(v)
         /\ (fresh' = fresh /\ obj'["WordPress"] = obj["WordPress"]) \/ ~fresh'
  <1>1. Streams /\ "WordPress" \in Kinds /\ v \in Versions("WordPress") /\ fresh \in BOOLEAN
    BY VersionsOf DEF TypeOK, ClusterTypeOK, Streams, Kinds
  <1>2. Put("WordPress", v)
    BY DEF PutWordPress
  <1>3. /\ Resource' = v
        /\ \/ obj'["WordPress"] = obj["WordPress"]
           \/ obj'["WordPress"] = Append(obj["WordPress"], v)
    BY <1>1, <1>2, PutStream
  <1>4. obj["WordPress"] \in Seq({Absent} \cup Resources)
    BY <1>1, VersionsOf DEF Streams
  <1>5. Seen' \subseteq Seen \cup {v}
    <2>1. CASE obj'["WordPress"] = obj["WordPress"]
      BY <2>1, StreamUnchanged
    <2>2. CASE obj'["WordPress"] = Append(obj["WordPress"], v)
      <3>1. /\ Len(obj'["WordPress"]) = Len(obj["WordPress"]) + 1
            /\ \A i \in 1..Len(obj["WordPress"]) : obj'["WordPress"][i] = obj["WordPress"][i]
            /\ obj'["WordPress"][Len(obj["WordPress"]) + 1] = v
            /\ Len(obj["WordPress"]) \in Nat
        BY <1>4, <2>2
      <3>2. ASSUME NEW w \in Seen' PROVE w \in Seen \cup {v}
        <4>1. PICK i \in 1..Len(obj'["WordPress"]) : w = obj'["WordPress"][i]
          BY DEF Seen
        <4>2. i \in 1..Len(obj["WordPress"]) \/ i = Len(obj["WordPress"]) + 1
          BY <3>1, <4>1
        <4> QED
          BY <3>1, <4>1, <4>2 DEF Seen
      <3> QED
        BY <3>2
    <2> QED
      BY <1>3, <2>1, <2>2
  <1>6. (fresh' = fresh /\ obj'["WordPress"] = obj["WordPress"]) \/ ~fresh'
    <2>1. CASE v = Resource
      BY <1>1, <1>2, <2>1 DEF PutWordPress, Put
    <2>2. CASE v # Resource
      BY <2>2 DEF PutWordPress
    <2> QED
      BY <2>1, <2>2
  <1> QED
    BY <1>3, <1>5, <1>6 DEF Writes

\* A write of any other object leaves the stream of the resource alone.
LEMMA OtherWritten ==
  ASSUME TypeOK, NEW k \in Kinds \ {"WordPress"}, NEW v, Put(k, v)
  PROVE  obj'["WordPress"] = obj["WordPress"]
  BY DEF Put, TypeOK, ClusterTypeOK, Kinds

\* An event that arrives, or a restart, adds no version and stores nothing.
LEMMA EventSeen ==
  ASSUME TypeOK, Restart \/ \E k \in Kinds : Deliver(k)
  PROVE  Same
  <1>1. obj["WordPress"] \in Seq({Absent} \cup Resources) /\ obj["WordPress"] # <<>>
    BY VersionsOf DEF TypeOK, ClusterTypeOK, Kinds
  <1>2. obj \in [Kinds -> Seq(Objects)]
    BY DEF TypeOK, ClusterTypeOK
  <1>3. CASE Restart
    <2>1. obj'["WordPress"] = <<Resource>>
      BY <1>3 DEF Restart, Kinds
    <2>2. Seen' = {Resource} /\ Resource' = Resource
      BY <2>1 DEF Seen, Live
    <2> QED
      BY <2>2, SeenEnds DEF Same
  <1>4. CASE \E k \in Kinds : Deliver(k)
    <2>1. PICK k \in Kinds : Deliver(k)
      BY <1>4
    <2>2. CASE k # "WordPress"
      BY <1>2, <2>1, <2>2, StreamUnchanged DEF Deliver, Kinds
    <2>3. CASE k = "WordPress"
      <3>1. /\ obj'["WordPress"] = Tail(obj["WordPress"])
            /\ Len(obj["WordPress"]) # 1
        BY <1>2, <2>1, <2>3 DEF Deliver, InSync, Kinds
      <3>2. /\ Len(obj'["WordPress"]) = Len(obj["WordPress"]) - 1
            /\ Len(obj["WordPress"]) \in Nat /\ Len(obj["WordPress"]) > 1
            /\ \A i \in 1..Len(obj'["WordPress"]) :
                 obj'["WordPress"][i] = obj["WordPress"][i + 1]
        <4> DEFINE s == obj["WordPress"]
        <4>1. Len(s) \in Nat /\ Len(s) # 0
          BY <1>1
        <4>2. /\ Len(Tail(s)) = Len(s) - 1
              /\ \A i \in 1..Len(Tail(s)) : Tail(s)[i] = s[i + 1]
          BY <1>1
        <4>3. Len(s) > 1
          <5>1. Len(s) # 1
            BY <3>1
          <5>2. \A n \in Nat : n # 0 /\ n # 1 => n > 1
            OBVIOUS
          <5> QED
            BY <4>1, <5>1, <5>2
        <4> QED
          BY <3>1, <4>1, <4>2, <4>3
      <3>3. Resource' = Resource
        BY <3>2 DEF Live
      <3>4. ASSUME NEW w \in Seen' PROVE w \in Seen
        <4>1. PICK i \in 1..Len(obj'["WordPress"]) : w = obj'["WordPress"][i]
          BY DEF Seen
        <4>2. i + 1 \in 1..Len(obj["WordPress"]) /\ w = obj["WordPress"][i + 1]
          BY <3>2, <4>1
        <4> QED
          BY <4>2 DEF Seen
      <3> QED
        BY <3>3, <3>4 DEF Same
    <2> QED
      BY <2>2, <2>3
  <1> QED
    BY <1>3, <1>4

-----------------------------------------------------------------------------
(* Every step is one of those *)

\* Nobody else takes the finalizer away: users mark, edit and create, and what
\* other controllers write is not the resource.
LEMMA EnvironmentStep ==
  ASSUME TypeOK, Environment
  PROVE  /\ ResourceStep
         /\ (fresh' = fresh /\ obj'["WordPress"] = obj["WordPress"]) \/ ~fresh'
  <1> USE ClusterAssumption
  <1>0. ClusterTypeOK /\ Resource \in {Absent} \cup Resources
    BY ResourceVersions DEF TypeOK
  <1>1. CASE CreateWordPress
    <2> DEFINE new(s) == [uid |-> used'["create"], gen |-> 1, spec |-> s,
                          retain |-> FALSE, deleting |-> FALSE, finalizer |-> FALSE,
                          pledge |-> FALSE, status |-> NoStatus]
    <2>1. PICK s \in Submitted : PutWordPress(new(s))
      BY <1>1 DEF CreateWordPress
    <2>2. used'["create"] \in Nat
      BY <1>0, <1>1, CounterType DEF CreateWordPress, Disturbances, ClusterTypeOK
    <2>3. new(s) \in Resources
      BY <2>2 DEF Resources, NoStatus, Statuses, Ternary
    <2>4. /\ Resource = Absent
          /\ ~new(s).finalizer /\ ~new(s).deleting /\ ~new(s).pledge
          /\ new(s).uid = used'["create"] /\ used'["create"] = used["create"] + 1
      BY <1>0, <1>1 DEF CreateWordPress, Spend, Disturbances, ClusterTypeOK
    <2> QED
      BY <2>1, <2>3, <2>4, ResourceWritten DEF ResourceStep
  <1>2. CASE EditSpec
    <2>1. PICK s \in Submitted : PutWordPress([Resource EXCEPT !.spec = s, !.gen = @ + 1])
      BY <1>2 DEF EditSpec
    <2>2. Resource \in Resources
      BY <1>0, <1>2 DEF EditSpec
    <2> DEFINE new == [Resource EXCEPT !.spec = s, !.gen = @ + 1]
    <2>3. new \in Resources
      BY <2>2, ResourceUpdates
    <2>4. Unmarked(new) /\ Resource # Absent
      BY <2>2, <2>3 DEF Unmarked, Resources
    <2> QED
      BY <2>1, <2>3, <2>4, ResourceWritten DEF ResourceStep
  <1>3. CASE Annotate
    <2> DEFINE new == [Resource EXCEPT !.retain = ~@, !.pledge = FALSE]
    <2>1. Resource \in Resources /\ PutWordPress(new)
      BY <1>0, <1>3 DEF Annotate
    <2>2. new \in Resources
      BY <2>1 DEF Resources
    <2>3. Unmarked(new) /\ Resource # Absent
      BY <2>1, <2>2 DEF Unmarked, Resources
    <2> QED
      BY <2>1, <2>2, <2>3, ResourceWritten DEF ResourceStep
  <1>4. CASE DeleteWordPress
    <2> DEFINE new == [Resource EXCEPT !.deleting = TRUE, !.gen = @ + 1,
                                       !.pledge = Resource.retain]
    <2>1. Resource \in Resources /\ ~Resource.deleting
      BY <1>0, <1>4 DEF DeleteWordPress
    <2>2. CASE Resource.finalizer
      <3>1. PutWordPress(new)
        BY <1>4, <2>2 DEF DeleteWordPress
      <3>2. new \in Resources
        <4>1. Resource.spec \in Specs
          BY <2>1 DEF Resources
        <4> QED
          BY <2>1, <4>1, ResourceUpdates
      <3>3. Marked(new) /\ Held(Resource)
        BY <2>1, <2>2, <3>2 DEF Marked, Resources, Held
      <3> QED
        BY <2>1, <3>1, <3>2, <3>3, ResourceWritten DEF ResourceStep
    <2>3. CASE ~Resource.finalizer
      <3>1. PutWordPress(Absent) /\ Resource # Absent
        BY <1>4, <2>3 DEF DeleteWordPress
      <3> QED
        BY <2>3, <3>1, ResourceWritten DEF ResourceStep
    <2> QED
      BY <2>2, <2>3
  <1>5. CASE \/ ToggleUserSecret \/ Autoscale
             \/ ProvisionVolume \/ InitialiseVolume \/ ReleaseVolume
             \/ \E k \in ChildKinds : Drift(k) \/ CreateForeign(k) \/ CollectGarbage(k)
             \/ \E k \in Workloads : BecomeReady(k) \/ RollOut(k) \/ BecomeUnready(k)
    <2>1. fresh' = fresh /\ \E k \in Kinds \ {"WordPress"} : \E v : Put(k, v)
      BY <1>5 DEF ToggleUserSecret, Autoscale, ProvisionVolume, InitialiseVolume,
         ReleaseVolume, Drift, CreateForeign, CollectGarbage, BecomeReady, RollOut,
         BecomeUnready, Workloads, Kinds, ChildKinds, DatabaseKinds, SiteKinds
    <2>2. obj'["WordPress"] = obj["WordPress"]
      BY <2>1, OtherWritten
    <2> QED
      BY <2>1, <2>2, StreamUnchanged DEF ResourceStep
  <1> QED
    BY <1>1, <1>2, <1>3, <1>4, <1>5 DEF Environment

\* What happens to the versions seen keeps their invariants.
LEMMA ResourceStepKeeps ==
  ASSUME TypeOK, HoldInv, PledgeInv, ResourceStep
  PROVE  HoldInv' /\ PledgeInv'
  <1> USE DEF Held
  <1>0. Resource \in Seen
    BY SeenEnds
  <1>1. CASE Same
    BY <1>1 DEF Same, HoldInv, PledgeInv
  <1>2. ASSUME NEW v \in Resources, Writes(v), Resource # Absent, Unmarked(v)
        PROVE  HoldInv' /\ PledgeInv'
    <2>1. HoldInv'
      BY <1>2 DEF HoldInv, Writes, Unmarked
    <2>2. PledgeInv'
      <3>1. (v.finalizer /\ ~v.deleting) => \A w \in Seen' : w # Absent /\ ~w.deleting
        BY <1>2 DEF PledgeInv, Writes, Unmarked
      <3>2. v.pledge =>
              /\ v.finalizer /\ v.deleting /\ v # Absent
              /\ Resource.retain = v.retain /\ Resource.deleting
              /\ \A w \in Seen : w # Absent /\ (w.deleting => w.retain)
        BY <1>2 DEF PledgeInv, Unmarked
      <3>3. v.pledge => \A w \in Seen' : w # Absent /\ (w.deleting => w.retain)
        BY <1>0, <1>2, <3>2 DEF Writes
      <3> QED
        BY <1>2, <3>1, <3>2, <3>3 DEF PledgeInv, Writes
    <2> QED
      BY <2>1, <2>2
  <1>3. ASSUME NEW v \in Resources, Writes(v), Marked(v), Held(Resource), ~Resource.deleting
        PROVE  HoldInv' /\ PledgeInv'
    BY <1>3 DEF HoldInv, PledgeInv, Writes, Marked
  <1>4. CASE Writes(Absent) /\ Resource # Absent /\ ~Resource.finalizer
    BY <1>4 DEF HoldInv, PledgeInv, Writes
  <1>5. ASSUME NEW v \in Resources, Writes(v), Resource = Absent, ~v.finalizer, ~v.pledge
        PROVE  HoldInv' /\ PledgeInv'
    BY <1>5 DEF HoldInv, PledgeInv, Writes
  <1>6. ASSUME NEW v \in Resources, Writes(v), Seen = {Resource}, Resource # Absent,
               ~Resource.deleting, v.uid = Resource.uid, v.finalizer, ~v.deleting,
               v.pledge = Resource.pledge
        PROVE  HoldInv' /\ PledgeInv'
    BY <1>6, ClusterAssumption DEF HoldInv, PledgeInv, Writes
  <1>7. CASE Writes(Absent) /\ Seen = {Resource} /\ Resource.deleting /\ pc' = "idle"
    BY <1>7 DEF HoldInv, PledgeInv, Writes
  <1> QED
    BY <1>1, <1>2, <1>3, <1>4, <1>5, <1>6, <1>7 DEF ResourceStep

\* The worker takes the finalizer away only from the version it has seen being
\* deleted, and turns to children only for a resource seen with a finalizer.
LEMMA WorkerStep ==
  ASSUME TypeOK, FinalizerInv, Worker
  PROVE  ResourceStep /\ FinalizerHeld' /\ RemovalInv'
  <1> USE ClusterAssumption
  <1>0. /\ Resource \in {Absent} \cup Resources
        /\ Cached("WordPress") \in {Absent} \cup Resources
        /\ pc # "idle" => wp \in Resources
    BY ResourceVersions DEF TypeOK
  <1>a. pc' = "idle" => FinalizerHeld' /\ RemovalInv'
    BY DEF FinalizerHeld, RemovalInv
  <1>b. \A b : Return(b) => pc' = "idle"
    BY DEF Return
  <1>1. CASE ReconcileFinished
    <2>1. obj'["WordPress"] = obj["WordPress"] /\ pc' = "idle"
      BY <1>1 DEF ReconcileFinished, Begin, clusterVars, workerVars
    <2> QED
      BY <1>a, <2>1, StreamUnchanged DEF ResourceStep
  <1>2. CASE HandleDeletion
    <2>1. Cached("WordPress") # Absent /\ Cached("WordPress").deleting
      BY <1>2 DEF HandleDeletion, Finished
    <2>2. UNCHANGED obj \/ \E v : Put("MySQLPVC", v)
      BY <1>2 DEF HandleDeletion
    <2>3. obj'["WordPress"] = obj["WordPress"]
      BY <2>2, OtherWritten DEF Kinds
    <2>4. pc' = "idle" \/ pc' = "finalize"
      BY <1>2, <1>b DEF HandleDeletion
    <2>5. fresh' => InSync("WordPress")
      BY <1>2 DEF HandleDeletion
    <2>6. RemovalInv'
      BY <2>1, <2>3, <2>5, SeenEnds, StreamUnchanged DEF RemovalInv
    <2>7. FinalizerHeld'
      BY <2>4 DEF FinalizerHeld
    <2> QED
      BY <2>3, <2>6, <2>7, StreamUnchanged DEF ResourceStep
  <1>3. CASE RemoveFinalizer
    <2>1. pc = "finalize" /\ pc' = "idle"
      BY <1>3, <1>b DEF RemoveFinalizer
    <2>2. \/ UNCHANGED obj
          \/ PutWordPress(Absent) /\ fresh
      BY <1>3 DEF RemoveFinalizer, Effective, Outcomes
    <2>3. CASE UNCHANGED obj
      BY <1>a, <2>1, <2>3, StreamUnchanged DEF ResourceStep
    <2>4. CASE PutWordPress(Absent) /\ fresh
      <3>1. Seen = {Resource} /\ Resource.deleting
        BY <2>1, <2>4, SeenEnds DEF FinalizerInv, RemovalInv
      <3>2. Writes(Absent)
        BY <2>4, ResourceWritten
      <3> QED
        BY <1>a, <2>1, <3>1, <3>2 DEF ResourceStep
    <2> QED
      BY <2>2, <2>3, <2>4
  <1>4. CASE AddFinalizer
    <2> DEFINE cr == Cached("WordPress")
               gen == IF WriteBack(cr.spec) = cr.spec THEN cr.gen ELSE cr.gen + 1
               written == [cr EXCEPT !.finalizer = TRUE, !.spec = WriteBack(cr.spec),
                                     !.gen = gen]
    <2>1. cr \in Resources /\ ~cr.deleting
      BY <1>0, <1>4 DEF AddFinalizer, Finished
    <2>2. pc' = "idle"
      BY <1>4, <1>b DEF AddFinalizer
    <2>3. \/ UNCHANGED obj
          \/ PutWordPress(written) /\ Resource # Absent /\ InSync("WordPress")
      <3>1. PICK r \in Outcomes(UpdateResult("WordPress")) :
              IF Effective(r, UpdateResult("WordPress"))
              THEN PutWordPress(written)
              ELSE UNCHANGED <<obj, fresh>>
        BY <1>4, <2>1 DEF AddFinalizer, Resources
      <3>2. Effective(r, UpdateResult("WordPress")) => Resource # Absent /\ InSync("WordPress")
        BY DEF Effective, UpdateResult, Outcomes
      <3> QED
        BY <3>1, <3>2
    <2>4. CASE UNCHANGED obj
      BY <1>a, <2>2, <2>4, StreamUnchanged DEF ResourceStep
    <2>5. CASE PutWordPress(written) /\ Resource # Absent /\ InSync("WordPress")
      <3>1. Seen = {Resource} /\ cr = Resource
        BY <2>5, SeenEnds
      <3>2. written \in Resources
        <4>1. cr.spec \in Specs /\ cr.gen \in Nat /\ cr.gen + 1 \in Nat
          BY <2>1, ResourceUpdates DEF Resources
        <4>2. WriteBack(cr.spec) \in Specs /\ gen \in Nat
          BY <4>1, SpecOperators
        <4>3. \A s \in Specs, n \in Nat :
                [cr EXCEPT !.finalizer = TRUE, !.spec = s, !.gen = n] \in Resources
          BY <2>1 DEF Resources
        <4> QED
          BY <4>2, <4>3
      <3>3. \A s, n :
              LET w == [cr EXCEPT !.finalizer = TRUE, !.spec = s, !.gen = n]
              IN  w.uid = cr.uid /\ w.finalizer /\ w.deleting = cr.deleting /\ w.pledge = cr.pledge
        BY <2>1 DEF Resources
      <3>4. /\ written.uid = Resource.uid /\ written.finalizer
            /\ ~written.deleting /\ written.pledge = Resource.pledge
        BY <2>1, <3>1, <3>3
      <3>5. Writes(written)
        BY <2>5, <3>2, ResourceWritten
      <3> QED
        BY <1>a, <2>1, <2>2, <2>5, <3>1, <3>2, <3>4, <3>5 DEF ResourceStep
    <2> QED
      BY <2>3, <2>4, <2>5
  <1>5. CASE RejectSpec \/ AcceptSpec
    <2> DEFINE cr == Cached("WordPress")
    <2>1. cr \in Resources /\ cr.finalizer /\ ~cr.deleting
      BY <1>0, <1>5 DEF RejectSpec, AcceptSpec, BeginPass, Finished
    <2>2. obj'["WordPress"] = obj["WordPress"] /\ pc' # "finalize"
      BY <1>5 DEF RejectSpec, AcceptSpec, Persist, clusterVars
    <2>3. wp' = Defaulted \/ wp' = [Defaulted EXCEPT !.status.phase = "Failed",
                                                      !.status.ready = "False"]
      BY <1>5 DEF RejectSpec, AcceptSpec
    <2>4. wp'.uid = cr.uid
      BY <2>1, <2>3 DEF Defaulted, Resources
    <2>5. Resource # Absent /\ Resource.finalizer /\ Resource.uid = cr.uid
      BY <2>1, SeenEnds DEF FinalizerInv, HoldInv, Held
    <2> QED
      BY <2>2, <2>4, <2>5, StreamUnchanged DEF ResourceStep, FinalizerHeld, RemovalInv
  <1>6. CASE CheckUserSecret \/ UpdateStatus \/ \E k \in ChildKinds : ApplyChild(k)
    <2>1. pc \in {"secret", "children"} /\ wp \in Resources
      BY <1>0, <1>6 DEF CheckUserSecret, UpdateStatus, ApplyChild
    <2>2. obj'["WordPress"] = obj["WordPress"]
      <3>1. UNCHANGED obj \/ \E k \in ChildKinds : \E v : Put(k, v)
        BY <1>6 DEF CheckUserSecret, UpdateStatus, ApplyChild, clusterVars
      <3> QED
        BY <3>1, OtherWritten DEF Kinds, ChildKinds, DatabaseKinds, SiteKinds
    <2>3. pc' = "idle" \/ (wp'.uid = wp.uid /\ pc' \in {"children", "persist"})
      <3>1. CASE CheckUserSecret
        <4>1. \E x : wp' = [wp EXCEPT !.status.database = x]
          BY <3>1 DEF CheckUserSecret
        <4> QED
          BY <2>1, <3>1, <4>1 DEF CheckUserSecret, Persist, Resources
      <3>2. CASE UpdateStatus
        <4>1. \E x : wp' = [wp EXCEPT !.status = x]
          BY <2>1, <3>2 DEF UpdateStatus, Resources
        <4> QED
          BY <2>1, <3>2, <4>1 DEF UpdateStatus, Persist, Resources
      <3>3. CASE \E k \in ChildKinds : ApplyChild(k)
        <4>0. PICK k \in ChildKinds : ApplyChild(k)
          BY <3>3
        <4>1. PICK r : IF r = "ok"
                       THEN wp' = [wp EXCEPT !.status = Observed(k, @)] /\ pc' = pc
                       ELSE Abort(k, r)
          BY <4>0 DEF ApplyChild
        <4>2. CASE r = "ok"
          BY <2>1, <4>0, <4>1, <4>2 DEF Resources, ApplyChild
        <4>3. CASE r # "ok"
          BY <1>b, <4>1, <4>3 DEF Abort, Persist
        <4> QED
          BY <4>2, <4>3
      <3> QED
        BY <1>6, <3>1, <3>2, <3>3
    <2>4. Resource' = Resource
      BY <2>2, StreamUnchanged
    <2>5. CASE pc' = "idle"
      BY <1>a, <2>2, <2>5, StreamUnchanged DEF ResourceStep
    <2>6. CASE wp'.uid = wp.uid /\ pc' \in {"children", "persist"}
      BY <2>1, <2>2, <2>4, <2>6, StreamUnchanged
         DEF ResourceStep, FinalizerInv, FinalizerHeld, RemovalInv
    <2> QED
      BY <2>3, <2>5, <2>6
  <1>7. CASE PersistStatus
    <2>1. pc' = "idle" /\ wp \in Resources
      BY <1>0, <1>7, <1>b DEF PersistStatus
    <2>2. UNCHANGED obj \/ (PutWordPress(WithStatus(Resource)) /\ Resource # Absent)
      BY <1>7 DEF PersistStatus, Effective, Outcomes, UpdateResult
    <2>3. CASE UNCHANGED obj
      BY <1>a, <2>1, <2>3, StreamUnchanged DEF ResourceStep
    <2>4. CASE PutWordPress(WithStatus(Resource)) /\ Resource # Absent
      <3>1. WithStatus(Resource) \in Resources
        BY <1>0, <2>1, <2>4 DEF WithStatus, Resources
      <3>2. Unmarked(WithStatus(Resource))
        BY <1>0, <2>4, <3>1 DEF Unmarked, WithStatus, Resources
      <3> QED
        BY <1>a, <2>1, <2>4, <3>1, <3>2, ResourceWritten DEF ResourceStep
    <2> QED
      BY <2>2, <2>3, <2>4
  <1> QED
    BY <1>1, <1>2, <1>3, <1>4, <1>5, <1>6, <1>7 DEF Worker

-----------------------------------------------------------------------------
(* The theorems *)

\* The invariant holds at first and every step keeps it.
LEMMA FinalizerInductive ==
  /\ Init => FinalizerInv
  /\ TypeOK /\ FinalizerInv /\ [Next]_vars => FinalizerInv'
<1>1. Init => FinalizerInv
  <2> SUFFICES ASSUME Init PROVE FinalizerInv
    OBVIOUS
  <2>1. obj["WordPress"] = <<Absent>>
    BY NothingAtFirst
  <2>2. Resource = Absent /\ Seen = {Absent}
    BY <2>1 DEF Live, Seen
  <2> QED
    BY <2>2 DEF FinalizerInv, HoldInv, FinalizerHeld, RemovalInv, PledgeInv, Held, Init
<1>2. ASSUME TypeOK, FinalizerInv, [Next]_vars
      PROVE  FinalizerInv'
  <2> SUFFICES ResourceStep /\ FinalizerHeld' /\ RemovalInv'
    BY <1>2, ResourceStepKeeps DEF FinalizerInv
  <2>1. CASE Worker
    BY <1>2, <2>1, WorkerStep
  <2>2. CASE TimerFires \/ UNCHANGED vars
    <3>1. UNCHANGED <<obj, fresh, pc, wp>>
      BY <2>2 DEF TimerFires, vars, clusterVars, workerVars
    <3> QED
      BY <1>2, <3>1, StreamUnchanged
         DEF ResourceStep, FinalizerInv, FinalizerHeld, RemovalInv
  <2>3. CASE Restart
    <3>1. Same /\ pc' = "idle"
      BY <1>2, <2>3, EventSeen DEF Restart
    <3> QED
      BY <3>1 DEF ResourceStep, FinalizerHeld, RemovalInv
  <2>4. CASE \E k \in Kinds : Deliver(k)
    <3>1. PICK k \in Kinds : Deliver(k)
      BY <2>4
    <3>2. Same /\ UNCHANGED <<fresh, pc, wp>> /\ ~InSync(k)
      BY <1>2, <2>4, <3>1, EventSeen DEF Deliver, workerVars
    <3>3. FinalizerHeld'
      BY <1>2, <3>2 DEF Same, FinalizerInv, FinalizerHeld
    <3>4. ASSUME fresh', pc' = "finalize" PROVE RemovalInv'
      <4>1. InSync("WordPress") /\ Resource # Absent /\ Resource.deleting
        BY <1>2, <3>2, <3>4 DEF FinalizerInv, RemovalInv
      <4>2. k # "WordPress"
        BY <3>2, <4>1
      <4>3. obj'["WordPress"] = obj["WordPress"]
        BY <1>2, <3>1, <4>2 DEF Deliver, TypeOK, ClusterTypeOK, Kinds
      <4> QED
        BY <4>1, <4>3, StreamUnchanged DEF RemovalInv
    <3> QED
      BY <3>2, <3>3, <3>4 DEF ResourceStep, RemovalInv
  <2>5. CASE Environment /\ UNCHANGED <<queued, timer, workerVars>>
    <3>1. /\ ResourceStep /\ UNCHANGED <<pc, wp>>
          /\ (fresh' = fresh /\ obj'["WordPress"] = obj["WordPress"]) \/ ~fresh'
      BY <1>2, <2>5, EnvironmentStep DEF workerVars
    <3>2. RemovalInv'
      BY <1>2, <3>1, StreamUnchanged DEF FinalizerInv, RemovalInv
    <3>3. FinalizerHeld'
      <4> SUFFICES ASSUME pc \in {"secret", "children", "persist"}
                   PROVE  Held(Resource)' /\ Resource'.uid = wp.uid
        BY <3>1 DEF FinalizerHeld, Held
      <4>1. Held(Resource) /\ Resource.uid = wp.uid
        BY <1>2 DEF FinalizerInv, FinalizerHeld, Held
      <4>2. pc' # "idle"
        BY <3>1
      <4>3. Same \/ \E v \in Resources : /\ Writes(v) /\ v # Absent
                                         /\ v.uid = Resource.uid /\ v.finalizer
        BY <3>1, <4>1, <4>2, ClusterAssumption DEF ResourceStep, Unmarked, Marked, Held
      <4> QED
        BY <4>1, <4>3 DEF Same, Writes, Held
    <3> QED
      BY <3>1, <3>2, <3>3
  <2> QED
    BY <1>2, <2>1, <2>2, <2>3, <2>4, <2>5 DEF Next
<1> QED
  BY <1>1, <1>2

\* So every step of the system does one of those things to the resource.
LEMMA NextResourceStep ==
  ASSUME TypeOK, FinalizerInv, [Next]_vars
  PROVE  ResourceStep
  <1>1. CASE TimerFires \/ UNCHANGED vars
    BY <1>1, StreamUnchanged DEF ResourceStep, TimerFires, vars, clusterVars
  <1>2. CASE Restart \/ \E k \in Kinds : Deliver(k)
    BY <1>2, EventSeen DEF ResourceStep
  <1> QED
    BY <1>1, <1>2, WorkerStep, EnvironmentStep DEF Next

\* While a pass works on children or on the status, the resource it works for
\* is stored, is the same incarnation and carries the finalizer: reconcile adds
\* it before anything else and only handleDeletion takes it away.
THEOREM FinalizerAlwaysHeld == Spec => []FinalizerHeld
<1>1. FinalizerInv => FinalizerHeld
  BY DEF FinalizerInv
<1> QED
  BY <1>1, TypeCorrect, FinalizerInductive, PTL DEF Spec

\* However old the copy handleDeletion decides on, it does not delete the claim
\* of a resource that was deleted, and stayed, annotated with retain-data.
THEOREM RetainAlwaysHonoured == Spec => RetainHonoured
<1> DEFINE A == (HandleDeletion /\ Resource # Absent /\ Resource.pledge)
                  => UNCHANGED Live("MySQLPVC")
<1>1. ASSUME TypeOK, FinalizerInv, HandleDeletion, Resource # Absent, Resource.pledge
      PROVE  UNCHANGED Live("MySQLPVC")
  <2>1. Cached("WordPress").deleting => Cached("WordPress").retain
    BY <1>1, SeenEnds DEF FinalizerInv, PledgeInv
  <2>2. ~DeletesVolume(Cached("WordPress"))
    BY <1>1, <2>1 DEF HandleDeletion, DeletesVolume
  <2>3. UNCHANGED obj
    BY <1>1, <2>2 DEF HandleDeletion
  <2> QED
    BY <2>3 DEF Live
<1>2. TypeOK /\ FinalizerInv => A
  BY <1>1
<1> QED
  BY <1>2, TypeCorrect, FinalizerInductive, PTL DEF Spec, RetainHonoured

\* The stored version of an object is unchanged by a step that writes another
\* one, by an event that arrives and by a restart.
LEMMA OtherStored ==
  ASSUME TypeOK, NEW k \in ChildKinds,
         \/ \E j \in Kinds \ {k} : \E v : Put(j, v)
         \/ UNCHANGED obj
         \/ Restart
         \/ \E j \in Kinds : Deliver(j)
  PROVE  Live(k)' = Live(k)
  <1>0. /\ Streams /\ k \in Kinds /\ obj \in [Kinds -> Seq(Objects)]
        /\ obj[k] \in Seq(Objects) /\ obj[k] # <<>>
    BY DEF Streams, TypeOK, ClusterTypeOK, Kinds
  <1>1. CASE \E j \in Kinds \ {k} : \E v : Put(j, v)
    BY <1>0, <1>1 DEF Put, Live
  <1>2. CASE UNCHANGED obj
    BY <1>2 DEF Live
  <1>3. CASE Restart
    <2>1. obj'[k] = <<Live(k)>>
      BY <1>0, <1>3 DEF Restart
    <2> QED
      BY <2>1 DEF Live
  <1>4. CASE \E j \in Kinds : Deliver(j)
    <2>1. PICK j \in Kinds : Deliver(j)
      BY <1>4
    <2>2. CASE j # k
      BY <1>0, <2>1, <2>2 DEF Deliver, Live
    <2>3. CASE j = k
      <3>1. obj'[k] = Tail(obj[k]) /\ Len(obj[k]) # 1
        BY <1>0, <2>1, <2>3 DEF Deliver, InSync
      <3> DEFINE s == obj[k]
      <3>2. Len(s) \in Nat /\ Len(s) # 0
        BY <1>0
      <3>3. /\ Len(Tail(s)) = Len(s) - 1
            /\ \A i \in 1..Len(Tail(s)) : Tail(s)[i] = s[i + 1]
        BY <1>0
      <3>4. Len(s) - 1 \in 1..Len(Tail(s)) /\ (Len(s) - 1) + 1 = Len(s)
        <4>1. Len(s) # 1
          BY <3>1
        <4>2. \A n \in Nat : n # 0 /\ n # 1 => n - 1 \in 1..(n - 1) /\ (n - 1) + 1 = n
          OBVIOUS
        <4>3. Len(Tail(s)) = Len(s) - 1
          BY <3>3
        <4> QED
          BY <3>2, <4>1, <4>2, <4>3
      <3>5. Tail(s)[Len(Tail(s))] = s[Len(s)]
        BY <3>3, <3>4
      <3> QED
        BY <3>1, <3>5 DEF Live
    <2> QED
      BY <2>2, <2>3
  <1> QED
    BY <1>1, <1>2, <1>3, <1>4

\* A child is created only for the stored incarnation of its owner: the pass
\* that creates it holds that incarnation by its finalizer.
THEOREM AlwaysCreatedForLiveOwner == Spec => CreatedForLiveOwner
<1> USE ClusterAssumption
<1> DEFINE Born(k) == Live(k) = Absent /\ Live(k)' # Absent
           Rightful(k) == \/ Live(k)'.owner = 0
                          \/ Resource # Absent /\ Resource.uid = Live(k)'.owner
           A == \A k \in ChildKinds : Born(k) => Rightful(k)
<1>1. ASSUME TypeOK, FinalizerInv, [Next]_vars, NEW k \in ChildKinds, Born(k)
      PROVE  Rightful(k)
  <2>0. k \in Kinds /\ Streams
    BY <1>1 DEF Kinds, Streams, TypeOK, ClusterTypeOK
  <2>1. CASE \/ \E j \in Kinds \ {k} : \E v : Put(j, v)
             \/ UNCHANGED obj
             \/ Restart
             \/ \E j \in Kinds : Deliver(j)
    BY <1>1, <2>1, OtherStored
  <2>2. CASE CreateForeign(k)
    <3>1. Live(k)' = NotOwned
      BY <2>0, <2>2, PutStream, NotOwnedType, VersionsOf DEF CreateForeign
    <3> QED
      BY <3>1 DEF NotOwned
  <2>3. CASE ApplyChild(k)
    <3>1. PICK r \in IF Call(k) = "none" THEN {"ok"} ELSE Outcomes(Result(k)) :
            IF Effective(r, Result(k))
            THEN \E p \in Generated : Put(k, Written(k, p))
            ELSE UNCHANGED obj
      BY <2>3 DEF ApplyChild
    <3>2. CASE ~Effective(r, Result(k))
      BY <2>1, <3>1, <3>2
    <3>3. ASSUME Effective(r, Result(k)), NEW p \in Generated, Put(k, Written(k, p)),
                 Call(k) = "create"
          PROVE  Rightful(k)
      <4>1. pc = "children" /\ wp \in Resources /\ Password(k, p) \in Nat
        BY <1>1, <2>3 DEF ApplyChild, TypeOK, Generated, Password
      <4>2. Resource # Absent /\ Resource.uid = wp.uid
        BY <1>1, <4>1 DEF FinalizerInv, FinalizerHeld
      <4>3. Written(k, p) = [owner |-> wp.uid, content |-> Render(k, wp.spec),
                             claims |-> ClaimTemplates(k, wp.spec),
                             pods |-> "unready", password |-> Password(k, p)]
        BY <3>3 DEF Written
      <4>4. Written(k, p) \in Versions(k)
        BY <4>1, <4>3, SpecOperators, VersionsOf DEF Resources, Children
      <4>5. Live(k)' = Written(k, p)
        BY <2>0, <3>3, <4>4, PutStream
      <4> QED
        BY <4>2, <4>3, <4>5
    <3>4. ASSUME Effective(r, Result(k)), NEW p \in Generated, Put(k, Written(k, p)),
                 Call(k) # "create"
          PROVE  Rightful(k)
      <4>1. Call(k) # "update"
        BY <1>1, <3>1, <3>4 DEF Effective, Outcomes, Result, UpdateResult
      <4>2. Written(k, p) = Absent
        BY <1>1, <3>4, <4>1 DEF Written
      <4>3. Live(k)' = Absent
        BY <2>0, <3>4, <4>2, PutStream, VersionsOf
      <4> QED
        BY <1>1, <4>3
    <3> QED
      BY <3>1, <3>2, <3>3, <3>4
  <2>4. CASE Worker /\ ~ApplyChild(k)
    <3>1. UNCHANGED obj \/ \E j \in Kinds \ {k} : \E v : Put(j, v)
      <4>1. \A v : PutWordPress(v) => \E j \in Kinds \ {k} : \E w : Put(j, w)
        BY DEF PutWordPress, Kinds, ChildKinds, DatabaseKinds, SiteKinds
      <4>2. CASE \E j \in ChildKinds : ApplyChild(j)
        <5>1. PICK j \in ChildKinds \ {k} : ApplyChild(j)
          BY <2>4, <4>2
        <5> QED
          BY <5>1 DEF ApplyChild, Kinds
      <4>3. CASE HandleDeletion
        <5>1. UNCHANGED obj \/ \E v : Put("MySQLPVC", v)
          BY <4>3 DEF HandleDeletion
        <5> QED
          BY <5>1 DEF Kinds, ChildKinds, DatabaseKinds, SiteKinds
      <4>4. CASE RemoveFinalizer
        BY <4>1, <4>4 DEF RemoveFinalizer
      <4>5. CASE AddFinalizer
        <5>1. UNCHANGED obj \/ \E v : PutWordPress(v)
          BY <4>5 DEF AddFinalizer
        <5> QED
          BY <4>1, <5>1
      <4>6. CASE PersistStatus
        BY <4>1, <4>6 DEF PersistStatus
      <4>7. CASE ReconcileFinished \/ RejectSpec \/ AcceptSpec \/ CheckUserSecret \/ UpdateStatus
        BY <4>7 DEF ReconcileFinished, RejectSpec, AcceptSpec, CheckUserSecret, UpdateStatus,
           clusterVars
      <4> QED
        BY <2>4, <4>2, <4>3, <4>4, <4>5, <4>6, <4>7 DEF Worker
    <3> QED
      BY <2>1, <3>1
  <2>5. CASE Environment /\ ~CreateForeign(k)
    <3>1. \E j \in Kinds \ {k} : \E v : Put(j, v)
      <4>1. {"WordPress", "UserSecret", "MySQLPVC"} \subseteq Kinds \ {k}
        BY DEF Kinds, ChildKinds, DatabaseKinds, SiteKinds
      <4>2. CASE CreateWordPress \/ EditSpec \/ Annotate \/ DeleteWordPress
        <5>1. \E v : Put("WordPress", v)
          BY <4>2 DEF CreateWordPress, EditSpec, Annotate, DeleteWordPress, PutWordPress
        <5> QED
          BY <4>1, <5>1
      <4>3. CASE ToggleUserSecret \/ ProvisionVolume \/ InitialiseVolume \/ ReleaseVolume
        BY <4>1, <4>3 DEF ToggleUserSecret, ProvisionVolume, InitialiseVolume, ReleaseVolume
      <4>4. CASE \E j \in ChildKinds : Drift(j) \/ CreateForeign(j) \/ CollectGarbage(j)
        <5>1. PICK j \in ChildKinds : Drift(j) \/ CreateForeign(j) \/ CollectGarbage(j)
          BY <4>4
        <5>2. j # k
          BY <1>1, <2>5, <5>1 DEF Drift, CollectGarbage, Orphaned
        <5> QED
          BY <5>1, <5>2 DEF Drift, CreateForeign, CollectGarbage, Kinds
      <4>5. CASE \E j \in Workloads : BecomeReady(j) \/ RollOut(j) \/ BecomeUnready(j)
        <5>1. PICK j \in Workloads : BecomeReady(j) \/ RollOut(j) \/ BecomeUnready(j)
          BY <4>5
        <5>2. j \in Kinds /\ j # k
          BY <1>1, <5>1 DEF BecomeReady, RollOut, BecomeUnready, Workloads, Kinds, ChildKinds,
             DatabaseKinds, SiteKinds
        <5> QED
          BY <5>1, <5>2 DEF BecomeReady, RollOut, BecomeUnready
      <4>6. CASE Autoscale
        <5>1. "Deployment" # k /\ "Deployment" \in Kinds
          BY <1>1, <4>6 DEF Autoscale, Kinds, ChildKinds, SiteKinds
        <5> QED
          BY <4>6, <5>1 DEF Autoscale
      <4> QED
        BY <2>5, <4>2, <4>3, <4>4, <4>5, <4>6 DEF Environment
    <3> QED
      BY <2>1, <3>1
  <2>6. CASE TimerFires \/ UNCHANGED vars
    BY <2>1, <2>6 DEF TimerFires, vars, clusterVars
  <2> QED
    BY <1>1, <2>1, <2>2, <2>3, <2>4, <2>5, <2>6 DEF Next
<1>2. TypeOK /\ FinalizerInv /\ [Next]_vars => A
  BY <1>1
<1> QED
  BY <1>2, TypeCorrect, FinalizerInductive, PTL DEF Spec, CreatedForLiveOwner
=============================================================================
