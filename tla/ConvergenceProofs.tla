-------------------------- MODULE ConvergenceProofs --------------------------
(***************************************************************************)
(* No wake-up is lost, for every value of the constants: a controller with *)
(* nothing left to do leaves the children as the stored spec asks.         *)
(***************************************************************************)
EXTENDS OwnershipProofs

USE DEF Resource

-----------------------------------------------------------------------------
(* What the theorem assumes of the constants *)

\* The update that adds the finalizer changes every valid spec that users submit.
Rewritten ==
  \A s \in Submitted : validateSpec(applyDefaults(s)) => WriteBack(s) # s

\* Nobody takes the name of an Ingress or autoscaler.
Unclaimed == Preexisting \cap Optional = {}

-----------------------------------------------------------------------------
(* The inductive invariant *)

\* Among the changes of the resource still on their way from the i-th version
\* on is one that the event filter lets through.
Notified(i) ==
  \E j \in i..(Len(obj["WordPress"]) - 1) :
    Enqueues("WordPress", obj["WordPress"][j], obj["WordPress"][j + 1])

\* Two versions that a pass cannot tell apart.
Alike(v, w) ==
  IF v = Absent \/ w = Absent THEN v = w
  ELSE v.uid = w.uid /\ v.gen = w.gen /\ v.spec = w.spec /\ v.deleting = w.deleting

\* The filter drops no change that matters.
AlikeInv ==
  \A i \in 1..Len(obj["WordPress"]) : Alike(obj["WordPress"][i], Resource) \/ Notified(i)

\* Every change of a child is one its owner hears of.
OwnedInv ==
  \A k \in ChildKinds :
    /\ \A v \in Stream(k) \ {Absent} : v.owner # 0
    /\ \A i \in 1..(Len(obj[k]) - 1) : obj[k][i] # obj[k][i + 1]

\* Until the finalizer is added the stored spec is the submitted one.
SubmittedInv ==
  \A v \in Stream("WordPress") : (v # Absent /\ ~v.finalizer) => v.spec \in Submitted

NoticeInv == AlikeInv /\ OwnedInv /\ SubmittedInv

\* Something will start another pass.
Wake == queued \/ timer \/ Notified(1) \/ \E k \in ChildKinds : ~InSync(k)

\* A resource that nothing will remind the controller of.
Unprompted == Running /\ ~Wake

\* A valid one.
Unattended == Unprompted /\ validateSpec(Desired)

Passing == pc \in {"secret", "children", "persist"}

Current == wp.uid = Resource.uid /\ wp.gen = Resource.gen /\ wp.spec = Desired

AllSettled == \A k \in Visited : Settled(k)

\* Then the pass at hand, if there is one, works on the stored spec, has settled
\* what it has visited, and will leave nothing unsettled without asking for
\* another one.
Progress ==
  /\ pc # "finalize"
  /\ pc = "idle"     => AllSettled
  /\ pc = "secret"   => Current /\ Desired.mode = "External"
  /\ pc = "children" =>
       Current /\ \A k \in Visited : Settled(k) \/ \E i \in 1..Len(todo) : todo[i] = k
  /\ pc = "persist"  =>
       /\ after \in {"done", "dbError", "noSecret"}
       /\ after = "done" => AllSettled

WakeInv == Unattended => Progress

-----------------------------------------------------------------------------
(* The streams *)

\* How the stored resource changes.  The generation counts the changes of the
\* spec, which users make and the addition of the finalizer may make; only the
\* controller writes a status, over the version it has in its cache.
Revised ==
  /\ Resource # Absent /\ Resource' # Absent /\ Resource'.uid = Resource.uid
  /\ \/ /\ Resource'.gen = Resource.gen /\ Resource'.spec = Resource.spec
        /\ Resource'.deleting = Resource.deleting
        /\ Resource.finalizer => Resource'.finalizer
     \/ /\ Resource'.gen = Resource.gen + 1
        /\ Resource'.deleting => Resource.deleting \/ DeleteWordPress
        /\ \/ Resource'.spec \in Submitted
           \/ /\ Resource'.finalizer
              /\ Resource'.spec \in {Resource.spec, WriteBack(Resource.spec)}

Created ==
  /\ Resource = Absent /\ Resource' # Absent
  /\ Resource'.uid = used'["create"] /\ used'["create"] = used["create"] + 1
  /\ Resource'.gen = 1 /\ Resource'.spec \in Submitted /\ Resource'.status = NoStatus
  /\ ~Resource'.deleting

StatusWritten ==
  /\ PersistStatus /\ InSync("WordPress")
  /\ Resource'.gen = Resource.gen /\ Resource'.status = wp.status

ResourceHistory ==
  \/ Resource' = Resource
  \/ Resource' = Absent /\ (DeleteWordPress \/ RemoveFinalizer)
  \/ Created
  \/ Revised /\ (Resource'.status = Resource.status \/ StatusWritten)

\* A change that matters is one the filter lets through, and only users choose
\* the spec of an object without finalizer.
ResourceChange ==
  /\ Alike(Resource, Resource') \/ Enqueues("WordPress", Resource, Resource')
  /\ (Resource' # Absent /\ ~Resource'.finalizer) =>
       \/ Resource'.spec \in Submitted
       \/ /\ Resource # Absent /\ ~Resource.finalizer
          /\ Resource'.spec = Resource.spec

\* Every step changes the stored resource in one of these ways: the user's
\* actions, the addition and removal of the finalizer, the status write.
LEMMA NextHistory ==
  ASSUME TypeOK, [Next]_vars
  PROVE  ResourceHistory
  <1> USE ClusterAssumption
  <1>0. /\ "WordPress" \in Kinds /\ ClusterTypeOK
        /\ Resource \in {Absent} \cup Resources
        /\ Cached("WordPress") \in {Absent} \cup Resources
    BY ResourceVersions DEF TypeOK, Kinds
  <1>1. \A v : PutWordPress(v) => Resource' = v
    BY <1>0, PutLive DEF PutWordPress
  <1>2. ASSUME Resource' = Resource PROVE ResourceHistory
    BY <1>2 DEF ResourceHistory
  <1>3. ASSUME NEW v \in Resources, Resource \in Resources, Resource' = v,
               v.uid = Resource.uid, v.status = Resource.status,
               \/ /\ v.gen = Resource.gen /\ v.spec = Resource.spec
                  /\ v.deleting = Resource.deleting
                  /\ Resource.finalizer => v.finalizer
               \/ /\ v.gen = Resource.gen + 1
                  /\ v.deleting => Resource.deleting \/ DeleteWordPress
                  /\ \/ v.spec \in Submitted
                     \/ v.finalizer /\ v.spec \in {Resource.spec, WriteBack(Resource.spec)}
        PROVE  ResourceHistory
    BY <1>3 DEF ResourceHistory, Revised
  <1>5. ASSUME Resource' = Absent, DeleteWordPress \/ RemoveFinalizer
        PROVE  ResourceHistory
    BY <1>5 DEF ResourceHistory
  <1>6. CASE CreateWordPress
    <2>1. PICK s \in Submitted :
            Resource' = [uid |-> used'["create"], gen |-> 1, spec |-> s,
                         retain |-> FALSE, deleting |-> FALSE, finalizer |-> FALSE,
                         pledge |-> FALSE, status |-> NoStatus]
      BY <1>1, <1>6 DEF CreateWordPress
    <2>2. Resource = Absent /\ used' = [used EXCEPT !["create"] = @ + 1]
      BY <1>6 DEF CreateWordPress, Spend
    <2>3. used \in [Disturbances -> Nat] /\ used["create"] \in Nat
      BY <1>0 DEF ClusterTypeOK, Disturbances
    <2>4. used'["create"] = used["create"] + 1
      BY <2>2, <2>3 DEF Disturbances
    <2>5. s \in Specs /\ NoStatus \in Statuses
      BY DEF NoStatus, Statuses, Ternary
    <2>6. \A n \in Nat, x \in Specs, y \in Statuses :
            [uid |-> n, gen |-> 1, spec |-> x, retain |-> FALSE, deleting |-> FALSE,
             finalizer |-> FALSE, pledge |-> FALSE, status |-> y] \in Resources
      BY DEF Resources
    <2>7. used'["create"] \in Nat
      BY <2>3, <2>4
    <2>8. Resource' \in Resources
      BY <2>1, <2>5, <2>6, <2>7, Zenon
    <2> QED
      BY <2>1, <2>2, <2>4, <2>8 DEF ResourceHistory, Created
  <1>7. CASE EditSpec
    <2>1. Resource \in Resources
      BY <1>0, <1>7 DEF EditSpec
    <2>2. PICK s \in Submitted : PutWordPress([Resource EXCEPT !.spec = s, !.gen = @ + 1])
      BY <1>7 DEF EditSpec
    <2> DEFINE new == [Resource EXCEPT !.spec = s, !.gen = @ + 1]
    <2>3. new \in Resources
      BY <2>1, ResourceUpdates
    <2>4. /\ new.gen = Resource.gen + 1 /\ new.spec = s /\ new.uid = Resource.uid
          /\ new.status = Resource.status /\ new.deleting = Resource.deleting
      BY <2>1 DEF Resources
    <2> QED
      BY <1>1, <1>3, <2>1, <2>2, <2>3, <2>4
  <1>8. CASE Annotate
    <2> DEFINE new == [Resource EXCEPT !.retain = ~@, !.pledge = FALSE]
    <2>1. Resource \in Resources /\ PutWordPress(new)
      BY <1>0, <1>8 DEF Annotate
    <2>2. new \in Resources
      BY <2>1 DEF Resources
    <2>3. /\ new.uid = Resource.uid /\ new.spec = Resource.spec /\ new.gen = Resource.gen
          /\ new.deleting = Resource.deleting /\ new.finalizer = Resource.finalizer
          /\ new.status = Resource.status
      BY <2>1 DEF Resources
    <2> QED
      BY <1>1, <1>3, <2>1, <2>2, <2>3
  <1>9. CASE DeleteWordPress
    <2> DEFINE new == [Resource EXCEPT !.deleting = TRUE, !.gen = @ + 1,
                                       !.pledge = Resource.retain]
    <2>1. Resource \in Resources
      BY <1>0, <1>9 DEF DeleteWordPress
    <2>2. CASE Resource.finalizer
      <3>1. PutWordPress(new)
        BY <1>9, <2>2 DEF DeleteWordPress
      <3>2. Resource.spec \in Specs
        BY <2>1 DEF Resources
      <3>3. new \in Resources
        BY <2>1, <3>2, ResourceUpdates
      <3>4. /\ new.gen = Resource.gen + 1 /\ new.finalizer /\ new.uid = Resource.uid
            /\ new.spec = Resource.spec /\ new.status = Resource.status
        BY <2>1, <2>2 DEF Resources
      <3> QED
        BY <1>1, <1>3, <1>9, <2>1, <3>1, <3>3, <3>4
    <2>3. CASE ~Resource.finalizer
      <3>1. PutWordPress(Absent)
        BY <1>9, <2>3 DEF DeleteWordPress
      <3> QED
        BY <1>1, <1>5, <1>9, <3>1
    <2> QED
      BY <2>2, <2>3
  <1>10. CASE RemoveFinalizer
    <2>1. UNCHANGED obj \/ PutWordPress(Absent)
      BY <1>10 DEF RemoveFinalizer
    <2>2. UNCHANGED obj => Resource' = Resource
      BY DEF Live
    <2> QED
      BY <1>1, <1>2, <1>5, <1>10, <2>1, <2>2
  <1>11. CASE AddFinalizer
    <2> DEFINE cr  == Cached("WordPress")
               gen == IF WriteBack(cr.spec) = cr.spec THEN cr.gen ELSE cr.gen + 1
               new == [cr EXCEPT !.finalizer = TRUE, !.spec = WriteBack(cr.spec), !.gen = gen]
    <2>1. cr \in Resources /\ ~cr.deleting
      BY <1>0, <1>11 DEF AddFinalizer, Finished
    <2>2. \/ UNCHANGED obj
          \/ PutWordPress(new) /\ Resource # Absent /\ InSync("WordPress")
      <3>1. PICK r \in Outcomes(UpdateResult("WordPress")) :
              IF Effective(r, UpdateResult("WordPress"))
              THEN PutWordPress(new) ELSE UNCHANGED <<obj, fresh>>
        BY <1>11, <2>1 DEF AddFinalizer, Resources
      <3>2. Effective(r, UpdateResult("WordPress")) => Resource # Absent /\ InSync("WordPress")
        BY DEF Effective, UpdateResult, Outcomes
      <3> QED
        BY <3>1, <3>2
    <2>3. CASE UNCHANGED obj
      <3>1. Resource' = Resource
        BY <2>3 DEF Live
      <3> QED
        BY <1>2, <3>1
    <2>4. CASE PutWordPress(new) /\ Resource # Absent /\ InSync("WordPress")
      <3>1. cr = Resource /\ Resource' = new
        BY <1>1, <2>4, SeenEnds
      <3>2. /\ cr.spec \in Specs /\ cr.gen \in Nat /\ gen \in Nat
            /\ WriteBack(cr.spec) \in Specs
        BY <2>1, SpecOperators DEF Resources
      <3>3. /\ new \in Resources /\ new.gen = gen /\ new.spec = WriteBack(cr.spec)
            /\ new.finalizer /\ new.uid = cr.uid /\ new.deleting = cr.deleting
            /\ new.status = cr.status
        <4> DEFINE w(s, n) == [cr EXCEPT !.finalizer = TRUE, !.spec = s, !.gen = n]
        <4>1. \A s \in Specs, n \in Nat :
                /\ w(s, n) \in Resources /\ w(s, n).gen = n /\ w(s, n).spec = s
                /\ w(s, n).finalizer /\ w(s, n).uid = cr.uid
                /\ w(s, n).deleting = cr.deleting /\ w(s, n).status = cr.status
          BY <2>1 DEF Resources
        <4>2. new = w(WriteBack(cr.spec), gen)
          OBVIOUS
        <4> HIDE DEF w, new, gen, cr
        <4> QED
          BY <3>2, <4>1, <4>2
      <3>4. CASE WriteBack(cr.spec) = cr.spec
        BY <1>3, <2>1, <3>1, <3>3, <3>4
      <3>5. CASE WriteBack(cr.spec) # cr.spec
        BY <1>3, <2>1, <3>1, <3>3, <3>5
      <3> QED
        BY <3>4, <3>5
    <2> QED
      BY <2>2, <2>3, <2>4
  <1>12. CASE PersistStatus
    <2>1. wp \in Resources
      BY <1>12 DEF PersistStatus, TypeOK
    <2>2. \/ UNCHANGED obj
          \/ /\ PutWordPress(WithStatus(Resource)) /\ Resource # Absent
             /\ InSync("WordPress")
      BY <1>12 DEF PersistStatus, Effective, Outcomes, UpdateResult
    <2>3. CASE UNCHANGED obj
      <3>1. Resource' = Resource
        BY <2>3 DEF Live
      <3> QED
        BY <1>2, <3>1
    <2>4. CASE /\ PutWordPress(WithStatus(Resource)) /\ Resource # Absent
               /\ InSync("WordPress")
      <3> DEFINE new == WithStatus(Resource)
      <3>1. Resource \in Resources
        BY <1>0, <2>4
      <3>2. /\ new \in Resources /\ new.uid = Resource.uid /\ new.spec = Resource.spec
            /\ new.deleting = Resource.deleting /\ new.finalizer = Resource.finalizer
            /\ new.gen = Resource.gen /\ new.status = wp.status
        BY <2>1, <3>1 DEF WithStatus, Resources
      <3>3. Resource' = new
        BY <1>1, <2>4
      <3> HIDE DEF new
      <3>4. Revised /\ StatusWritten
        BY <1>12, <2>4, <3>1, <3>2, <3>3 DEF Revised, StatusWritten
      <3> QED
        BY <3>4 DEF ResourceHistory
    <2> QED
      BY <2>2, <2>3, <2>4
  <1>13. ASSUME \/ UNCHANGED obj \/ Restart \/ \E k \in Kinds : Deliver(k)
                \/ \E k \in Kinds \ {"WordPress"} : \E v : Put(k, v)
         PROVE  ResourceHistory
    <2>1. CASE \E k \in Kinds \ {"WordPress"} : \E v : Put(k, v)
      BY <1>0, <1>2, <2>1, PutLive DEF Only
    <2>2. CASE UNCHANGED obj \/ Restart \/ \E k \in Kinds : Deliver(k)
      BY <1>0, <1>2, <2>2, NothingStored DEF Untouched
    <2> QED
      BY <1>13, <2>1, <2>2
  <1>14. ASSUME \/ HandleDeletion \/ (\E k \in ChildKinds : ApplyChild(k))
                \/ ReconcileFinished \/ RejectSpec \/ AcceptSpec
                \/ CheckUserSecret \/ UpdateStatus
         PROVE  ResourceHistory
    <2>1. {"MySQLPVC"} \cup ChildKinds \subseteq Kinds \ {"WordPress"}
      BY DEF Kinds, ChildKinds, DatabaseKinds, SiteKinds
    <2>2. CASE HandleDeletion
      BY <1>13, <2>1, <2>2 DEF HandleDeletion
    <2>3. CASE \E k \in ChildKinds : ApplyChild(k)
      BY <1>13, <2>1, <2>3 DEF ApplyChild
    <2>4. CASE \/ ReconcileFinished \/ RejectSpec \/ AcceptSpec
               \/ CheckUserSecret \/ UpdateStatus
      BY <1>13, <2>4 DEF ReconcileFinished, RejectSpec, AcceptSpec, CheckUserSecret,
         UpdateStatus, clusterVars
    <2> QED
      BY <1>14, <2>2, <2>3, <2>4
  <1>15. ASSUME Environment, ~CreateWordPress, ~EditSpec, ~Annotate, ~DeleteWordPress
         PROVE  ResourceHistory
    <2>1. \E k \in Kinds \ {"WordPress"} : \E v : Put(k, v)
      BY <1>15 DEF Environment, ToggleUserSecret, Autoscale, ProvisionVolume, InitialiseVolume,
         ReleaseVolume, Drift, CreateForeign, CollectGarbage, BecomeReady, RollOut,
         BecomeUnready, Workloads, Kinds, ChildKinds, DatabaseKinds, SiteKinds
    <2> QED
      BY <1>13, <2>1
  <1> QED
    BY <1>6, <1>7, <1>8, <1>9, <1>10, <1>11, <1>12, <1>13, <1>14, <1>15
       DEF Next, Worker, TimerFires, vars, clusterVars

\* So the filter lets every change through that a pass must see
\* (GenerationChangedPredicate).
LEMMA NextResourceChange ==
  ASSUME TypeOK, [Next]_vars
  PROVE  ResourceChange
  <1>1. Resource # Absent => Resource.gen \in Nat
    BY ResourceVersions DEF TypeOK, Resources
  <1>2. ResourceHistory
    BY NextHistory
  <1>3. CASE Resource' = Resource
    BY <1>3 DEF ResourceChange, Alike
  <1>4. CASE Resource' = Absent \/ Created
    BY <1>4 DEF ResourceChange, Enqueues, Created, Alike
  <1>5. CASE Revised
    <2>1. \A n \in Nat : n # n + 1
      OBVIOUS
    <2> QED
      BY <1>1, <1>5, <2>1 DEF Revised, ResourceChange, Enqueues, Alike
  <1> QED
    BY <1>2, <1>3, <1>4, <1>5 DEF ResourceHistory

\* Positions of a stream before and after a step, for the one stream at hand.
LEMMA StreamIndices ==
  ASSUME TypeOK, TypeOK', NEW k \in Kinds
  PROVE  /\ Len(obj[k]) \in Nat /\ Len(obj[k]) > 0 /\ Cached(k) = obj[k][1]
         /\ Len(obj'[k]) \in Nat /\ Len(obj'[k]) > 0
  <1>1. /\ obj[k] \in Seq(Objects) /\ obj[k] # <<>>
        /\ obj'[k] \in Seq(Objects) /\ obj'[k] # <<>>
    BY DEF TypeOK, ClusterTypeOK
  <1>2. /\ Len(obj[k]) \in Nat /\ Len(obj[k]) # 0 /\ Head(obj[k]) = obj[k][1]
        /\ Len(obj'[k]) \in Nat /\ Len(obj'[k]) # 0
    BY <1>1
  <1> QED
    BY <1>2 DEF Cached

\* An event that is on its way stays so until it is delivered.
LEMMA NotifiedKept ==
  ASSUME TypeOK, TypeOK', Kept("WordPress") \/ Grown("WordPress"),
         NEW i \in Nat \ {0}, Notified(i)
  PROVE  Notified(i)'
  <1> DEFINE s == obj["WordPress"]
             t == obj'["WordPress"]
  <1>0. Len(s) \in Nat /\ "WordPress" \in Kinds
    BY StreamIndices DEF Kinds
  <1>1. PICK j \in i..(Len(s) - 1) : Enqueues("WordPress", s[j], s[j + 1])
    BY DEF Notified
  <1>2. j \in 1..Len(s) /\ j + 1 \in 1..Len(s)
    BY <1>0, <1>1
  <1>3. /\ t[j] = s[j] /\ t[j + 1] = s[j + 1]
        /\ Len(t) = Len(s) \/ Len(t) = Len(s) + 1
    BY <1>2 DEF Kept, Grown
  <1>4. j \in i..(Len(t) - 1)
    BY <1>0, <1>1, <1>3
  <1> QED
    BY <1>1, <1>3, <1>4 DEF Notified

\* One that is behind the head of the stream when the head is delivered stays.
LEMMA NotifiedShifted ==
  ASSUME TypeOK, TypeOK', Shifted("WordPress"), NEW i \in Nat \ {0}, Notified(i + 1)
  PROVE  Notified(i)'
  <1> DEFINE s == obj["WordPress"]
             t == obj'["WordPress"]
  <1>0. Len(s) \in Nat /\ "WordPress" \in Kinds /\ Len(t) = Len(s) - 1
    BY StreamIndices DEF Kinds, Shifted
  <1>1. PICK j \in (i + 1)..(Len(s) - 1) : Enqueues("WordPress", s[j], s[j + 1])
    BY DEF Notified
  <1>2. /\ j - 1 \in 1..Len(t) /\ j \in 1..Len(t) /\ (j - 1) + 1 = j
        /\ j - 1 \in i..(Len(t) - 1)
    BY <1>0, <1>1
  <1>3. t[j - 1] = s[j] /\ t[j] = s[j + 1]
    BY <1>2 DEF Shifted
  <1>4. Enqueues("WordPress", t[j - 1], t[(j - 1) + 1])
    BY <1>1, <1>2, <1>3
  <1> QED
    BY <1>2, <1>4 DEF Notified

\* The version just stored is announced to whatever reads the stream.
LEMMA NotifiedGrown ==
  ASSUME TypeOK, TypeOK', Grown("WordPress"), Enqueues("WordPress", Resource, Resource'),
         NEW i \in 1..Len(obj["WordPress"])
  PROVE  Notified(i)'
  <1> DEFINE s == obj["WordPress"]
             t == obj'["WordPress"]
             n == Len(obj["WordPress"])
  <1>0. n \in Nat /\ n > 0 /\ "WordPress" \in Kinds /\ Len(t) = n + 1
    BY StreamIndices DEF Kinds, Grown
  <1>1. t[n] = Resource /\ t[n + 1] = Resource' /\ n \in i..(Len(t) - 1)
    BY <1>0 DEF Grown, Live
  <1> QED
    BY <1>1 DEF Notified

\* The filter keeps dropping nothing that matters.
LEMMA AlikeStep ==
  ASSUME TypeOK, TypeOK', AlikeInv, ResourceChange, StreamStep("WordPress")
  PROVE  AlikeInv'
  <1> DEFINE s == obj["WordPress"]
             t == obj'["WordPress"]
  <1>0. /\ Len(s) \in Nat /\ Len(s) > 0 /\ Len(t) \in Nat /\ "WordPress" \in Kinds
    BY StreamIndices DEF Kinds
  <1>r. \A v : Alike(v, v)
    BY DEF Alike
  <1> SUFFICES ASSUME NEW i \in 1..Len(t)
               PROVE  Alike(t[i], Resource') \/ Notified(i)'
    BY DEF AlikeInv
  <1>1. CASE Kept("WordPress") /\ Resource' = Resource
    <2>1. i \in 1..Len(s) /\ t[i] = s[i]
      BY <1>1 DEF Kept
    <2>2. Notified(i) => Notified(i)'
      BY <1>1, NotifiedKept
    <2> QED
      BY <1>1, <2>1, <2>2 DEF AlikeInv
  <1>2. CASE Shifted("WordPress") /\ Resource' = Resource
    <2>1. i + 1 \in 1..Len(s) /\ t[i] = s[i + 1]
      BY <1>0, <1>2 DEF Shifted
    <2>2. Notified(i + 1) => Notified(i)'
      BY <1>2, NotifiedShifted
    <2> QED
      BY <1>2, <2>1, <2>2 DEF AlikeInv
  <1>3. CASE Listed("WordPress") /\ Resource' = Resource
    <2>1. t[i] = Resource
      BY <1>3 DEF Listed
    <2> QED
      BY <1>3, <1>r, <2>1
  <1>4. CASE Grown("WordPress")
    <2>1. CASE i = Len(s) + 1
      BY <1>4, <1>r, <2>1 DEF Grown
    <2>2. CASE i \in 1..Len(s)
      <3>1. t[i] = s[i]
        BY <1>4, <2>2 DEF Grown
      <3>2. Notified(i) => Notified(i)'
        BY <1>4, NotifiedKept
      <3>3. Enqueues("WordPress", Resource, Resource') => Notified(i)'
        BY <1>4, <2>2, NotifiedGrown
      <3>4. Alike(s[i], Resource) /\ Alike(Resource, Resource') => Alike(s[i], Resource')
        BY DEF Alike
      <3> QED
        BY <2>2, <3>1, <3>2, <3>3, <3>4 DEF AlikeInv, ResourceChange
    <2>3. i = Len(s) + 1 \/ i \in 1..Len(s)
      BY <1>0, <1>4 DEF Grown
    <2> QED
      BY <2>1, <2>2, <2>3
  <1> QED
    BY <1>1, <1>2, <1>3, <1>4 DEF StreamStep

\* No child without an owner comes into being, and no write stores what is stored.
LEMMA OwnedStep ==
  ASSUME TypeOK, TypeOK', Unclaimed, FinalizerInv, OwnerInv, OwnedInv, [Next]_vars
  PROVE  OwnedInv'
  <1> SUFFICES ASSUME NEW k \in ChildKinds
               PROVE  /\ \A v \in Stream(k)' \ {Absent} : v.owner # 0
                      /\ \A i \in 1..(Len(obj'[k]) - 1) : obj'[k][i] # obj'[k][i + 1]
    BY DEF OwnedInv
  <1> DEFINE s == obj[k]
             t == obj'[k]
  <1>0. /\ k \in Kinds /\ Len(s) \in Nat /\ Len(s) > 0 /\ Len(t) \in Nat
        /\ Live(k) \in Stream(k) /\ Stream(k)' \subseteq Stream(k) \cup {Live(k)'}
    BY Apart, StreamIndices, LiveInStream, StreamGrows
  <1>1. Live(k)' # Absent => Live(k)'.owner # 0
    <2>1. CASE Live(k)' = Live(k)
      BY <1>0, <2>1 DEF OwnedInv
    <2>2. CASE ChildStep(k)
      <3>1. Resource # Absent => Resource.uid \in Nat /\ 0 < Resource.uid
        BY ResourceVersions DEF TypeOK, OwnerInv, Resources
      <3> QED
        BY <1>0, <2>2, <3>1 DEF OwnedInv, ChildStep, Unclaimed, Held
    <2>3. ASSUME NEW j \in ChildKinds \ {k}, ChildStep(j)
          PROVE  Live(k)' = Live(k)
      BY <2>3, Apart DEF ChildStep, Only
    <2>4. Untouched \/ Only("WordPress") \/ Only("UserSecret") \/ VolumeStep
            => Live(k)' = Live(k)
      BY Apart DEF Untouched, Only, VolumeStep
    <2>5. StoredStep
      BY NextStoredStep
    <2> QED
      BY <2>1, <2>2, <2>3, <2>4, <2>5 DEF StoredStep
  <1>2. ASSUME NEW i \in 1..(Len(t) - 1)
        PROVE  t[i] # t[i + 1]
    <2>1. StreamStep(k)
      BY <1>0, NextStreamStep
    <2>2. CASE Kept(k)
      BY <2>2 DEF Kept, OwnedInv
    <2>3. CASE Shifted(k)
      <3>1. /\ i \in 1..Len(t) /\ i + 1 \in 1..Len(t) /\ i + 1 \in 1..(Len(s) - 1)
            /\ (i + 1) + 1 = i + 2
        BY <1>0, <1>2, <2>3 DEF Shifted
      <3>2. t[i] = s[i + 1] /\ t[i + 1] = s[(i + 1) + 1]
        BY <2>3, <3>1 DEF Shifted
      <3> QED
        BY <3>1, <3>2 DEF OwnedInv
    <2>4. CASE Listed(k)
      BY <1>2, <2>4 DEF Listed
    <2>5. CASE Grown(k)
      <3>1. CASE i = Len(s)
        BY <1>0, <2>5, <3>1 DEF Grown, Live
      <3>2. CASE i \in 1..(Len(s) - 1)
        <4>1. i \in 1..Len(s) /\ i + 1 \in 1..Len(s)
          BY <1>0, <3>2
        <4> QED
          BY <2>5, <3>2, <4>1 DEF Grown, OwnedInv
      <3>3. i = Len(s) \/ i \in 1..(Len(s) - 1)
        BY <1>0, <1>2, <2>5 DEF Grown
      <3> QED
        BY <3>1, <3>2, <3>3
    <2> QED
      BY <2>1, <2>2, <2>3, <2>4, <2>5 DEF StreamStep
  <1> QED
    BY <1>0, <1>1, <1>2 DEF OwnedInv

\* A spec comes from a user until the finalizer is stored.
LEMMA SubmittedInductive ==
  /\ Init => SubmittedInv
  /\ TypeOK /\ SubmittedInv /\ [Next]_vars => SubmittedInv'
<1>1. ASSUME Init PROVE SubmittedInv
  <2>1. obj["WordPress"] = <<Absent>>
    BY <1>1, NothingAtFirst
  <2> QED
    BY <2>1 DEF SubmittedInv, Stream
<1>2. ASSUME TypeOK, SubmittedInv, [Next]_vars PROVE SubmittedInv'
  <2>1. TypeOK' /\ "WordPress" \in Kinds
    BY <1>2, TypeInductive DEF Kinds
  <2>2. ResourceChange
    BY <1>2, NextResourceChange
  <2>3. Stream("WordPress")' \subseteq Stream("WordPress") \cup {Resource'}
    BY <1>2, <2>1, StreamGrows
  <2>4. Resource \in Stream("WordPress")
    BY <1>2, <2>1, LiveInStream
  <2> QED
    BY <1>2, <2>2, <2>3, <2>4 DEF SubmittedInv, ResourceChange
<1> QED
  BY <1>1, <1>2

\* The invariant of the streams holds at first and every step keeps it.
LEMMA NoticeInductive ==
  /\ Unclaimed /\ Init => NoticeInv
  /\ Unclaimed /\ TypeOK /\ FinalizerInv /\ OwnerInv /\ NoticeInv /\ [Next]_vars => NoticeInv'
<1>1. ASSUME Unclaimed, Init PROVE NoticeInv
  <2>1. obj["WordPress"] = <<Absent>>
    BY <1>1, NothingAtFirst
  <2>2. PICK F \in SUBSET Preexisting :
          obj = [k \in Kinds |-> IF k \in F THEN <<NotOwned>> ELSE <<Absent>>]
    BY <1>1 DEF Init, ClusterInit
  <2>3. \A k \in ChildKinds : k \notin F
    BY <1>1, <2>2, Apart, ClusterAssumption DEF Unclaimed
  <2>4. \A k \in ChildKinds : obj[k] = <<Absent>>
    BY <2>2, <2>3, Apart
  <2>5. AlikeInv
    BY <2>1 DEF AlikeInv, Alike, Live
  <2>6. OwnedInv
    BY <2>4 DEF OwnedInv, Stream
  <2> QED
    BY <1>1, <2>5, <2>6, SubmittedInductive DEF NoticeInv
<1>2. ASSUME Unclaimed, TypeOK, FinalizerInv, OwnerInv, NoticeInv, [Next]_vars
      PROVE  NoticeInv'
  <2>1. TypeOK' /\ "WordPress" \in Kinds
    BY <1>2, TypeInductive DEF Kinds
  <2>2. ResourceChange /\ StreamStep("WordPress")
    BY <1>2, <2>1, NextResourceChange, NextStreamStep
  <2>3. AlikeInv'
    BY <1>2, <2>1, <2>2, AlikeStep DEF NoticeInv
  <2>4. OwnedInv'
    BY <1>2, <2>1, OwnedStep DEF NoticeInv
  <2> QED
    BY <1>2, <2>3, <2>4, SubmittedInductive DEF NoticeInv
<1> QED
  BY <1>1, <1>2

-----------------------------------------------------------------------------
(* Wake-ups *)

\* Every action of the worker either takes the key from the queue or leaves key
\* and timer to what comes.
LEMMA WorkerWakes ==
  ASSUME Worker
  PROVE  Begin \/ (queued' = queued /\ (timer => timer') /\ pc # "idle")
  <1>1. \A b : Return(b) => (timer => timer')
    BY DEF Return
  <1>2. CASE \/ ReconcileFinished \/ HandleDeletion \/ AddFinalizer
             \/ RejectSpec \/ AcceptSpec
    BY <1>2 DEF ReconcileFinished, HandleDeletion, AddFinalizer, RejectSpec, AcceptSpec,
       BeginPass
  <1>3. CASE CheckUserSecret \/ UpdateStatus
    BY <1>3 DEF CheckUserSecret, UpdateStatus
  <1>4. CASE RemoveFinalizer \/ PersistStatus
    BY <1>1, <1>4 DEF RemoveFinalizer, PersistStatus
  <1>5. ASSUME NEW k \in ChildKinds, ApplyChild(k)
        PROVE  queued' = queued /\ (timer => timer') /\ pc # "idle"
    <2>1. \A r : Abort(k, r) => (timer => timer')
      BY <1>1 DEF Abort
    <2> QED
      BY <1>5, <2>1 DEF ApplyChild
  <1> QED
    BY <1>2, <1>3, <1>4, <1>5 DEF Worker

\* A write delivers nothing.
LEMMA WriteKeeps ==
  ASSUME TypeOK, TypeOK', UNCHANGED obj \/ \E k \in Kinds : \E v : Put(k, v)
  PROVE  /\ Notified(1) => Notified(1)'
         /\ \A k \in ChildKinds : ~InSync(k) => ~InSync(k)'
  <1>1. \A k \in Kinds : Kept(k) \/ Grown(k)
    BY PutGrows DEF Kept
  <1>2. Notified(1) => Notified(1)'
    <2>1. Kept("WordPress") \/ Grown("WordPress")
      BY <1>1, Apart
    <2> QED
      BY <2>1, NotifiedKept
  <1>3. ASSUME NEW k \in ChildKinds, ~InSync(k) PROVE ~InSync(k)'
    <2>1. k \in Kinds /\ Len(obj[k]) \in Nat /\ Len(obj[k]) > 0
      BY Apart, StreamIndices
    <2> QED
      BY <1>1, <1>3, <2>1 DEF Kept, Grown, InSync
  <1> QED
    BY <1>2, <1>3

\* An event that is delivered puts the key into the queue, unless the filter
\* drops it.
LEMMA DeliveryWakes ==
  ASSUME TypeOK, TypeOK', OwnedInv, NEW k \in Kinds, Deliver(k), Wake
  PROVE  Wake'
  <1>0. /\ \A j \in Kinds \ {k} : Kept(j)
        /\ ~InSync(k) /\ timer' = timer /\ queued => queued'
    BY DEF Deliver, TypeOK, ClusterTypeOK, Kept
  <1>1. Len(obj[k]) \in Nat /\ Len(obj[k]) > 1 /\ Cached(k) = obj[k][1]
    <2>1. Len(obj[k]) \in Nat /\ Len(obj[k]) > 0 /\ Cached(k) = obj[k][1]
      BY StreamIndices
    <2>2. Len(obj[k]) # 1
      BY Zenon DEF Deliver, InSync
    <2>3. \A n \in Nat : n > 0 /\ n # 1 => n > 1
      OBVIOUS
    <2> QED
      BY <2>1, <2>2, <2>3
  <1>2. CASE queued \/ timer
    BY <1>0, <1>2 DEF Wake, Deliver
  <1>3. ASSUME NEW j \in ChildKinds \ {k}, ~InSync(j) PROVE Wake'
    <2>1. Kept(j)
      BY <1>0, <1>3, Apart
    <2> QED
      BY <1>3, <2>1 DEF Wake, InSync, Kept
  <1>4. CASE k \in ChildKinds
    <2>1. obj[k][1] # obj[k][2]
      BY <1>1, <1>4 DEF OwnedInv
    <2>2. /\ Cached(k) \in Stream(k) /\ obj[k][2] \in Stream(k)
      <3>1. obj[k] \in Seq(Objects)
        BY DEF TypeOK, ClusterTypeOK
      <3>2. 2 \in DOMAIN obj[k]
        BY <1>1, <3>1
      <3> QED
        BY <3>2, LiveInStream DEF Stream
    <2>3. \E v \in {Cached(k), obj[k][2]} \ {Absent} : v.owner # 0
      BY <1>1, <1>4, <2>1, <2>2 DEF OwnedInv
    <2>4. k # "WordPress"
      BY <1>4, Apart
    <2>5. Enqueues(k, Cached(k), obj[k][2])
      BY <1>4, <2>3, <2>4 DEF Enqueues
    <2> QED
      BY <2>5 DEF Wake, Deliver
  <1>5. CASE k # "WordPress" /\ Notified(1)
    <2>1. Kept("WordPress")
      BY <1>0, <1>5 DEF Kinds
    <2>2. Notified(1)'
      BY <1>5, <2>1, NotifiedKept
    <2> QED
      BY <2>2 DEF Wake
  <1>6. CASE k = "WordPress" /\ Notified(1)
    <2>1. Shifted("WordPress")
      <3>1. obj'[k] = Tail(obj[k]) /\ obj[k] \in Seq(Objects)
        BY DEF Deliver, TypeOK, ClusterTypeOK
      <3> QED
        BY <1>1, <1>6, <3>1 DEF Shifted
    <2>2. PICK j \in 1..(Len(obj[k]) - 1) : Enqueues("WordPress", obj[k][j], obj[k][j + 1])
      BY <1>6 DEF Notified
    <2>3. CASE j = 1
      <3>1. Enqueues(k, Cached(k), obj[k][2])
        BY <1>1, <1>6, <2>2, <2>3
      <3> QED
        BY <3>1 DEF Wake, Deliver
    <2>4. CASE j # 1
      <3>1. j \in (1 + 1)..(Len(obj[k]) - 1)
        BY <1>1, <2>2, <2>4
      <3>2. Notified(1 + 1)
        BY <1>6, <2>2, <3>1 DEF Notified
      <3>3. Notified(1)'
        BY <2>1, <3>2, NotifiedShifted
      <3> QED
        BY <3>3 DEF Wake
    <2> QED
      BY <2>3, <2>4
  <1> QED
    BY <1>2, <1>3, <1>4, <1>5, <1>6 DEF Wake

\* A restarted process hears of the resource as if it had just been created.
LEMMA RestartWakes ==
  ASSUME TypeOK, Restart, Running'
  PROVE  queued'
  <1>1. "WordPress" \in Kinds /\ Resource' = Resource
    BY Apart, NothingStored DEF Untouched
  <1>2. Resource # Absent
    BY <1>1 DEF Running
  <1> QED
    BY <1>1, <1>2 DEF Restart, Enqueues

\* Only the start of a pass uses a wake-up up; a restart makes a new one.
LEMMA WakeKept ==
  ASSUME TypeOK, TypeOK', OwnedInv, [Next]_vars, Worker => ~Begin, Wake, Running'
  PROVE  Wake'
  <1>1. CASE Restart
    BY <1>1, RestartWakes DEF Wake
  <1>2. CASE \E k \in Kinds : Deliver(k)
    BY <1>2, DeliveryWakes
  <1>3. CASE ~Restart /\ ~\E k \in Kinds : Deliver(k)
    <2>1. /\ Notified(1) => Notified(1)'
          /\ \A k \in ChildKinds : ~InSync(k) => ~InSync(k)'
      BY <1>3, NextWrites, WriteKeeps
    <2>2. (queued => queued') /\ (timer => timer' \/ queued')
      <3>1. CASE Worker
        BY <3>1, WorkerWakes
      <3>2. CASE TimerFires \/ UNCHANGED vars \/ UNCHANGED <<queued, timer, workerVars>>
        BY <3>2 DEF TimerFires, vars
      <3> QED
        BY <1>3, <3>1, <3>2 DEF Next
    <2> QED
      BY <2>1, <2>2 DEF Wake
  <1> QED
    BY <1>1, <1>2, <1>3

-----------------------------------------------------------------------------
(* Passes *)

\* Unless it wakes the controller, a step changes nothing a pass goes by.
LEMMA Steady ==
  ASSUME TypeOK, TypeOK', ResourceChange, StreamStep("WordPress"),
         \A k \in ChildKinds : StreamStep(k), Unprompted'
  PROVE  /\ Running /\ Alike(Resource, Resource')
         /\ Resource'.uid = Resource.uid /\ Resource'.gen = Resource.gen
         /\ Desired' = Desired /\ Visited' = Visited
         /\ \A k \in ChildKinds : Live(k)' = Live(k) /\ (Settled(k)' <=> Settled(k))
  <1>1. ~Wake' /\ Running'
    BY DEF Unprompted
  <1>2. Alike(Resource, Resource')
    <2>1. CASE Grown("WordPress")
      <3>1. 1 \in 1..Len(obj["WordPress"])
        BY StreamIndices DEF Kinds
      <3>2. ~Notified(1)'
        BY <1>1 DEF Wake
      <3> QED
        BY <2>1, <3>1, <3>2, NotifiedGrown DEF ResourceChange
    <2>2. CASE Resource' = Resource
      BY <2>2 DEF Alike
    <2> QED
      BY <2>1, <2>2 DEF StreamStep
  <1>3. /\ Resource # Absent /\ Resource' # Absent /\ ~Resource.deleting
        /\ Resource'.uid = Resource.uid /\ Resource'.gen = Resource.gen
        /\ Resource'.spec = Resource.spec
    BY <1>1, <1>2 DEF Alike, Running
  <1>4. Desired' = Desired
    BY <1>3 DEF Desired
  <1>5. Visited' = Visited
    BY <1>4 DEF Visited
  <1>6. ASSUME NEW k \in ChildKinds
        PROVE  Live(k)' = Live(k)
    <2>1. InSync(k)'
      BY <1>1, <1>6 DEF Wake
    <2>2. ~Grown(k)
      <3>1. Len(obj[k]) \in Nat /\ Len(obj[k]) > 0
        BY <1>6, Apart, StreamIndices
      <3> QED
        BY <2>1, <3>1 DEF Grown, InSync
    <2> QED
      BY <1>6, <2>2 DEF StreamStep
  <1>7. ASSUME NEW k \in ChildKinds
        PROVE  Settled(k)' <=> Settled(k)
    <2>1. Live(k)' = Live(k)
      BY <1>6, <1>7
    <2>2. Matches(k)' <=> Matches(k)
      BY <1>4, <2>1, Zenon DEF Matches
    <2> QED
      BY <1>3, <1>4, <2>1, <2>2, Zenon DEF Settled
  <1> QED
    BY <1>1, <1>2, <1>3, <1>4, <1>5, <1>6, <1>7 DEF Running

\* A resource that nothing will remind the controller of was one before, unless
\* a pass has just started.
LEMMA StillUnprompted ==
  ASSUME TypeOK, TypeOK', NoticeInv, [Next]_vars, Unprompted', Worker => ~Begin
  PROVE  Unprompted /\ ~Restart
  <1>1. ~Wake' /\ Running' /\ OwnedInv
    BY DEF Unprompted, NoticeInv
  <1>2. ~Wake
    BY <1>1, WakeKept
  <1>3. /\ ResourceChange /\ StreamStep("WordPress")
        /\ \A k \in ChildKinds : StreamStep(k)
    BY Apart, NextResourceChange, NextStreamStep
  <1>4. Running
    BY <1>3, Steady
  <1>5. ~Restart
    BY <1>1, RestartWakes DEF Wake
  <1> QED
    BY <1>2, <1>4, <1>5 DEF Unprompted

\* What a pass that starts reads of the resource is what is stored, if nothing
\* wakes the controller again.
LEMMA ReadsCurrent ==
  ASSUME TypeOK, AlikeInv, ~Notified(1), Running
  PROVE  /\ Cached("WordPress") # Absent /\ ~Cached("WordPress").deleting
         /\ Cached("WordPress").uid = Resource.uid /\ Cached("WordPress").gen = Resource.gen
         /\ applyDefaults(Cached("WordPress").spec) = Desired
         /\ Cached("WordPress") \in Resources
  <1>1. /\ obj["WordPress"] \in Seq(Objects) /\ obj["WordPress"] # <<>>
    BY DEF TypeOK, ClusterTypeOK, Kinds
  <1>2. 1 \in 1..Len(obj["WordPress"]) /\ Cached("WordPress") = obj["WordPress"][1]
    BY <1>1 DEF Cached
  <1>3. Alike(Cached("WordPress"), Resource)
    BY <1>2 DEF AlikeInv
  <1>4. Cached("WordPress") \in {Absent} \cup Resources
    BY ResourceVersions DEF TypeOK
  <1> QED
    BY <1>3, <1>4 DEF Alike, Running, Desired

\* The steps after which a pass is on.
LEMMA NextPassing ==
  ASSUME [Next]_vars, Passing'
  PROVE  /\ ~PersistStatus
         /\ \/ RejectSpec \/ AcceptSpec
            \/ CheckUserSecret \/ UpdateStatus \/ \E k \in ChildKinds : ApplyChild(k)
            \/ UNCHANGED workerVars
  <1>1. pc' # "idle" /\ pc' # "finalize"
    BY DEF Passing
  <1>2. ~PersistStatus /\ ~RemoveFinalizer /\ ~AddFinalizer /\ ~HandleDeletion /\ ~Restart
    <2>1. \A b : ~Return(b)
      BY <1>1 DEF Return
    <2>2. ~AddFinalizer
      BY <2>1 DEF AddFinalizer
    <2>3. ~PersistStatus /\ ~RemoveFinalizer
      BY <2>1 DEF PersistStatus, RemoveFinalizer
    <2>4. ~HandleDeletion /\ ~Restart
      BY <1>1, <2>1 DEF HandleDeletion, Restart
    <2> QED
      BY <2>2, <2>3, <2>4
  <1> QED
    BY <1>2 DEF Next, Worker, ReconcileFinished, TimerFires, Deliver, vars

\* The children a pass visits are in its plan.
LEMMA PlanOfPass ==
  /\ Visited \subseteq ChildKinds
  /\ \A k \in Visited : \E i \in 1..Len(DatabasePlan \o SitePlan) : (DatabasePlan \o SitePlan)[i] = k
  /\ Desired.mode = "External" =>
       \A k \in Visited : \E i \in 1..Len(SitePlan) : SitePlan[i] = k
  <1>1. /\ DatabasePlan \in Seq(DatabaseKinds) /\ SitePlan \in Seq(SiteKinds)
        /\ DOMAIN DatabasePlan = 1..Len(DatabasePlan) /\ DOMAIN SitePlan = 1..Len(SitePlan)
        /\ Len(DatabasePlan) \in Nat /\ Len(SitePlan) \in Nat
    BY PlanAssumption
  <1>2. Visited \subseteq ChildKinds
    BY <1>1 DEF Visited, ChildKinds
  <1>3. \A i \in 1..Len(SitePlan) :
          /\ Len(DatabasePlan) + i \in 1..Len(DatabasePlan \o SitePlan)
          /\ (DatabasePlan \o SitePlan)[Len(DatabasePlan) + i] = SitePlan[i]
    BY <1>1
  <1>4. \A i \in 1..Len(DatabasePlan) :
          /\ i \in 1..Len(DatabasePlan \o SitePlan)
          /\ (DatabasePlan \o SitePlan)[i] = DatabasePlan[i]
    BY <1>1
  <1>5. ASSUME NEW k \in Visited
        PROVE  \E i \in 1..Len(DatabasePlan \o SitePlan) : (DatabasePlan \o SitePlan)[i] = k
    <2>1. \/ \E i \in 1..Len(SitePlan) : SitePlan[i] = k
          \/ \E i \in 1..Len(DatabasePlan) : DatabasePlan[i] = k
      BY <1>1, <1>5 DEF Visited
    <2> QED
      BY <1>3, <1>4, <2>1
  <1>6. Desired.mode = "External" =>
          \A k \in Visited : \E i \in 1..Len(SitePlan) : SitePlan[i] = k
    BY <1>1 DEF Visited
  <1> QED
    BY <1>2, <1>5, <1>6

\* A pass that starts without being wanted again reads what is stored, and does
\* not end with the addition of a finalizer that changes the spec.
LEMMA BeginReads ==
  ASSUME TypeOK, TypeOK', NoticeInv, ResourceChange,
         StreamStep("WordPress"), \A k \in ChildKinds : StreamStep(k),
         \A s \in Submitted : applyDefaults(s) = Desired => WriteBack(s) # s,
         Begin, Worker, Unprompted'
  PROVE  /\ AcceptSpec \/ RejectSpec
         /\ Defaulted \in Resources /\ Defaulted.uid = Resource.uid
         /\ Defaulted.gen = Resource.gen /\ Defaulted.spec = Desired
  <1> DEFINE cr == Cached("WordPress")
  <1>0. Running /\ Alike(Resource, Resource') /\ Resource'.uid = Resource.uid
    BY Steady
  <1>1. ~Wake' /\ "WordPress" \in Kinds
    BY DEF Unprompted, Kinds
  <1>2. UNCHANGED obj \/ \E k \in Kinds : \E v : Put(k, v)
    BY WorkerWrites
  <1>3. ~Notified(1)
    BY <1>1, <1>2, WriteKeeps DEF Wake
  <1>4. /\ cr # Absent /\ ~cr.deleting /\ cr.uid = Resource.uid /\ cr.gen = Resource.gen
        /\ cr \in Resources /\ applyDefaults(cr.spec) = Desired
    BY <1>0, <1>3, ReadsCurrent DEF NoticeInv
  <1>5. /\ Defaulted \in Resources /\ Defaulted.uid = Resource.uid
        /\ Defaulted.gen = Resource.gen /\ Defaulted.spec = Desired
    <2>1. applyDefaults(cr.spec) \in Specs
      BY <1>4, SpecOperators DEF Resources
    <2> QED
      BY <1>4, <2>1 DEF Defaulted, Resources
  <1>6. ~ReconcileFinished /\ ~HandleDeletion
    BY <1>4 DEF ReconcileFinished, HandleDeletion, Finished
  <1>7. ~AddFinalizer
    <2> SUFFICES ASSUME AddFinalizer PROVE FALSE
      OBVIOUS
    <2> DEFINE gen == IF WriteBack(cr.spec) = cr.spec THEN cr.gen ELSE cr.gen + 1
               new == [cr EXCEPT !.finalizer = TRUE, !.spec = WriteBack(cr.spec), !.gen = gen]
    <2>1. PICK r \in Outcomes(UpdateResult("WordPress")) :
            /\ IF Effective(r, UpdateResult("WordPress"))
               THEN PutWordPress(new) ELSE UNCHANGED <<obj, fresh>>
            /\ Return(r # "ok")
      BY <1>4 DEF AddFinalizer, Resources
    <2>2. r = "ok"
      BY <1>1, <2>1 DEF Return, Wake
    <2>3. UpdateResult("WordPress") = "ok" /\ PutWordPress(new)
      BY <2>1, <2>2 DEF Outcomes, Effective
    <2>4. InSync("WordPress") /\ cr = Resource /\ Resource' = new
      <3>1. InSync("WordPress")
        BY <2>3 DEF UpdateResult
      <3>2. Put("WordPress", new)
        BY <2>3 DEF PutWordPress
      <3> HIDE DEF new
      <3> QED
        BY <1>1, <3>1, <3>2, SeenEnds, PutLive
    <2>5. WriteBack(cr.spec) # cr.spec
      <3>1. cr \in Stream("WordPress") /\ ~cr.finalizer
        BY <1>1, LiveInStream DEF AddFinalizer
      <3>2. cr.spec \in Submitted
        BY <1>4, <3>1 DEF NoticeInv, SubmittedInv
      <3> QED
        BY <1>4, <3>2
    <2>6. new.spec # cr.spec
      BY <1>4, <2>5 DEF Resources
    <2>7. Resource'.spec = Resource.spec
      BY <1>0 DEF Alike, Running, Unprompted
    <2> QED
      BY <2>4, <2>6, <2>7
  <1>8. AcceptSpec \/ RejectSpec
    BY <1>6, <1>7 DEF Worker, Begin, RemoveFinalizer, CheckUserSecret, ApplyChild, UpdateStatus,
       PersistStatus
  <1> QED
    BY <1>5, <1>8

\* A valid resource is accepted, and its pass has the stored spec before it.
LEMMA BeginProgress ==
  ASSUME TypeOK, TypeOK', Rewritten, NoticeInv, ResourceChange,
         StreamStep("WordPress"), \A k \in ChildKinds : StreamStep(k),
         Begin, Worker, Unattended'
  PROVE  Progress'
  <1>0. /\ validateSpec(Desired) /\ Resource'.uid = Resource.uid
        /\ Resource'.gen = Resource.gen /\ Desired' = Desired /\ Visited' = Visited
        /\ Unprompted'
    BY Steady DEF Unattended
  <1>1. \A s \in Submitted : applyDefaults(s) = Desired => WriteBack(s) # s
    BY <1>0 DEF Rewritten
  <1>2. /\ AcceptSpec \/ RejectSpec
        /\ Defaulted.uid = Resource.uid /\ Defaulted.gen = Resource.gen
        /\ Defaulted.spec = Desired
    BY <1>0, <1>1, BeginReads
  <1>3. AcceptSpec
    BY <1>0, <1>2 DEF RejectSpec
  <1>4. Current'
    BY <1>0, <1>2, <1>3 DEF AcceptSpec, Current
  <1>5. CASE Desired.mode = "External"
    BY <1>0, <1>2, <1>3, <1>4, <1>5 DEF AcceptSpec, Progress
  <1>6. CASE Desired.mode # "External"
    <2>1. pc' = "children" /\ todo' = DatabasePlan \o SitePlan
      BY <1>2, <1>3, <1>6 DEF AcceptSpec
    <2> QED
      BY <1>0, <1>4, <2>1, PlanOfPass DEF Progress
  <1> QED
    BY <1>5, <1>6

\* A call that leaves the stored child as it was, made for a child in sync with
\* the cache, found the child as the spec asks.
LEMMA CallSettles ==
  ASSUME TypeOK, TypeOK', NEW k \in ChildKinds, pc # "idle", Current, InSync(k),
         Live(k)' = Live(k), Call(k) # "none" => Result(k) = "ok",
         NEW p \in Generated, Put(k, Written(k, p))
  PROVE  Settled(k)
  <1>0. /\ k \in Kinds /\ Cached(k) = Live(k) /\ Live(k) \in {Absent} \cup Children
        /\ Absent \notin Children
    BY Apart, StreamIndices, ResourceVersions, ClusterAssumption DEF InSync, Live, TypeOK
  <1>1. Live(k) = Written(k, p)
    BY <1>0, PutLive
  <1>2. wp.uid = Resource.uid /\ wp.spec = Desired
    BY DEF Current
  <1>3. Call(k) # "create"
    <2> SUFFICES ASSUME Call(k) = "create" PROVE FALSE
      OBVIOUS
    <2>1. Live(k) = Absent
      BY <1>0 DEF Call
    <2>2. Written(k, p).owner = wp.uid /\ Written(k, p) \in Children
      <3>1. wp \in Resources /\ p \in Nat
        BY ClusterAssumption DEF TypeOK, Generated
      <3>2. wp.spec \in Specs /\ wp.uid \in Nat
        BY <3>1 DEF Resources
      <3>3. Render(k, wp.spec) \in Contents /\ ClaimTemplates(k, wp.spec) \in SUBSET Sizes
        BY <3>2, SpecOperators
      <3>4. Password(k, p) \in Nat
        BY <3>1 DEF Password
      <3> QED
        BY <3>2, <3>3, <3>4 DEF Written, Children
    <2> QED
      BY <1>0, <1>1, <2>1, <2>2
  <1>4. Call(k) # "delete"
    BY <1>0, <1>1 DEF Call, IsControlledBy, Written
  <1>5. CASE Call(k) = "update"
    <2>1. Live(k) \in Children
      BY <1>0, <1>5 DEF Result, UpdateResult
    <2>2. Written(k, p).content = Render(k, wp.spec)
      BY <1>5, <2>1 DEF Written, Changed, Children
    <2>3. Live(k).content = Render(k, Desired)
      BY <1>1, <1>2, <2>2
    <2>4. Matches(k)
      BY Zenon, <2>3 DEF Matches
    <2>5. Wants(k, Desired)
      BY <1>2, <1>5 DEF Call
    <2> QED
      BY <1>0, <2>1, <2>4, <2>5, Zenon DEF Settled
  <1>6. CASE Call(k) = "none" /\ ~Wants(k, Desired)
    BY <1>0, <1>2, <1>6 DEF Call, IsControlledBy, Settled
  <1>7. CASE Call(k) = "none" /\ Wants(k, Desired)
    <2>1. /\ Live(k) # Absent
          /\ k \in CreateOnly \/ Live(k).content = Render(k, Desired)
      BY <1>0, <1>2, <1>7 DEF Call
    <2>2. Live(k).content = Render(k, Desired) => Matches(k)
      BY Zenon DEF Matches
    <2> QED
      BY <1>7, <2>1, <2>2, Zenon DEF Settled
  <1>8. Call(k) \in {"none", "create", "update", "delete"}
    BY DEF Call
  <1> QED
    BY <1>3, <1>4, <1>5, <1>6, <1>7, <1>8

\* The visit of a child that wakes nobody settles it, or is a failed database
\* step, after which the status is persisted and the pass repeated.
LEMMA VisitSettles ==
  ASSUME TypeOK, TypeOK', NEW k \in ChildKinds, ApplyChild(k), Current,
         Unattended, Unattended', Live(k)' = Live(k)
  PROVE  \/ pc' = "persist" /\ after' = "dbError"
         \/ /\ pc' = "children" /\ todo' = Tail(todo) /\ Settled(k)
            /\ wp'.uid = wp.uid /\ wp'.gen = wp.gen /\ wp'.spec = wp.spec
            /\ wp'.status = Observed(k, wp.status)
  <1>1. InSync(k) /\ ~timer'
    BY DEF Unattended, Unprompted, Wake
  <1>2. PICK r \in IF Call(k) = "none" THEN {"ok"} ELSE Outcomes(Result(k)) :
          /\ IF Effective(r, Result(k))
             THEN \E p \in Generated : Put(k, Written(k, p))
             ELSE UNCHANGED obj
          /\ IF r = "ok"
             THEN /\ todo' = Tail(todo)
                  /\ wp' = [wp EXCEPT !.status = Observed(k, @)]
                  /\ UNCHANGED <<pc, after, timer>>
             ELSE Abort(k, r)
    BY DEF ApplyChild
  <1>3. CASE r = "ok"
    <2>1. PICK p \in Generated : Put(k, Written(k, p))
      BY <1>2, <1>3 DEF Effective
    <2>2. Call(k) # "none" => Result(k) = "ok"
      BY <1>2, <1>3 DEF Outcomes
    <2>3. pc = "children"
      BY DEF ApplyChild
    <2>4. Settled(k)
      BY <1>1, <2>1, <2>2, <2>3, CallSettles
    <2>5. wp \in Resources
      BY <2>3 DEF TypeOK
    <2>6. \A st : LET w == [wp EXCEPT !.status = st] IN
                  w.uid = wp.uid /\ w.gen = wp.gen /\ w.spec = wp.spec /\ w.status = st
      BY <2>5 DEF Resources
    <2> QED
      BY <1>2, <1>3, <2>3, <2>4, <2>6
  <1>4. CASE r # "ok"
    <2>1. Result(k) # "conflict"
      BY <1>1 DEF Result, CreateResult, UpdateResult, DeleteResult
    <2>2. r # "conflict"
      BY <1>2, <1>4, <2>1 DEF Outcomes
    <2>3. ignoreConflict(r)
      BY <1>4, <2>2 DEF ignoreConflict
    <2> QED
      BY <1>1, <1>2, <1>4, <2>3 DEF Abort, Persist, Return
  <1> QED
    BY <1>3, <1>4

\* The other steps of a pass that wake nobody: the pass stays on its way.
LEMMA PassProgress ==
  ASSUME TypeOK, TypeOK', ResourceChange, StreamStep("WordPress"),
         \A k \in ChildKinds : StreamStep(k), Worker, ~Begin,
         Unattended, Progress, Unattended'
  PROVE  Progress'
  <1>0. /\ Resource'.uid = Resource.uid /\ Resource'.gen = Resource.gen
        /\ Desired' = Desired /\ Visited' = Visited
        /\ \A k \in ChildKinds : Live(k)' = Live(k) /\ (Settled(k)' <=> Settled(k))
    BY Steady DEF Unattended
  <1>1. Visited \subseteq ChildKinds
    BY PlanOfPass
  <1>2. AllSettled => AllSettled'
    BY <1>0, <1>1 DEF AllSettled
  <1>3. ~timer'
    BY DEF Unattended, Unprompted, Wake
  <1>4. CASE CheckUserSecret
    <2>1. Current /\ Desired.mode = "External" /\ wp \in Resources
      BY <1>4 DEF CheckUserSecret, Progress, TypeOK
    <2>2. wp'.uid = wp.uid /\ wp'.gen = wp.gen /\ wp'.spec = wp.spec
      BY <1>4, <2>1 DEF CheckUserSecret, Resources
    <2>3. Current'
      BY <1>0, <2>1, <2>2 DEF Current
    <2>4. CASE pc' = "children" /\ todo' = SitePlan
      BY <1>0, <2>1, <2>3, <2>4, PlanOfPass DEF Progress
    <2>5. CASE pc' = "persist" /\ after' = "noSecret"
      BY <2>5 DEF Progress
    <2> QED
      BY <1>4, <2>4, <2>5 DEF CheckUserSecret, Persist
  <1>5. ASSUME NEW k \in ChildKinds, ApplyChild(k)
        PROVE  Progress'
    <2>1. /\ pc = "children" /\ todo # <<>> /\ k = Head(todo) /\ Current
          /\ todo \in Seq(ChildKinds)
          /\ \A j \in Visited : Settled(j) \/ \E i \in 1..Len(todo) : todo[i] = j
      BY <1>5 DEF ApplyChild, Progress, TypeOK
    <2>2. CASE pc' = "persist" /\ after' = "dbError"
      BY <2>2 DEF Progress
    <2>3. CASE /\ pc' = "children" /\ todo' = Tail(todo) /\ Settled(k)
               /\ wp'.uid = wp.uid /\ wp'.gen = wp.gen /\ wp'.spec = wp.spec
      <3>1. Current'
        BY <1>0, <2>1, <2>3 DEF Current
      <3>2. \A i \in 1..Len(todo) :
              todo[i] = k \/ (i - 1 \in 1..Len(Tail(todo)) /\ Tail(todo)[i - 1] = todo[i])
        BY <2>1
      <3>3. \A j \in Visited : Settled(j)' \/ \E i \in 1..Len(todo') : todo'[i] = j
        BY <1>0, <1>1, <2>1, <2>3, <3>2
      <3> QED
        BY <1>0, <2>3, <3>1, <3>3 DEF Progress
    <2> QED
      BY <1>0, <1>5, <2>1, <2>2, <2>3, VisitSettles
  <1>6. CASE UpdateStatus
    <2>1. pc = "children" /\ todo = <<>>
      BY <1>6 DEF UpdateStatus
    <2>2. AllSettled
      BY <2>1 DEF Progress, AllSettled
    <2> QED
      BY <1>2, <1>6, <2>2 DEF UpdateStatus, Persist, Progress
  <1>7. CASE PersistStatus
    <2>1. /\ pc = "persist" /\ after \in {"done", "dbError", "noSecret"}
          /\ after = "done" => AllSettled
      BY <1>7 DEF PersistStatus, Progress
    <2>2. PICK r : Return(Requeue(after, r))
      BY <1>7 DEF PersistStatus
    <2>3. after = "done"
      BY <1>3, <2>1, <2>2 DEF Return, Requeue
    <2> QED
      BY <1>2, <2>1, <2>2, <2>3 DEF Return, Progress
  <1>8. ~RemoveFinalizer
    BY DEF RemoveFinalizer, Progress
  <1> QED
    BY <1>4, <1>5, <1>6, <1>7, <1>8
       DEF Worker, ReconcileFinished, HandleDeletion, AddFinalizer, RejectSpec, AcceptSpec,
           BeginPass

-----------------------------------------------------------------------------
(* The invariant and the theorem *)

\* The invariant holds at first and every step keeps it.
LEMMA WakeInductive ==
  /\ Init => WakeInv
  /\ Rewritten /\ TypeOK /\ TypeOK' /\ NoticeInv /\ WakeInv /\ [Next]_vars => WakeInv'
<1>1. ASSUME Init PROVE WakeInv
  <2>1. obj["WordPress"] = <<Absent>>
    BY <1>1, NothingAtFirst
  <2> QED
    BY <2>1 DEF WakeInv, Unattended, Unprompted, Running, Live
<1>2. ASSUME Rewritten, TypeOK, TypeOK', NoticeInv, WakeInv, [Next]_vars, Unattended'
      PROVE  Progress'
  <2>1. /\ ResourceChange /\ StreamStep("WordPress")
        /\ \A k \in ChildKinds : StreamStep(k)
    BY <1>2, Apart, NextResourceChange, NextStreamStep
  <2>2. CASE Worker /\ Begin
    BY <1>2, <2>1, <2>2, BeginProgress
  <2>3. CASE Worker => ~Begin
    <3>1. Unprompted' /\ Unprompted /\ ~Restart
      BY <1>2, <2>3, StillUnprompted DEF Unattended
    <3>2. /\ Running /\ validateSpec(Desired) /\ Resource'.uid = Resource.uid
          /\ Resource'.gen = Resource.gen /\ Desired' = Desired /\ Visited' = Visited
          /\ \A k \in ChildKinds : Live(k)' = Live(k) /\ (Settled(k)' <=> Settled(k))
      BY <1>2, <2>1, Steady DEF Unattended
    <3>3. Unattended /\ Progress
      BY <1>2, <3>1, <3>2 DEF Unattended, WakeInv
    <3>4. CASE Worker
      BY <1>2, <2>1, <2>3, <3>3, <3>4, PassProgress
    <3>5. CASE UNCHANGED workerVars
      <4>1. pc' = pc /\ wp' = wp /\ todo' = todo /\ after' = after
        BY <3>5 DEF workerVars
      <4>2. \A k \in Visited : Settled(k)' <=> Settled(k)
        BY <3>2, PlanOfPass
      <4>3. (AllSettled => AllSettled') /\ (Current => Current')
        BY <3>2, <4>1, <4>2 DEF AllSettled, Current
      <4> QED
        BY <3>2, <3>3, <4>1, <4>2, <4>3 DEF Progress
    <3> QED
      BY <1>2, <3>1, <3>4, <3>5 DEF Next, TimerFires, Deliver, vars
  <2> QED
    BY <2>2, <2>3
<1> QED
  BY <1>1, <1>2 DEF WakeInv

\* When nothing is pending, no event of the resource or of a child is, so the
\* pass that ended last has settled every child it visits.
LEMMA QuiescentSettled ==
  ASSUME TypeOK, WakeInv
  PROVE  ChildrenConverge
  <1> SUFFICES ASSUME Quiescent, Running, validateSpec(Desired)
               PROVE  \A k \in Visited : Settled(k)
    BY DEF ChildrenConverge
  <1>1. \A k \in Kinds : InSync(k)
    BY DEF Quiescent
  <1>2. ~Notified(1)
    <2>1. Len(obj["WordPress"]) = 1
      BY <1>1, Apart DEF InSync
    <2>2. 1..(1 - 1) = {}
      OBVIOUS
    <2> QED
      BY <2>1, <2>2 DEF Notified
  <1>3. Unattended
    BY <1>1, <1>2, Apart DEF Unattended, Unprompted, Wake, Quiescent
  <1> QED
    BY <1>3 DEF WakeInv, Progress, Quiescent, AllSettled

-----------------------------------------------------------------------------
(* The spec *)

\* Of all the writes of the operator only the one that adds the finalizer sends
\* a spec back, and it does so over the stored version.
LEMMA WorkerSpec ==
  ASSUME TypeOK, Worker, Resource # Absent, Resource' # Absent,
         Resource'.spec # Resource.spec
  PROVE  ~Resource.finalizer /\ Resource'.spec = WriteBack(Resource.spec)
  <1>0. /\ "WordPress" \in Kinds /\ ClusterTypeOK
        /\ Resource \in Resources
        /\ Cached("WordPress") \in {Absent} \cup Resources
    BY ResourceVersions DEF TypeOK, Kinds
  <1>1. \A v : PutWordPress(v) => Resource' = v
    BY <1>0, PutLive DEF PutWordPress
  <1>2. ~UNCHANGED obj
    BY DEF Live
  <1>3. \A k \in Kinds \ {"WordPress"} : \A v : ~Put(k, v)
    BY <1>0, PutLive DEF Only
  <1>4. ~RemoveFinalizer
    BY <1>1, <1>2 DEF RemoveFinalizer
  <1>5. ~PersistStatus
    <2> SUFFICES ASSUME PersistStatus PROVE FALSE
      OBVIOUS
    <2>1. Resource' = WithStatus(Resource)
      BY <1>1, <1>2 DEF PersistStatus
    <2> QED
      BY <1>0, <2>1 DEF WithStatus, Resources
  <1>6. /\ ~HandleDeletion /\ \A k \in ChildKinds : ~ApplyChild(k)
        /\ ~ReconcileFinished /\ ~RejectSpec /\ ~AcceptSpec
        /\ ~CheckUserSecret /\ ~UpdateStatus
    <2>1. {"MySQLPVC"} \cup ChildKinds \subseteq Kinds \ {"WordPress"}
      BY DEF Kinds, ChildKinds, DatabaseKinds, SiteKinds
    <2>2. ~HandleDeletion
      BY <1>2, <1>3, <2>1 DEF HandleDeletion
    <2>3. \A k \in ChildKinds : ~ApplyChild(k)
      BY <1>2, <1>3, <2>1 DEF ApplyChild
    <2>4. /\ ~ReconcileFinished /\ ~RejectSpec /\ ~AcceptSpec
          /\ ~CheckUserSecret /\ ~UpdateStatus
      BY <1>2 DEF ReconcileFinished, RejectSpec, AcceptSpec, CheckUserSecret, UpdateStatus,
         clusterVars
    <2> QED
      BY <2>2, <2>3, <2>4
  <1>7. AddFinalizer
    BY <1>4, <1>5, <1>6 DEF Worker
  <1> DEFINE cr  == Cached("WordPress")
             gen == IF WriteBack(cr.spec) = cr.spec THEN cr.gen ELSE cr.gen + 1
             new == [cr EXCEPT !.finalizer = TRUE, !.spec = WriteBack(cr.spec), !.gen = gen]
  <1>8. cr \in Resources /\ ~cr.finalizer
    BY <1>0, <1>7 DEF AddFinalizer, Finished
  <1>9. PutWordPress(new) /\ InSync("WordPress")
    <2>1. PICK r \in Outcomes(UpdateResult("WordPress")) :
            IF Effective(r, UpdateResult("WordPress"))
            THEN PutWordPress(new) ELSE UNCHANGED <<obj, fresh>>
      BY <1>7, <1>8 DEF AddFinalizer, Resources
    <2>2. Effective(r, UpdateResult("WordPress")) => InSync("WordPress")
      BY DEF Effective, UpdateResult, Outcomes
    <2> QED
      BY <1>2, <2>1, <2>2
  <1>10. cr = Resource /\ Resource' = new
    BY <1>1, <1>9, SeenEnds
  <1>11. new.spec = WriteBack(cr.spec)
    BY <1>8 DEF Resources
  <1> QED
    BY <1>8, <1>10, <1>11

\* The operator leaves the specs of users alone when they say all that the
\* update with the finalizer would add: no section is left out and persistence
\* is not switched off (Reconcile). Nothing else it writes holds a spec.
THEOREM FullSpecsUntouched == (\A s \in Submitted : WriteBack(s) = s) => (Spec => SpecUntouched)
<1> DEFINE H == \A s \in Submitted : WriteBack(s) = s
           A == (Worker /\ Resource # Absent /\ Resource' # Absent)
                  => Resource'.spec = Resource.spec
<1>1. ASSUME H, TypeOK, SubmittedInv, Worker, Resource # Absent, Resource' # Absent
      PROVE  Resource'.spec = Resource.spec
  <2>1. Resource \in Stream("WordPress")
    BY <1>1, LiveInStream DEF Kinds
  <2>2. ~Resource.finalizer => WriteBack(Resource.spec) = Resource.spec
    BY <1>1, <2>1 DEF SubmittedInv
  <2> QED
    BY <1>1, <2>2, WorkerSpec
<1>2. TypeOK /\ H /\ SubmittedInv => A
  BY <1>1
<1>3. H => H'
  OBVIOUS
<1> QED
  BY <1>2, <1>3, TypeCorrect, SubmittedInductive, PTL DEF Spec, SpecUntouched

-----------------------------------------------------------------------------
(* The theorem *)

\* Left alone, the operator brings the children where the spec wants them: once
\* no key, timer or event is pending, each child a pass visits is settled.  The
\* finalizer's own update must be one that counts as a change of the spec, or no
\* pass follows it, and objects of others under optional names must be none, as
\* their events reach no key (Reconcile, SetupWithManager).
THEOREM ChildrenAlwaysConverge == Rewritten /\ Unclaimed => (Spec => []ChildrenConverge)
<1> DEFINE IInv == /\ Rewritten /\ Unclaimed
                   /\ FinalizerInv /\ OwnerInv /\ NoticeInv /\ WakeInv
<1>1. Rewritten /\ Unclaimed /\ Init => IInv
  BY FinalizerInductive, OwnerInductive, NoticeInductive, WakeInductive
<1>2. TypeOK /\ IInv /\ [Next]_vars => IInv'
  <2>1. (Rewritten => Rewritten') /\ (Unclaimed => Unclaimed')
    BY DEF Rewritten, Unclaimed
  <2> QED
    BY <2>1, TypeInductive, FinalizerInductive, OwnerInductive, NoticeInductive, WakeInductive
<1>3. TypeOK /\ IInv => ChildrenConverge
  BY QuiescentSettled
<1> QED
  BY <1>1, <1>2, <1>3, TypeCorrect, PTL DEF Spec
=============================================================================
