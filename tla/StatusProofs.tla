---------------------------- MODULE StatusProofs ----------------------------
(***************************************************************************)
(* What a resource tells its users, for every value of the constants: when *)
(* nothing is pending its status is true, although it was computed from    *)
(* cached copies and written by a call of its own; a Ready one with an     *)
(* internal database has it; and the password the site is given opens the  *)
(* data.                                                                   *)
(***************************************************************************)
EXTENDS ConvergenceProofs

USE DEF Resource

-----------------------------------------------------------------------------
(* What the theorems assume of the constants *)

\* RetryOnConflict never runs out of attempts.
NeverGivesUp == Budget["giveup"] = 0

\* A pass over an internal database, or over a site, visits this child.
VisitsDatabase == \E i \in DOMAIN DatabasePlan : DatabasePlan[i] = "StatefulSet"
VisitsIngress  == \E i \in DOMAIN SitePlan : SitePlan[i] = "Ingress"

\* The update that adds the finalizer changes every spec that users submit.
AlwaysRewritten == \A s \in Submitted : WriteBack(s) # s

\* No spec is rejected, or no call fails on the way: the write that reports a
\* rejection is not tried again.
RejectionsLand ==
  (\A s \in Submitted : validateSpec(applyDefaults(s))) \/ Budget["fault"] = 0

-----------------------------------------------------------------------------
(* The inductive invariants *)

\* What the controller takes for ready: it may be the pods of an older content.
Up(k) == Live(k) # Absent /\ Live(k).pods # "unready"

DatabaseUp == Desired.mode = "Internal" => Up("StatefulSet")

ToVisit(k) == \E i \in 1..Len(todo) : todo[i] = k

\* A Ready status tells the truth about the workloads.
TellsReady(status) ==
  status.phase = "Ready" => status.ready = "True" /\ Up("Deployment") /\ DatabaseUp

\* The pass at hand, over a valid resource that nothing will remind the
\* controller of, finds out what the status has to say; afterwards it is stored.
ReadyTold ==
  /\ pc = "children" =>
       ToVisit("StatefulSet") \/ (wp.status.database = "True" => DatabaseUp)
  /\ (pc = "persist" /\ after = "done") =>
       wp.status.observed = Resource.gen /\ TellsReady(wp.status)
  /\ pc = "idle" =>
       /\ Resource.status.phase = "Ready" /\ Resource.status.observed = Resource.gen
       /\ TellsReady(Resource.status)

ReadyInv == Unattended => ReadyTold

\* Without an Ingress of its own a resource reports none; one that a former
\* incarnation left behind is garbage whose removal starts another pass.
Cleared(status) == status.ingress = "" \/ Orphaned("Ingress")

IngressTold ==
  /\ pc = "children" => ToVisit("Ingress") \/ Cleared(wp.status)
  /\ (pc = "persist" /\ after = "done") => Cleared(wp.status)
  /\ pc = "idle" => Cleared(Resource.status)

IngressInv == (Unattended /\ ~Wants("Ingress", Desired)) => IngressTold

\* An invalid resource is rejected, and the rejection is stored.
Failed(status) == status.phase = "Failed" /\ status.ready = "False"

RejectTold ==
  /\ pc \in {"idle", "persist"}
  /\ pc = "persist" => after = "invalid" /\ Failed(wp.status)
  /\ pc = "idle"    => Failed(Resource.status)

RejectInv == (Unprompted /\ ~validateSpec(Desired)) => RejectTold

\* Where every submitted spec is valid, so is every stored one.
ValidInv ==
  (\A s \in Submitted : validateSpec(applyDefaults(s))) =>
    (Resource # Absent => validateSpec(Desired))

-----------------------------------------------------------------------------
(* What a step leaves alone *)

\* While nothing wakes the controller only a status write changes the status.
LEMMA StatusKept ==
  ASSUME TypeOK, [Next]_vars, Running, Running', Alike(Resource, Resource')
  PROVE  \/ Resource'.status = Resource.status
         \/ PersistStatus /\ Resource'.status = wp.status
  <1>1. ResourceHistory
    BY NextHistory
  <1>2. Resource # Absent /\ Resource' # Absent
    BY DEF Running
  <1> QED
    BY <1>1, <1>2 DEF ResourceHistory, Created, StatusWritten

\* Nor does anything a status tells of change.
LEMMA TellingKept ==
  ASSUME TypeOK, TypeOK', ResourceChange, StreamStep("WordPress"),
         \A k \in ChildKinds : StreamStep(k), Unprompted'
  PROVE  /\ (Up("Deployment")' <=> Up("Deployment")) /\ (DatabaseUp' <=> DatabaseUp)
         /\ Orphaned("Ingress")' <=> Orphaned("Ingress")
  <1>1. /\ Running /\ Running' /\ Resource'.uid = Resource.uid /\ Desired' = Desired
        /\ \A k \in ChildKinds : Live(k)' = Live(k)
    BY Steady DEF Unprompted
  <1>2. {"Deployment", "StatefulSet", "Ingress"} \subseteq ChildKinds
    BY DEF ChildKinds, DatabaseKinds, SiteKinds
  <1>3. \A k \in ChildKinds : (Up(k)' <=> Up(k))
    BY <1>1, Zenon DEF Up
  <1>4. DatabaseUp' <=> DatabaseUp
    BY <1>1, <1>2, <1>3, Zenon DEF DatabaseUp
  <1>5. Orphaned("Ingress")' <=> Orphaned("Ingress")
    BY <1>1, <1>2 DEF Orphaned, Running
  <1> QED
    BY <1>2, <1>3, <1>4, <1>5

\* The conditions set on a visit: only the StatefulSet and the Ingress set any.
LEMMA ObservedFields ==
  ASSUME NEW st \in Statuses, NEW k \in ChildKinds
  PROVE  /\ Observed(k, st).ready = st.ready
         /\ k # "StatefulSet" => Observed(k, st).database = st.database
         /\ (k = "StatefulSet" /\ Observed(k, st).database = "True") => ReportedReady(k)
         /\ k # "Ingress" => Observed(k, st).ingress = st.ingress
         /\ (k = "Ingress" /\ ~Wants(k, wp.spec) /\ Cached(k) = Absent) =>
              Observed(k, st).ingress = ""
  <1>1. CASE k = "StatefulSet"
    BY <1>1 DEF Observed, Statuses
  <1>2. CASE k = "Ingress"
    BY <1>2 DEF Observed, Statuses
  <1>3. CASE k \notin {"StatefulSet", "Ingress"}
    BY <1>3 DEF Observed
  <1> QED
    BY <1>1, <1>2, <1>3

\* What the last step before the status is written makes of it.
LEMMA UpdatedFields ==
  ASSUME TypeOK, UpdateStatus
  PROVE  /\ wp'.status.observed = wp.gen /\ wp'.status.ingress = wp.status.ingress
         /\ wp'.status.ready = "True" => wp'.status.database = "True"
         /\ wp'.status.phase = "Ready" =>
              /\ wp'.status.ready = "True"
              /\ ReportedReady("Deployment") /\ wp.status.database = "True"
  <1>1. wp \in Resources
    BY DEF UpdateStatus, TypeOK
  <1>2. wp.status \in Statuses
    BY <1>1 DEF Resources
  <1> DEFINE st(n, x, p, y) == [wp.status EXCEPT !.observed = n, !.deployment = x,
                                                 !.phase = p, !.ready = y]
             ready == ReportedReady("Deployment") /\ wp.status.database = "True"
  <1>3. \A n, x, p, y : /\ st(n, x, p, y).observed = n /\ st(n, x, p, y).phase = p
                        /\ st(n, x, p, y).ready = y
                        /\ st(n, x, p, y).database = wp.status.database
                        /\ st(n, x, p, y).ingress = wp.status.ingress
    BY <1>2 DEF Statuses
  <1>4. PICK x : wp'.status = st(wp.gen, x, IF ready THEN "Ready" ELSE "Provisioning",
                                 IF ready THEN "True" ELSE "False")
    BY <1>1 DEF UpdateStatus, Resources
  <1> HIDE DEF st
  <1> QED
    BY <1>3, <1>4
-----------------------------------------------------------------------------
(* The write *)

\* A status write that asks for no other pass has stored the status, if attempts
\* never run out and the report of a rejection does not fail on the way.
LEMMA PersistLands ==
  ASSUME TypeOK, NeverGivesUp, AlikeInv, PersistStatus, Unprompted, ~timer',
         after = "done" \/ (after = "invalid" /\ Budget["fault"] = 0)
  PROVE  /\ Resource'.status = wp.status /\ pc' = "idle"
         /\ after = "done" => wp.status.phase = "Ready"
  <1> DEFINE result == IF Cached("WordPress") = Absent THEN "missing"
                       ELSE UpdateResult("WordPress")
  <1>1. PICK r \in Outcomes(result) :
          /\ IF r = "conflict" THEN Spend("giveup") ELSE Charge(r)
          /\ IF Effective(r, result)
             THEN PutWordPress(WithStatus(Resource)) ELSE UNCHANGED <<obj, fresh>>
          /\ Return(Requeue(after, r))
    BY DEF PersistStatus
  <1>2. \A d \in Disturbances : Budget[d] = 0 => ~(used[d] < Budget[d])
    BY DEF TypeOK, ClusterTypeOK
  <1>3. r # "conflict"
    BY <1>1, <1>2 DEF Spend, NeverGivesUp, Disturbances
  <1>4. pc' = "idle" /\ ~Requeue(after, r)
    BY <1>1 DEF Return
  <1>5. r = "ok" /\ (after = "done" => wp.status.phase = "Ready")
    <2>1. CASE after = "done"
      BY <1>3, <1>4, <2>1 DEF Requeue, ignoreConflict
    <2>2. CASE after = "invalid" /\ Budget["fault"] = 0
      <3>1. r = result
        BY <1>1, <1>2, <2>2 DEF Outcomes, Disturbances
      <3>2. Cached("WordPress") # Absent /\ Resource # Absent
        BY ReadsCurrent DEF Unprompted, Wake, Running
      <3> QED
        BY <1>3, <2>2, <3>1, <3>2 DEF UpdateResult
    <2> QED
      BY <2>1, <2>2
  <1>6. PutWordPress(WithStatus(Resource))
    BY <1>1, <1>5 DEF Effective
  <1>7. Resource' = WithStatus(Resource)
    BY <1>6, PutLive DEF PutWordPress, Kinds
  <1>8. Resource \in Resources
    BY ResourceVersions DEF Unprompted, Running, TypeOK
  <1> QED
    BY <1>4, <1>5, <1>7, <1>8 DEF WithStatus, Resources

-----------------------------------------------------------------------------
(* Ready *)

\* What the worker reads of a child in sync with the cache is what is stored.
LEMMA ReadsUp ==
  ASSUME TypeOK, Unprompted, NEW k \in ChildKinds
  PROVE  Cached(k) = Live(k) /\ (ReportedReady(k) <=> Up(k))
  <1>1. InSync(k) /\ k \in Kinds
    BY Apart DEF Unprompted, Wake
  <1>2. Cached(k) = Live(k)
    <2>1. obj[k] \in Seq(Objects) /\ obj[k] # <<>>
      BY <1>1 DEF TypeOK, ClusterTypeOK
    <2> QED
      BY <1>1, <2>1 DEF InSync, Live, Cached
  <1> QED
    BY <1>2 DEF ReportedReady, Up

\* The plan of a pass that starts.
LEMMA PlanStarts ==
  ASSUME AcceptSpec, Defaulted.spec = Desired
  PROVE  /\ wp' = Defaulted
         /\ \/ pc' = "secret" /\ Desired.mode = "External"
            \/ /\ pc' = "children" /\ Desired.mode # "External"
               /\ \A k \in Visited : ToVisit(k)'
  <1>1. CASE Desired.mode = "External"
    BY <1>1 DEF AcceptSpec
  <1>2. CASE Desired.mode # "External"
    <2>1. pc' = "children" /\ todo' = DatabasePlan \o SitePlan /\ wp' = Defaulted
      BY <1>2 DEF AcceptSpec
    <2> QED
      BY <1>2, <2>1, PlanOfPass DEF ToVisit
  <1> QED
    BY <1>1, <1>2

\* The plan of a pass shrinks by the child that is visited.
LEMMA PlanShrinks ==
  ASSUME TypeOK, todo # <<>>, todo' = Tail(todo), NEW k \in ChildKinds, ToVisit(k)
  PROVE  k = Head(todo) \/ ToVisit(k)'
  <1>1. todo \in Seq(ChildKinds)
    BY DEF TypeOK
  <1>2. PICK i \in 1..Len(todo) : todo[i] = k
    BY DEF ToVisit
  <1>3. todo[i] = Head(todo) \/ (i - 1 \in 1..Len(Tail(todo)) /\ Tail(todo)[i - 1] = todo[i])
    BY <1>1, <1>2
  <1> QED
    BY <1>2, <1>3 DEF ToVisit

\* A pass that wakes nobody and ends has stored a Ready status that is true.
LEMMA ReadyPass ==
  ASSUME TypeOK, TypeOK', NeverGivesUp, AlikeInv, ResourceChange, StreamStep("WordPress"),
         \A k \in ChildKinds : StreamStep(k), Worker, ~Begin,
         Unattended, Progress, ReadyTold, Unattended'
  PROVE  ReadyTold'
  <1>0. /\ Resource'.gen = Resource.gen /\ Desired' = Desired /\ Unprompted
        /\ (Up("Deployment")' <=> Up("Deployment")) /\ (DatabaseUp' <=> DatabaseUp)
        /\ \A k \in ChildKinds : Live(k)' = Live(k)
    BY Steady, TellingKept DEF Unattended
  <1>1. ~timer'
    BY DEF Unattended, Unprompted, Wake
  <1>2. {"Deployment", "StatefulSet"} \subseteq ChildKinds
    BY DEF ChildKinds, DatabaseKinds, SiteKinds
  <1>3. CASE CheckUserSecret
    <2>1. pc' = "children" \/ (pc' = "persist" /\ after' = "noSecret")
      BY <1>3 DEF CheckUserSecret, Persist
    <2>2. DatabaseUp'
      BY <1>0, <1>3 DEF CheckUserSecret, Progress, DatabaseUp
    <2> QED
      BY <2>1, <2>2 DEF ReadyTold
  <1>4. ASSUME NEW k \in ChildKinds, ApplyChild(k)
        PROVE  ReadyTold'
    <2>1. /\ pc = "children" /\ todo # <<>> /\ k = Head(todo) /\ Current
          /\ wp \in Resources
      BY <1>4 DEF ApplyChild, Progress, TypeOK
    <2>2. CASE pc' = "persist" /\ after' = "dbError"
      BY <2>2 DEF ReadyTold
    <2>3. CASE pc' = "children" /\ todo' = Tail(todo) /\ wp'.status = Observed(k, wp.status)
      <3>1. wp.status \in Statuses
        BY <2>1 DEF Resources
      <3>2. /\ k # "StatefulSet" => wp'.status.database = wp.status.database
            /\ (k = "StatefulSet" /\ wp'.status.database = "True") => ReportedReady(k)
        <4>1. /\ k # "StatefulSet" => Observed(k, wp.status).database = wp.status.database
              /\ (k = "StatefulSet" /\ Observed(k, wp.status).database = "True")
                   => ReportedReady(k)
          BY <1>4, <3>1, ObservedFields
        <4> QED
          BY <2>3, <4>1, Zenon
      <3>3. CASE k = "StatefulSet"
        <4>1. wp'.status.database = "True" => DatabaseUp
          BY <1>0, <3>2, <3>3, ReadsUp DEF DatabaseUp
        <4> QED
          BY <1>0, <2>3, <4>1 DEF ReadyTold
      <3>4. CASE k # "StatefulSet"
        <4>1. ToVisit("StatefulSet") => ToVisit("StatefulSet")'
          BY <1>2, <2>1, <2>3, <3>4, PlanShrinks
        <4> QED
          BY <1>0, <2>1, <2>3, <3>2, <3>4, <4>1 DEF ReadyTold
      <3> QED
        BY <3>3, <3>4
    <2> QED
      BY <1>0, <1>4, <2>1, <2>2, <2>3, VisitSettles
  <1>5. CASE UpdateStatus
    <2>1. pc = "children" /\ todo = <<>> /\ pc' = "persist"
      BY <1>5 DEF UpdateStatus, Persist
    <2>2. ~ToVisit("StatefulSet") /\ wp.gen = Resource.gen
      BY <2>1 DEF ToVisit, Progress, Current
    <2>3. wp.status.database = "True" => DatabaseUp
      BY <2>1, <2>2 DEF ReadyTold
    <2>4. ReportedReady("Deployment") <=> Up("Deployment")
      BY <1>0, <1>2, ReadsUp
    <2>5. /\ wp'.status.observed = wp.gen
          /\ wp'.status.phase = "Ready" =>
               /\ wp'.status.ready = "True"
               /\ ReportedReady("Deployment") /\ wp.status.database = "True"
      BY <1>5, UpdatedFields
    <2> QED
      BY <1>0, <2>1, <2>2, <2>3, <2>4, <2>5 DEF ReadyTold, TellsReady
  <1>6. CASE PersistStatus
    <2>1. pc = "persist"
      BY <1>6 DEF PersistStatus
    <2>2. after = "done"
      <3>1. PICK r : Return(Requeue(after, r))
        BY <1>6 DEF PersistStatus
      <3> QED
        BY <1>1, <2>1, <3>1 DEF Progress, Return, Requeue
    <2>3. /\ Resource'.status = wp.status /\ pc' = "idle"
          /\ wp.status.phase = "Ready"
      BY <1>0, <1>1, <1>6, <2>2, PersistLands
    <2>4. wp.status.observed = Resource.gen /\ TellsReady(wp.status)
      BY <2>1, <2>2 DEF ReadyTold
    <2> QED
      BY <1>0, <2>3, <2>4 DEF ReadyTold, TellsReady
  <1>7. ~RemoveFinalizer
    BY DEF RemoveFinalizer, Progress
  <1> QED
    BY <1>3, <1>4, <1>5, <1>6, <1>7
       DEF Worker, ReconcileFinished, HandleDeletion, AddFinalizer, RejectSpec, AcceptSpec,
           BeginPass

\* The invariant holds at first and every step keeps it.
LEMMA ReadyInductive ==
  /\ Init => ReadyInv
  /\ (/\ Rewritten /\ NeverGivesUp /\ VisitsDatabase
      /\ TypeOK /\ TypeOK' /\ NoticeInv /\ WakeInv /\ ReadyInv /\ [Next]_vars)
     => ReadyInv'
<1>1. ASSUME Init PROVE ReadyInv
  <2>1. obj["WordPress"] = <<Absent>>
    BY <1>1, NothingAtFirst
  <2> QED
    BY <2>1 DEF ReadyInv, Unattended, Unprompted, Running, Live
<1>2. ASSUME Rewritten, NeverGivesUp, VisitsDatabase, TypeOK, TypeOK', NoticeInv, WakeInv,
             ReadyInv, [Next]_vars, Unattended'
      PROVE  ReadyTold'
  <2>1. /\ ResourceChange /\ StreamStep("WordPress")
        /\ \A k \in ChildKinds : StreamStep(k)
    BY <1>2, Apart, NextResourceChange, NextStreamStep
  <2>2. /\ Unprompted' /\ validateSpec(Desired) /\ Resource'.gen = Resource.gen
        /\ Desired' = Desired /\ Running /\ Running' /\ Alike(Resource, Resource')
    BY <1>2, <2>1, Steady DEF Unattended, Unprompted
  <2>3. CASE Worker /\ Begin
    <3>1. \A s \in Submitted : applyDefaults(s) = Desired => WriteBack(s) # s
      BY <1>2, <2>2 DEF Rewritten
    <3>2. (AcceptSpec \/ RejectSpec) /\ Defaulted.spec = Desired
      BY <1>2, <2>1, <2>2, <2>3, <3>1, BeginReads
    <3>3. AcceptSpec
      BY <2>2, <3>2 DEF RejectSpec
    <3>4. \/ pc' = "secret"
          \/ /\ pc' = "children" /\ Desired.mode # "External"
             /\ \A k \in Visited : ToVisit(k)'
      BY <3>2, <3>3, PlanStarts
    <3>5. Desired.mode # "External" => "StatefulSet" \in Visited
      BY <1>2 DEF VisitsDatabase, Visited
    <3> QED
      BY <3>4, <3>5 DEF ReadyTold
  <2>4. CASE Worker => ~Begin
    <3>1. Unprompted /\ ~Restart
      BY <1>2, <2>2, <2>4, StillUnprompted
    <3>2. Unattended /\ Progress /\ ReadyTold
      BY <1>2, <2>2, <3>1 DEF Unattended, WakeInv, ReadyInv
    <3>3. CASE Worker
      BY <1>2, <2>1, <2>4, <3>2, <3>3, ReadyPass DEF NoticeInv
    <3>4. CASE UNCHANGED workerVars /\ ~Worker
      <4>1. pc' = pc /\ wp' = wp /\ todo' = todo /\ after' = after
        BY <3>4 DEF workerVars
      <4>2. Resource'.status = Resource.status
        BY <1>2, <2>2, <3>4, StatusKept DEF Worker
      <4>3. /\ Up("Deployment")' <=> Up("Deployment")
            /\ DatabaseUp' <=> DatabaseUp
        BY <1>2, <2>1, <2>2, TellingKept
      <4>4. ToVisit("StatefulSet")' <=> ToVisit("StatefulSet")
        BY <4>1 DEF ToVisit
      <4> QED
        BY <2>2, <3>2, <4>1, <4>2, <4>3, <4>4 DEF ReadyTold, TellsReady
    <3> QED
      BY <1>2, <3>1, <3>3, <3>4 DEF Next, TimerFires, Deliver, vars
  <2> QED
    BY <2>3, <2>4
<1> QED
  BY <1>1, <1>2 DEF ReadyInv

-----------------------------------------------------------------------------
(* The Ingress condition *)

\* The visit of an unwanted Ingress that changes nothing clears the condition,
\* unless the Ingress is one that a former incarnation left behind.
LEMMA VisitClears ==
  ASSUME TypeOK, OwnedInv, Unprompted, Current, ~Wants("Ingress", Desired),
         Settled("Ingress"), wp \in Resources,
         NEW status, status = Observed("Ingress", wp.status)
  PROVE  Cleared(status)
  <1>1. "Ingress" \in ChildKinds /\ "Ingress" \in Kinds /\ Resource # Absent
    BY Apart DEF ChildKinds, SiteKinds, Unprompted, Running
  <1>2. CASE Live("Ingress") = Absent
    <2>1. Cached("Ingress") = Absent
      BY <1>1, <1>2, ReadsUp
    <2>2. ~Wants("Ingress", wp.spec)
      BY DEF Current
    <2>3. wp.status \in Statuses
      BY DEF Resources
    <2>4. Observed("Ingress", wp.status).ingress = ""
      BY <1>1, <2>1, <2>2, <2>3, ObservedFields
    <2> QED
      BY <2>4 DEF Cleared
  <1>3. CASE Live("Ingress") # Absent
    <2>1. Live("Ingress").owner # Resource.uid
      <3>1. "Ingress" \in Optional
        BY DEF Optional
      <3> QED
        BY <1>3, <3>1, Zenon DEF Settled
    <2>2. Live("Ingress").owner # 0
      BY <1>1, <1>3, LiveInStream DEF OwnedInv
    <2> QED
      BY <1>3, <2>1, <2>2 DEF Cleared, Orphaned
  <1> QED
    BY <1>2, <1>3

\* A pass that wakes nobody and ends has stored a status without the condition.
LEMMA IngressPass ==
  ASSUME TypeOK, TypeOK', NeverGivesUp, AlikeInv, OwnedInv, ResourceChange,
         StreamStep("WordPress"), \A k \in ChildKinds : StreamStep(k), Worker, ~Begin,
         Unattended, Progress, IngressTold, Unattended', ~Wants("Ingress", Desired), VisitsIngress
  PROVE  IngressTold'
  <1>0. /\ Unprompted /\ (Orphaned("Ingress")' <=> Orphaned("Ingress"))
        /\ \A k \in ChildKinds : Live(k)' = Live(k)
    BY Steady, TellingKept DEF Unattended
  <1>1. ~timer'
    BY DEF Unattended, Unprompted, Wake
  <1>2. "Ingress" \in ChildKinds
    BY DEF ChildKinds, SiteKinds
  <1>3. CASE CheckUserSecret
    <2>1. pc = "secret" /\ wp \in Resources
      BY <1>3 DEF CheckUserSecret, TypeOK
    <2>2. CASE pc' = "persist" /\ after' = "noSecret"
      BY <2>2 DEF IngressTold
    <2>3. CASE pc' = "children" /\ todo' = SitePlan
      <3>1. \A k \in {SitePlan[i] : i \in DOMAIN SitePlan} : ToVisit(k)'
        BY <2>3, PlanAssumption DEF ToVisit
      <3> QED
        BY <2>3, <3>1 DEF IngressTold, VisitsIngress
    <2> QED
      BY <1>3, <2>2, <2>3 DEF CheckUserSecret, Persist
  <1>4. ASSUME NEW k \in ChildKinds, ApplyChild(k)
        PROVE  IngressTold'
    <2>1. /\ pc = "children" /\ todo # <<>> /\ k = Head(todo) /\ Current
          /\ wp \in Resources
      BY <1>4 DEF ApplyChild, Progress, TypeOK
    <2>2. CASE pc' = "persist" /\ after' = "dbError"
      BY <2>2 DEF IngressTold
    <2>3. CASE /\ pc' = "children" /\ todo' = Tail(todo) /\ Settled(k)
               /\ wp'.status = Observed(k, wp.status)
      <3>1. CASE k = "Ingress"
        <4>1. Cleared(wp'.status)
          BY <1>0, <2>1, <2>3, <3>1, VisitClears
        <4> QED
          BY <1>0, <2>3, <4>1 DEF IngressTold, Cleared
      <3>2. CASE k # "Ingress"
        <4>1. wp.status \in Statuses
          BY <2>1 DEF Resources
        <4>2. wp'.status.ingress = wp.status.ingress
          BY <1>4, <2>3, <3>2, <4>1, ObservedFields
        <4>3. ToVisit("Ingress") => ToVisit("Ingress")'
          BY <1>2, <2>1, <2>3, <3>2, PlanShrinks
        <4> QED
          BY <1>0, <2>1, <2>3, <4>2, <4>3 DEF IngressTold, Cleared
      <3> QED
        BY <3>1, <3>2
    <2> QED
      BY <1>0, <1>4, <2>1, <2>2, <2>3, VisitSettles
  <1>5. CASE UpdateStatus
    <2>1. pc = "children" /\ todo = <<>> /\ pc' = "persist"
      BY <1>5 DEF UpdateStatus, Persist
    <2>2. ~ToVisit("Ingress")
      BY <2>1 DEF ToVisit
    <2>3. wp'.status.ingress = wp.status.ingress
      BY <1>5, UpdatedFields
    <2> QED
      BY <1>0, <2>1, <2>2, <2>3 DEF IngressTold, Cleared
  <1>6. CASE PersistStatus
    <2>1. pc = "persist"
      BY <1>6 DEF PersistStatus
    <2>2. after = "done"
      <3>1. PICK r : Return(Requeue(after, r))
        BY <1>6 DEF PersistStatus
      <3> QED
        BY <1>1, <2>1, <3>1 DEF Progress, Return, Requeue
    <2>3. Resource'.status = wp.status /\ pc' = "idle"
      BY <1>0, <1>1, <1>6, <2>2, PersistLands
    <2> QED
      BY <1>0, <2>1, <2>2, <2>3 DEF IngressTold, Cleared
  <1>7. ~RemoveFinalizer
    BY DEF RemoveFinalizer, Progress
  <1> QED
    BY <1>3, <1>4, <1>5, <1>6, <1>7
       DEF Worker, ReconcileFinished, HandleDeletion, AddFinalizer, RejectSpec, AcceptSpec,
           BeginPass

\* The invariant holds at first and every step keeps it.
LEMMA IngressInductive ==
  /\ Init => IngressInv
  /\ (/\ Rewritten /\ NeverGivesUp /\ VisitsIngress
      /\ TypeOK /\ TypeOK' /\ NoticeInv /\ WakeInv /\ IngressInv /\ [Next]_vars)
     => IngressInv'
<1>1. ASSUME Init PROVE IngressInv
  <2>1. obj["WordPress"] = <<Absent>>
    BY <1>1, NothingAtFirst
  <2> QED
    BY <2>1 DEF IngressInv, Unattended, Unprompted, Running, Live
<1>2. ASSUME Rewritten, NeverGivesUp, VisitsIngress, TypeOK, TypeOK', NoticeInv, WakeInv,
             IngressInv, [Next]_vars, Unattended', ~Wants("Ingress", Desired')
      PROVE  IngressTold'
  <2>1. /\ ResourceChange /\ StreamStep("WordPress")
        /\ \A k \in ChildKinds : StreamStep(k)
    BY <1>2, Apart, NextResourceChange, NextStreamStep
  <2>2. /\ Unprompted' /\ validateSpec(Desired) /\ ~Wants("Ingress", Desired)
        /\ Running /\ Running' /\ Alike(Resource, Resource')
    BY <1>2, <2>1, Steady DEF Unattended, Unprompted
  <2>3. CASE Worker /\ Begin
    <3>1. \A s \in Submitted : applyDefaults(s) = Desired => WriteBack(s) # s
      BY <1>2, <2>2 DEF Rewritten
    <3>2. (AcceptSpec \/ RejectSpec) /\ Defaulted.spec = Desired
      BY <1>2, <2>1, <2>2, <2>3, <3>1, BeginReads
    <3>3. AcceptSpec
      BY <2>2, <3>2 DEF RejectSpec
    <3>4. pc' = "secret" \/ (pc' = "children" /\ \A k \in Visited : ToVisit(k)')
      BY <3>2, <3>3, PlanStarts
    <3>5. "Ingress" \in Visited
      BY <1>2 DEF VisitsIngress, Visited
    <3> QED
      BY <3>4, <3>5 DEF IngressTold
  <2>4. CASE Worker => ~Begin
    <3>1. Unprompted /\ ~Restart
      BY <1>2, <2>2, <2>4, StillUnprompted
    <3>2. Unattended /\ Progress /\ IngressTold
      BY <1>2, <2>2, <3>1 DEF Unattended, WakeInv, IngressInv
    <3>3. CASE Worker
      BY <1>2, <2>1, <2>2, <2>4, <3>2, <3>3, IngressPass DEF NoticeInv
    <3>4. CASE UNCHANGED workerVars /\ ~Worker
      <4>1. pc' = pc /\ wp' = wp /\ todo' = todo /\ after' = after
        BY <3>4 DEF workerVars
      <4>2. Resource'.status = Resource.status
        BY <1>2, <2>2, <3>4, StatusKept DEF Worker
      <4>3. Orphaned("Ingress")' <=> Orphaned("Ingress")
        BY <1>2, <2>1, <2>2, TellingKept
      <4>4. ToVisit("Ingress")' <=> ToVisit("Ingress")
        BY <4>1 DEF ToVisit
      <4> QED
        BY <3>2, <4>1, <4>2, <4>3, <4>4 DEF IngressTold, Cleared
    <3> QED
      BY <1>2, <3>1, <3>3, <3>4 DEF Next, TimerFires, Deliver, vars
  <2> QED
    BY <2>3, <2>4
<1> QED
  BY <1>1, <1>2 DEF IngressInv

-----------------------------------------------------------------------------
(* Rejections *)

\* Sending a spec back makes it neither valid nor invalid.
LEMMA WriteBackValid ==
  ASSUME NEW s \in Specs
  PROVE  validateSpec(applyDefaults(WriteBack(s))) <=> validateSpec(applyDefaults(s))
  <1> DEFINE v == applyDefaults(s)
             w == applyDefaults(WriteBack(s))
  <1>1. /\ v.mode = w.mode /\ v.external = w.external
        /\ v.hpa = w.hpa /\ v.ingress = w.ingress
    BY DEF applyDefaults, WriteBack, Specs
  <1> HIDE DEF v, w
  <1>2. validateSpec(w) <=> validateSpec(v)
    BY <1>1 DEF validateSpec
  <1> QED
    BY <1>2 DEF v, w

\* Only users, and the addition of the finalizer, choose the stored spec.
LEMMA ValidInductive ==
  /\ Init => ValidInv
  /\ TypeOK /\ ValidInv /\ [Next]_vars => ValidInv'
<1>1. ASSUME Init PROVE ValidInv
  <2>1. obj["WordPress"] = <<Absent>>
    BY <1>1, NothingAtFirst
  <2> QED
    BY <2>1 DEF ValidInv, Live
<1>2. ASSUME TypeOK, ValidInv, [Next]_vars,
             \A s \in Submitted : validateSpec(applyDefaults(s)), Resource' # Absent
      PROVE  validateSpec(Desired')
  <2>1. ResourceHistory
    BY <1>2, NextHistory
  <2>2. CASE Resource' = Resource
    BY <1>2, <2>2 DEF ValidInv, Desired
  <2>3. CASE Resource'.spec \in Submitted
    BY <1>2, <2>3 DEF Desired
  <2>4. CASE /\ Resource # Absent
             /\ Resource'.spec \in {Resource.spec, WriteBack(Resource.spec)}
    <3>1. Resource.spec \in Specs
      BY <1>2, <2>4, ResourceVersions DEF TypeOK, Resources
    <3>2. validateSpec(applyDefaults(Resource.spec))
      BY <1>2, <2>4 DEF ValidInv, Desired
    <3>3. validateSpec(applyDefaults(WriteBack(Resource.spec)))
      BY <3>1, <3>2, WriteBackValid
    <3> QED
      BY <2>4, <3>2, <3>3 DEF Desired
  <2> QED
    BY <1>2, <2>1, <2>2, <2>3, <2>4 DEF ResourceHistory, Created, Revised
<1> QED
  BY <1>1, <1>2 DEF ValidInv

\* A pass that rejects the spec does so in the status it writes.
LEMMA RejectionTold ==
  ASSUME RejectSpec, Defaulted \in Resources
  PROVE  pc' = "persist" /\ after' = "invalid" /\ Failed(wp'.status)
  <1>1. Defaulted.status \in Statuses
    BY DEF Resources
  <1>2. wp' = [Defaulted EXCEPT !.status.phase = "Failed", !.status.ready = "False"]
    BY DEF RejectSpec
  <1>3. wp'.status.phase = "Failed" /\ wp'.status.ready = "False"
    BY <1>1, <1>2 DEF Resources, Statuses
  <1> QED
    BY <1>3 DEF RejectSpec, Persist, Failed

\* The invariant holds at first and every step keeps it.
LEMMA RejectInductive ==
  /\ Init => RejectInv
  /\ (/\ AlwaysRewritten /\ NeverGivesUp /\ RejectionsLand
      /\ TypeOK /\ TypeOK' /\ NoticeInv /\ ValidInv /\ RejectInv /\ [Next]_vars)
     => RejectInv'
<1>1. ASSUME Init PROVE RejectInv
  <2>1. obj["WordPress"] = <<Absent>>
    BY <1>1, NothingAtFirst
  <2> QED
    BY <2>1 DEF RejectInv, Unprompted, Running, Live
<1>2. ASSUME AlwaysRewritten, NeverGivesUp, RejectionsLand, TypeOK, TypeOK', NoticeInv,
             ValidInv, RejectInv, [Next]_vars, Unprompted', ~validateSpec(Desired')
      PROVE  RejectTold'
  <2>1. /\ ResourceChange /\ StreamStep("WordPress")
        /\ \A k \in ChildKinds : StreamStep(k)
    BY <1>2, Apart, NextResourceChange, NextStreamStep
  <2>2. /\ ~validateSpec(Desired) /\ Running /\ Running' /\ Alike(Resource, Resource')
    BY <1>2, <2>1, Steady DEF Unprompted
  <2>3. CASE Worker /\ Begin
    <3>1. \A s \in Submitted : applyDefaults(s) = Desired => WriteBack(s) # s
      BY <1>2 DEF AlwaysRewritten
    <3>2. (AcceptSpec \/ RejectSpec) /\ Defaulted.spec = Desired /\ Defaulted \in Resources
      BY <1>2, <2>1, <2>3, <3>1, BeginReads
    <3>3. RejectSpec
      BY <2>2, <3>2 DEF AcceptSpec
    <3> QED
      BY <3>2, <3>3, RejectionTold DEF RejectTold
  <2>4. CASE Worker => ~Begin
    <3>1. Unprompted /\ ~Restart
      BY <1>2, <2>4, StillUnprompted
    <3>2. RejectTold
      BY <1>2, <2>2, <3>1 DEF RejectInv
    <3>3. CASE Worker
      <4>1. PersistStatus
        BY <2>4, <3>2, <3>3 DEF RejectTold, Worker, Begin, ReconcileFinished, HandleDeletion,
           RemoveFinalizer, AddFinalizer, RejectSpec, AcceptSpec, BeginPass, CheckUserSecret,
           ApplyChild, UpdateStatus
      <4>2. after = "invalid" /\ Failed(wp.status)
        BY <3>2, <4>1 DEF RejectTold, PersistStatus
      <4>3. Budget["fault"] = 0
        BY <1>2, <2>2 DEF RejectionsLand, ValidInv, Running
      <4>4. ~timer'
        BY <1>2 DEF Unprompted, Wake
      <4>5. Resource'.status = wp.status /\ pc' = "idle"
        BY <1>2, <3>1, <4>1, <4>2, <4>3, <4>4, PersistLands DEF NoticeInv
      <4> QED
        BY <4>2, <4>5 DEF RejectTold, Failed
    <3>4. CASE UNCHANGED workerVars /\ ~Worker
      <4>1. pc' = pc /\ wp' = wp /\ after' = after
        BY <3>4 DEF workerVars
      <4>2. Resource'.status = Resource.status
        BY <1>2, <2>2, <3>4, StatusKept DEF Worker
      <4> QED
        BY <3>2, <4>1, <4>2 DEF RejectTold, Failed
    <3> QED
      BY <1>2, <3>1, <3>3, <3>4 DEF Next, TimerFires, Deliver, vars
  <2> QED
    BY <2>3, <2>4
<1> QED
  BY <1>1, <1>2 DEF RejectInv

-----------------------------------------------------------------------------
(* The theorems *)

\* When nothing is pending nothing will remind the controller of the resource,
\* no pass is on, and the pods are as the workloads' status says.
LEMMA QuiescentTelling ==
  ASSUME TypeOK, Quiescent, Running
  PROVE  /\ Unprompted /\ pc = "idle" /\ ~Orphaned("Ingress")
         /\ \A k \in Workloads : Up(k) => Ready(k)
  <1>1. \A k \in Kinds : InSync(k)
    BY DEF Quiescent
  <1>2. ~Notified(1)
    <2>1. Len(obj["WordPress"]) = 1
      BY <1>1, Apart DEF InSync
    <2>2. 1..(1 - 1) = {}
      OBVIOUS
    <2> QED
      BY <2>1, <2>2 DEF Notified
  <1>3. Unprompted
    BY <1>1, <1>2, Apart DEF Unprompted, Wake, Quiescent
  <1>4. \A k \in Workloads : Up(k) => Ready(k)
    BY DEF Quiescent, Up, Ready
  <1> QED
    BY <1>3, <1>4 DEF Quiescent, ChildKinds, SiteKinds

\* Left alone, the operator reports the truth: once no key, timer or event is
\* pending, a valid spec is Ready as of its own generation with its workloads
\* up, an invalid one Failed.  Besides what the convergence of the children
\* takes, this takes that status writes do not run out of attempts, and, as the
\* report of a rejection is not tried again, that none is lost (updateStatus,
\* markFailed, persistStatus).
THEOREM StatusAlwaysConverges ==
  (AlwaysRewritten /\ Unclaimed /\ NeverGivesUp /\ VisitsDatabase /\ RejectionsLand)
    => (Spec => []StatusConverges)
<1> DEFINE H == AlwaysRewritten /\ Unclaimed /\ NeverGivesUp /\ VisitsDatabase
                /\ RejectionsLand
           IInv == /\ H /\ FinalizerInv /\ OwnerInv /\ NoticeInv /\ WakeInv
                   /\ ReadyInv /\ ValidInv /\ RejectInv
<1>0. AlwaysRewritten => Rewritten
  BY DEF AlwaysRewritten, Rewritten
<1>1. H /\ Init => IInv
  BY FinalizerInductive, OwnerInductive, NoticeInductive, WakeInductive, ReadyInductive,
     ValidInductive, RejectInductive
<1>2. TypeOK /\ IInv /\ [Next]_vars => IInv'
  <2> SUFFICES ASSUME TypeOK, IInv, [Next]_vars
               PROVE  IInv'
    OBVIOUS
  <2>1. H'
    BY DEF AlwaysRewritten, Unclaimed, NeverGivesUp, VisitsDatabase, RejectionsLand
  <2>2. TypeOK' /\ Rewritten
    BY <1>0, TypeInductive
  <2>3. FinalizerInv' /\ OwnerInv' /\ NoticeInv' /\ WakeInv'
    BY <2>2, FinalizerInductive, OwnerInductive, NoticeInductive, WakeInductive
  <2>4. ReadyInv' /\ ValidInv' /\ RejectInv'
    BY <2>2, ReadyInductive, ValidInductive, RejectInductive
  <2> QED
    BY <2>1, <2>3, <2>4
<1>3. TypeOK /\ IInv => StatusConverges
  <2> SUFFICES ASSUME TypeOK, IInv, Quiescent, Running
               PROVE  IF validateSpec(Desired)
                      THEN /\ Resource.status.phase = "Ready"
                           /\ Resource.status.ready = "True"
                           /\ Resource.status.observed = Resource.gen
                           /\ Ready("Deployment")
                           /\ Desired.mode = "Internal" => Ready("StatefulSet")
                      ELSE Resource.status.phase = "Failed" /\ Resource.status.ready = "False"
    BY DEF StatusConverges
  <2>1. Unprompted /\ pc = "idle" /\ \A k \in Workloads : Up(k) => Ready(k)
    BY QuiescentTelling
  <2>2. CASE validateSpec(Desired)
    BY <2>1, <2>2 DEF ReadyInv, ReadyTold, TellsReady, DatabaseUp, Unattended, Workloads
  <2>3. CASE ~validateSpec(Desired)
    BY <2>1, <2>3 DEF RejectInv, RejectTold, Failed
  <2> QED
    BY <2>2, <2>3
<1> QED
  BY <1>1, <1>2, <1>3, TypeCorrect, PTL DEF Spec

\* Left alone, the operator takes the Ingress condition away from a resource
\* that has no Ingress of its own any more, although the pass that deletes the
\* Ingress keeps it (reconcileIngress).
THEOREM IngressConditionAlwaysConverges ==
  (Rewritten /\ Unclaimed /\ NeverGivesUp /\ VisitsIngress)
    => (Spec => []IngressConditionConverges)
<1> DEFINE H == Rewritten /\ Unclaimed /\ NeverGivesUp /\ VisitsIngress
           IInv == /\ H /\ FinalizerInv /\ OwnerInv /\ NoticeInv /\ WakeInv /\ IngressInv
<1>1. H /\ Init => IInv
  BY FinalizerInductive, OwnerInductive, NoticeInductive, WakeInductive, IngressInductive
<1>2. TypeOK /\ IInv /\ [Next]_vars => IInv'
  <2> SUFFICES ASSUME TypeOK, IInv, [Next]_vars
               PROVE  IInv'
    OBVIOUS
  <2>1. H'
    BY DEF Rewritten, Unclaimed, NeverGivesUp, VisitsIngress
  <2>2. TypeOK'
    BY TypeInductive
  <2>3. FinalizerInv' /\ OwnerInv' /\ NoticeInv' /\ WakeInv'
    BY <2>2, FinalizerInductive, OwnerInductive, NoticeInductive, WakeInductive
  <2>4. IngressInv'
    BY <2>2, IngressInductive
  <2> QED
    BY <2>1, <2>3, <2>4
<1>3. TypeOK /\ IInv => IngressConditionConverges
  BY QuiescentTelling
     DEF IngressConditionConverges, IngressInv, IngressTold, Cleared, Unattended
<1> QED
  BY <1>1, <1>2, <1>3, TypeCorrect, PTL DEF Spec

-----------------------------------------------------------------------------
(* The data of a resource that stays *)

\* Nobody has asked for a deletion, or changed or removed a child.
NothingLost == used["delete"] = 0 /\ used["drift"] = 0

\* Then no version of the resource is marked, the Secret is its own, and what
\* has been initialised was initialised with that Secret.
KeptInv ==
  NothingLost =>
    /\ pc # "finalize"
    /\ \A v \in Seen \ {Absent} : ~v.deleting
    /\ Live("Secret") # Absent =>
         Resource # Absent /\ Live("Secret").owner = Resource.uid
    /\ (Live("MySQLPVC") # Absent /\ Live("MySQLPVC").data # 0) =>
         Live("Secret") # Absent /\ Live("Secret").password = Live("MySQLPVC").data

\* What was spent is counted.
LEMMA SpendCounts ==
  ASSUME TypeOK, NEW d \in Disturbances, Spend(d)
  PROVE  used'[d] # 0
  <1>1. used \in [Disturbances -> Nat] /\ \A n \in Nat : n + 1 # 0
    BY DEF TypeOK, ClusterTypeOK
  <1> QED
    BY <1>1 DEF Spend

\* Only handleDeletion goes on to remove the finalizer.
LEMMA FinalizeStarts ==
  ASSUME [Next]_vars, pc # "finalize", ~HandleDeletion
  PROVE  pc' # "finalize"
  <1>1. CASE UNCHANGED workerVars
    BY <1>1 DEF workerVars
  <1>2. CASE RemoveFinalizer \/ AddFinalizer \/ PersistStatus \/ Restart
    <2>1. pc' = "idle"
      BY <1>2, Zenon DEF RemoveFinalizer, AddFinalizer, PersistStatus, Restart, Return
    <2> QED
      BY <2>1
  <1>3. CASE RejectSpec \/ AcceptSpec \/ CheckUserSecret \/ UpdateStatus
    <2>1. pc' \in {"persist", "secret", "children"}
      BY <1>3 DEF RejectSpec, AcceptSpec, CheckUserSecret, UpdateStatus, Persist
    <2> QED
      BY <2>1
  <1>4. CASE \E k \in ChildKinds : ApplyChild(k)
    <2>1. pc' \in {"children", "persist", "idle"}
      BY <1>4 DEF ApplyChild, Abort, Persist, Return
    <2> QED
      BY <2>1
  <1>5. CASE ReconcileFinished \/ TimerFires \/ (\E k \in Kinds : Deliver(k)) \/ UNCHANGED vars
    BY <1>1, <1>5 DEF ReconcileFinished, TimerFires, Deliver, vars
  <1> QED
    BY <1>1, <1>2, <1>3, <1>4, <1>5 DEF Next, Worker

\* A resource that nobody deletes stays, unmarked.
LEMMA ResourceStays ==
  ASSUME TypeOK, FinalizerInv, [Next]_vars, KeptInv, NothingLost, NothingLost'
  PROVE  /\ ~HandleDeletion /\ pc' # "finalize"
         /\ Resource # Absent => Resource' # Absent /\ Resource'.uid = Resource.uid
         /\ \A v \in Seen' \ {Absent} : ~v.deleting
  <1>1. /\ pc # "finalize" /\ \A v \in Seen \ {Absent} : ~v.deleting
        /\ Resource \in Seen /\ Cached("WordPress") \in Seen
    BY SeenEnds DEF KeptInv
  <1>2. ~DeleteWordPress
    BY SpendCounts DEF DeleteWordPress, NothingLost, Disturbances
  <1>3. ~RemoveFinalizer
    BY <1>1 DEF RemoveFinalizer
  <1>4. ~HandleDeletion
    BY <1>1 DEF HandleDeletion, Finished
  <1>5. ResourceHistory
    BY NextHistory
  <1>6. Resource # Absent => Resource' # Absent /\ Resource'.uid = Resource.uid
    BY <1>2, <1>3, <1>5 DEF ResourceHistory, Created, Revised
  <1>7. Resource' # Absent => ~Resource'.deleting
    BY <1>1, <1>2, <1>5 DEF ResourceHistory, Created, Revised
  <1>8. Seen' \subseteq Seen \cup {Resource'}
    BY NextResourceStep DEF ResourceStep, Same, Writes
  <1> QED
    BY <1>1, <1>4, <1>6, <1>7, <1>8, FinalizeStarts

\* Who writes the Secret and the claim.
LEMMA CredentialWriters ==
  ASSUME TypeOK, [Next]_vars, NEW k \in {"Secret", "MySQLPVC"}, Live(k)' # Live(k)
  PROVE  \/ /\ k = "Secret"
            /\ ApplyChild(k) \/ Drift(k) \/ CollectGarbage(k)
         \/ /\ k = "MySQLPVC"
            /\ HandleDeletion \/ ProvisionVolume \/ InitialiseVolume \/ ReleaseVolume
  <1>0. /\ k \in Kinds /\ k \notin Workloads /\ k \notin {"WordPress", "UserSecret", "Deployment"}
        /\ k \notin Optional
        /\ {"WordPress", "UserSecret", "MySQLPVC", "Deployment"} \subseteq Kinds
        /\ Workloads \subseteq Kinds /\ ChildKinds \subseteq Kinds
        /\ k \in ChildKinds <=> k = "Secret"
    BY DEF Kinds, Workloads, Optional, ChildKinds, DatabaseKinds, SiteKinds
  <1>1. \A j \in Kinds \ {k} : \A v : ~Put(j, v)
    BY <1>0, PutLive DEF Only
  <1>2. ~UNCHANGED obj
    BY DEF Live
  <1>3. ~Restart /\ \A j \in Kinds : ~Deliver(j)
    BY <1>0, NothingStored DEF Untouched
  <1>4. CASE Worker
    <2>1. ~AddFinalizer
      <3>1. AddFinalizer => UNCHANGED obj \/ \E v : Put("WordPress", v)
        BY DEF AddFinalizer, PutWordPress
      <3> QED
        BY <1>0, <1>1, <1>2, <3>1
    <2>2. ~RemoveFinalizer /\ ~PersistStatus
      BY <1>0, <1>1, <1>2 DEF RemoveFinalizer, PersistStatus, PutWordPress
    <2>3. HandleDeletion => k = "MySQLPVC"
      BY <1>0, <1>1, <1>2 DEF HandleDeletion
    <2>4. \A j \in ChildKinds : ApplyChild(j) => j = k
      BY <1>0, <1>1, <1>2 DEF ApplyChild
    <2>5. /\ ~ReconcileFinished /\ ~RejectSpec /\ ~AcceptSpec
          /\ ~CheckUserSecret /\ ~UpdateStatus
      BY <1>2 DEF ReconcileFinished, RejectSpec, AcceptSpec, CheckUserSecret, UpdateStatus,
         clusterVars
    <2> QED
      BY <1>0, <1>4, <2>1, <2>2, <2>3, <2>4, <2>5 DEF Worker
  <1>5. CASE Environment
    <2>1. ~CreateWordPress /\ ~EditSpec /\ ~Annotate /\ ~DeleteWordPress
      BY <1>0, <1>1 DEF CreateWordPress, EditSpec, Annotate, DeleteWordPress, PutWordPress
    <2>2. ~ToggleUserSecret /\ ~Autoscale
      BY <1>0, <1>1 DEF ToggleUserSecret, Autoscale
    <2>3. ProvisionVolume \/ InitialiseVolume \/ ReleaseVolume => k = "MySQLPVC"
      BY <1>0, <1>1 DEF ProvisionVolume, InitialiseVolume, ReleaseVolume
    <2>4. \A j \in ChildKinds : Drift(j) \/ CollectGarbage(j) => j = k
      BY <1>0, <1>1 DEF Drift, CollectGarbage
    <2>5. \A j \in ChildKinds : ~CreateForeign(j)
      BY <1>0, <1>1 DEF CreateForeign
    <2>6. \A j \in Workloads : ~BecomeReady(j) /\ ~RollOut(j) /\ ~BecomeUnready(j)
      BY <1>0, <1>1 DEF BecomeReady, RollOut, BecomeUnready
    <2> QED
      BY <1>0, <1>5, <2>1, <2>2, <2>3, <2>4, <2>5, <2>6 DEF Environment
  <1> QED
    BY <1>2, <1>3, <1>4, <1>5 DEF Next, TimerFires, vars, clusterVars

\* A visit never writes a Secret that is there (reconcileDatabase makes it when
\* it is not found), so the Secret changes by being made, for the stored resource.
LEMMA SecretStep ==
  ASSUME TypeOK, FinalizerInv, [Next]_vars, Live("Secret")' # Live("Secret"),
         ~Drift("Secret"), ~CollectGarbage("Secret")
  PROVE  /\ Live("Secret") = Absent /\ Live("MySQLPVC")' = Live("MySQLPVC")
         /\ Live("Secret")' # Absent =>
              Resource # Absent /\ Live("Secret")'.owner = Resource.uid
  <1> DEFINE k == "Secret"
  <1>0. /\ k \in Kinds /\ k \in ChildKinds /\ k \notin Optional /\ k \in CreateOnly
        /\ k # "MySQLPVC" /\ "MySQLPVC" \in Kinds /\ k # "WordPress" /\ k # "UserSecret"
    BY DEF Kinds, ChildKinds, DatabaseKinds, Optional, CreateOnly
  <1>1. ApplyChild(k)
    BY CredentialWriters
  <1>2. PICK r \in IF Call(k) = "none" THEN {"ok"} ELSE Outcomes(Result(k)) :
          IF Effective(r, Result(k))
          THEN \E p \in Generated : Put(k, Written(k, p))
          ELSE UNCHANGED obj
    BY <1>1 DEF ApplyChild
  <1>3. PICK p \in Generated : Effective(r, Result(k)) /\ Put(k, Written(k, p))
    BY <1>2 DEF Live
  <1>4. Live(k)' = Written(k, p) /\ Only(k)
    BY <1>0, <1>3, PutLive
  <1>5. Call(k) \in {"create", "none"}
    BY <1>0 DEF Call, Wants
  <1>6. Call(k) # "none"
    BY <1>4 DEF Written
  <1>7. Live(k) = Absent
    BY <1>2, <1>3, <1>5, <1>6 DEF Effective, Outcomes, Result, CreateResult
  <1>8. Live("MySQLPVC")' = Live("MySQLPVC")
    BY <1>0, <1>4 DEF Only
  <1>9. ASSUME Live(k)' # Absent
        PROVE  Resource # Absent /\ Live(k)'.owner = Resource.uid
    <2>1. ~Only("WordPress") /\ ~Only("UserSecret") /\ ~Only("MySQLPVC") /\ ~Untouched
      BY <1>0 DEF Only, Untouched
    <2>2. \A j \in ChildKinds : ChildStep(j) => j = k
      BY <1>0 DEF ChildStep, Only
    <2>3. ChildStep(k)
      BY <2>1, <2>2, NextStoredStep DEF StoredStep, VolumeStep
    <2> QED
      BY <1>0, <1>7, <1>9, <2>3 DEF ChildStep, Held
  <1> QED
    BY <1>7, <1>8, <1>9

\* A directory is initialised once, with the password of the stored Secret.
LEMMA ClaimStep ==
  ASSUME TypeOK, [Next]_vars, ~HandleDeletion, Live("MySQLPVC")' # Live("MySQLPVC"),
         Live("MySQLPVC")' # Absent, Live("MySQLPVC")'.data # 0
  PROVE  /\ Live("Secret") # Absent /\ Live("Secret")' = Live("Secret")
         /\ Live("MySQLPVC")'.data = Live("Secret").password
  <1>0. "MySQLPVC" \in Kinds /\ "Secret" \in Kinds /\ "Secret" # "MySQLPVC"
    BY DEF Kinds, ChildKinds, DatabaseKinds
  <1>1. \A v : Put("MySQLPVC", v) => Live("MySQLPVC")' = v /\ Live("Secret")' = Live("Secret")
    BY <1>0, PutLive DEF Only
  <1>2. ~ReleaseVolume
    BY <1>1 DEF ReleaseVolume
  <1>3. ~ProvisionVolume
    <2>1. EmptyVolume.data = 0
      BY DEF EmptyVolume
    <2> QED
      BY <1>1, <2>1 DEF ProvisionVolume
  <1>4. InitialiseVolume
    BY <1>2, <1>3, CredentialWriters
  <1>5. Live("MySQLPVC") \in Volumes
    BY <1>4, ResourceVersions DEF TypeOK, InitialiseVolume
  <1>6. Live("MySQLPVC")' = [Live("MySQLPVC") EXCEPT !.data = Live("Secret").password]
    BY <1>1, <1>4 DEF InitialiseVolume
  <1> QED
    BY <1>1, <1>4, <1>5, <1>6 DEF InitialiseVolume, Volumes

\* The invariant holds at first and every step keeps it.
LEMMA KeptInductive ==
  /\ Init => KeptInv
  /\ TypeOK /\ FinalizerInv /\ KeptInv /\ [Next]_vars => KeptInv'
<1>1. Init => KeptInv
  <2> SUFFICES ASSUME Init PROVE KeptInv
    OBVIOUS
  <2>1. \A k \in {"WordPress", "Secret", "MySQLPVC"} : k \in Kinds /\ k \notin Preexisting
    BY ClusterAssumption DEF Kinds, Optional, ChildKinds, DatabaseKinds, SiteKinds
  <2>2. /\ obj["WordPress"] = <<Absent>> /\ obj["Secret"] = <<Absent>>
        /\ obj["MySQLPVC"] = <<Absent>>
    BY <2>1 DEF Init, ClusterInit
  <2>3. Live("Secret") = Absent /\ Live("MySQLPVC") = Absent
    BY <2>2 DEF Live
  <2>4. Seen = {Absent}
    BY <2>2 DEF Seen
  <2>5. pc # "finalize"
    BY DEF Init
  <2> QED
    BY <2>3, <2>4, <2>5, Zenon DEF KeptInv
<1>2. ASSUME TypeOK, FinalizerInv, KeptInv, [Next]_vars
      PROVE  KeptInv'
  <2> SUFFICES ASSUME NothingLost'
               PROVE  /\ pc' # "finalize"
                      /\ \A v \in Seen' \ {Absent} : ~v.deleting
                      /\ Live("Secret")' # Absent =>
                           Resource' # Absent /\ Live("Secret")'.owner = Resource'.uid
                      /\ (Live("MySQLPVC")' # Absent /\ Live("MySQLPVC")'.data # 0) =>
                           /\ Live("Secret")' # Absent
                           /\ Live("Secret")'.password = Live("MySQLPVC")'.data
    BY DEF KeptInv
  <2>1. NothingLost
    BY <1>2, CountsGrow DEF NothingLost, Disturbances
  <2>2. /\ ~HandleDeletion /\ pc' # "finalize"
        /\ Resource # Absent => Resource' # Absent /\ Resource'.uid = Resource.uid
        /\ \A v \in Seen' \ {Absent} : ~v.deleting
    BY <1>2, <2>1, ResourceStays
  <2>3. /\ Live("Secret") # Absent =>
             Resource # Absent /\ Live("Secret").owner = Resource.uid
        /\ (Live("MySQLPVC") # Absent /\ Live("MySQLPVC").data # 0) =>
             Live("Secret") # Absent /\ Live("Secret").password = Live("MySQLPVC").data
    BY <1>2, <2>1 DEF KeptInv
  <2>4. ~Drift("Secret")
    BY <1>2, SpendCounts DEF Drift, NothingLost, Disturbances
  <2>5. ~CollectGarbage("Secret")
    BY <2>3 DEF CollectGarbage, Orphaned
  <2>6. Live("Secret")' # Absent =>
          Resource' # Absent /\ Live("Secret")'.owner = Resource'.uid
    BY <1>2, <2>2, <2>3, <2>4, <2>5, SecretStep
  <2>7. ASSUME Live("MySQLPVC")' # Absent, Live("MySQLPVC")'.data # 0
        PROVE  /\ Live("Secret")' # Absent
               /\ Live("Secret")'.password = Live("MySQLPVC")'.data
    <3>1. CASE Live("MySQLPVC")' # Live("MySQLPVC")
      BY <1>2, <2>2, <2>7, <3>1, ClaimStep
    <3>2. CASE Live("MySQLPVC")' = Live("MySQLPVC")
      BY <1>2, <2>3, <2>4, <2>5, <2>7, <3>2, SecretStep
    <3> QED
      BY <3>1, <3>2
  <2> QED
    BY <2>2, <2>6, <2>7
<1> QED
  BY <1>1, <1>2

\* Whatever is edited, scaled or restarted, whichever calls fail and however
\* far the caches lag: the operator does not lock a resource that stays out of
\* its own data, as it generates the password once and deletes neither the
\* Secret nor the claim before the resource is deleted (buildMySQLSecret,
\* reconcileDatabase, handleDeletion).
THEOREM DataAlwaysOpens == Spec => [](NothingLost => DataOpens)
<1> DEFINE IInv == FinalizerInv /\ KeptInv
<1>1. Init => IInv
  BY FinalizerInductive, KeptInductive
<1>2. TypeOK /\ IInv /\ [Next]_vars => IInv'
  BY FinalizerInductive, KeptInductive
<1>3. IInv => (NothingLost => DataOpens)
  BY DEF KeptInv, DataOpens
<1> QED
  BY <1>1, <1>2, <1>3, TypeCorrect, PTL DEF Spec

-----------------------------------------------------------------------------
(* Readiness and the database *)

\* Every site that users submit has its database beside it.
AllInternal == \A s \in Submitted : s.mode # "External"

Honest(status) == status.ready = "True" => status.database = "True"

\* What is stored, or about to be, is honest.  What a pass has at hand need not
\* be once it has visited the StatefulSet; no visit that is left then ends in a
\* status write of its own.
HonestInv ==
  AllInternal =>
    /\ \A v \in Seen \ {Absent} : v.spec.mode # "External" /\ Honest(v.status)
    /\ pc # "secret"
    /\ pc = "persist" => Honest(wp.status)
    /\ pc = "children" =>
         /\ InCodeOrder(todo)
         /\ (todo # <<>> /\ Head(todo) \in DatabaseKinds) => Honest(wp.status)

\* The database is visited before the site.
LEMMA PlanInOrder == InCodeOrder(DatabasePlan \o SitePlan)
  <1> DEFINE d == DatabasePlan
             s == SitePlan
  <1>1. /\ d \in Seq(DatabaseKinds) /\ s \in Seq(SiteKinds)
        /\ InCodeOrder(d) /\ InCodeOrder(s)
    BY PlanAssumption
  <1>2. /\ Len(d) \in Nat /\ Len(s) \in Nat /\ DOMAIN d = 1..Len(d) /\ DOMAIN s = 1..Len(s)
        /\ DOMAIN (d \o s) = 1..(Len(d) + Len(s))
        /\ \A i \in 1..(Len(d) + Len(s)) :
             (d \o s)[i] = IF i <= Len(d) THEN d[i] ELSE s[i - Len(d)]
    BY <1>1
  <1>3. /\ \A k \in DatabaseKinds : Rank[k] <= 3 /\ Rank[k] \in Nat
        /\ \A k \in SiteKinds : 3 < Rank[k] /\ Rank[k] \in Nat
    BY DEF Rank, DatabaseKinds, SiteKinds
  <1> SUFFICES ASSUME NEW i \in 1..(Len(d) + Len(s)), NEW j \in 1..(Len(d) + Len(s)), i < j
               PROVE  Rank[(d \o s)[i]] < Rank[(d \o s)[j]]
    BY <1>2 DEF InCodeOrder
  <1>4. CASE j <= Len(d)
    <2>1. i \in DOMAIN d /\ j \in DOMAIN d /\ (d \o s)[i] = d[i] /\ (d \o s)[j] = d[j]
      BY <1>2, <1>4
    <2> QED
      BY <1>1, <2>1 DEF InCodeOrder
  <1>5. CASE i <= Len(d) /\ ~(j <= Len(d))
    <2>1. /\ i \in 1..Len(d) /\ j - Len(d) \in 1..Len(s)
          /\ (d \o s)[i] = d[i] /\ (d \o s)[j] = s[j - Len(d)]
      BY <1>2, <1>5
    <2>2. d[i] \in DatabaseKinds /\ s[j - Len(d)] \in SiteKinds
      BY <1>1, <2>1
    <2> QED
      BY <1>3, <2>1, <2>2
  <1>6. CASE ~(i <= Len(d))
    <2>1. /\ i - Len(d) \in DOMAIN s /\ j - Len(d) \in DOMAIN s /\ i - Len(d) < j - Len(d)
          /\ (d \o s)[i] = s[i - Len(d)] /\ (d \o s)[j] = s[j - Len(d)]
      BY <1>2, <1>6
    <2> QED
      BY <1>1, <2>1 DEF InCodeOrder
  <1> QED
    BY <1>2, <1>4, <1>5, <1>6

\* What is left of a plan in order is in order, and the StatefulSet is the last
\* child of the database.
LEMMA RestInOrder ==
  ASSUME NEW t \in Seq(ChildKinds), t # <<>>, InCodeOrder(t)
  PROVE  /\ InCodeOrder(Tail(t))
         /\ (Tail(t) # <<>> /\ Head(Tail(t)) \in DatabaseKinds) =>
              Head(t) \in DatabaseKinds \ {"StatefulSet"}
  <1>1. /\ Len(t) \in Nat /\ Len(t) > 0 /\ DOMAIN t = 1..Len(t)
        /\ Tail(t) \in Seq(ChildKinds) /\ Len(Tail(t)) = Len(t) - 1
        /\ DOMAIN Tail(t) = 1..(Len(t) - 1) /\ Head(t) = t[1]
        /\ \A i \in 1..(Len(t) - 1) : Tail(t)[i] = t[i + 1]
    BY DEF ChildKinds
  <1>2. ASSUME NEW i \in 1..(Len(t) - 1), NEW j \in 1..(Len(t) - 1), i < j
        PROVE  Rank[Tail(t)[i]] < Rank[Tail(t)[j]]
    <2>1. /\ i + 1 \in DOMAIN t /\ j + 1 \in DOMAIN t /\ i + 1 < j + 1
          /\ Tail(t)[i] = t[i + 1] /\ Tail(t)[j] = t[j + 1]
      BY <1>1, <1>2
    <2> QED
      BY <2>1 DEF InCodeOrder
  <1>3. ASSUME Tail(t) # <<>>, Head(Tail(t)) \in DatabaseKinds
        PROVE  Head(t) \in DatabaseKinds \ {"StatefulSet"}
    <2>1. 1 \in 1..(Len(t) - 1) /\ Head(Tail(t)) = t[2] /\ 2 \in DOMAIN t /\ 1 \in DOMAIN t
      BY <1>1, <1>3
    <2>2. Rank[Head(t)] < Rank[Head(Tail(t))] /\ Head(t) \in ChildKinds
      BY <1>1, <2>1 DEF InCodeOrder
    <2> QED
      BY <1>3, <2>2 DEF Rank, ChildKinds, DatabaseKinds, SiteKinds
  <1> QED
    BY <1>1, <1>2, <1>3 DEF InCodeOrder

\* Neither the defaults nor the write-back move a site to an external database.
LEMMA ModeKept ==
  ASSUME NEW s \in Specs, s.mode # "External"
  PROVE  applyDefaults(s).mode # "External" /\ WriteBack(s).mode # "External"
  BY DEF Specs, applyDefaults, WriteBack

\* What is stored stays honest: a status is written by a pass that ends.
LEMMA HonestStored ==
  ASSUME TypeOK, FinalizerInv, [Next]_vars, AllInternal, HonestInv,
         NEW v \in Seen', v # Absent
  PROVE  v.spec.mode # "External" /\ Honest(v.status)
  <1>1. /\ \A w \in Seen \ {Absent} : w.spec.mode # "External" /\ Honest(w.status)
        /\ pc = "persist" => Honest(wp.status)
    BY DEF HonestInv
  <1>2. v \in Seen \/ v = Resource'
    BY NextResourceStep DEF ResourceStep, Same, Writes
  <1>3. ResourceHistory /\ Resource \in Seen
    BY NextHistory, SeenEnds
  <1>4. CASE v \in Seen
    BY <1>1, <1>4
  <1>5. CASE v = Resource' /\ Created
    <2>1. NoStatus.ready = ""
      BY DEF NoStatus
    <2> QED
      BY <1>5, <2>1 DEF Created, AllInternal, Honest
  <1>6. CASE v = Resource' /\ Revised
    <2>1. Resource # Absent /\ Resource.spec \in Specs
      BY <1>6, ResourceVersions DEF Revised, TypeOK, Resources
    <2>2. WriteBack(Resource.spec).mode # "External"
      BY <1>1, <1>3, <2>1, ModeKept
    <2>3. v.spec.mode # "External"
      BY <1>1, <1>3, <1>6, <2>1, <2>2 DEF Revised, AllInternal
    <2>4. Resource' = Resource \/ Resource'.status = Resource.status \/ StatusWritten
      BY <1>3, <1>6 DEF ResourceHistory, Created, Revised
    <2>5. Honest(v.status)
      BY <1>1, <1>3, <1>6, <2>1, <2>4 DEF StatusWritten, PersistStatus
    <2> QED
      BY <2>3, <2>5
  <1> QED
    BY <1>1, <1>2, <1>3, <1>4, <1>5, <1>6 DEF ResourceHistory

\* A visit goes on to the next child, or ends the pass; only that of a child of
\* the database has the status at hand persisted first.
LEMMA VisitEnds ==
  ASSUME NEW k \in ChildKinds, ApplyChild(k)
  PROVE  /\ pc = "children" /\ todo # <<>> /\ k = Head(todo)
         /\ \/ pc' = "idle"
            \/ pc' = "persist" /\ k \in DatabaseKinds /\ wp' = wp
            \/ /\ pc' = "children" /\ todo' = Tail(todo)
               /\ wp' = [wp EXCEPT !.status = Observed(k, wp.status)]
  BY DEF ApplyChild, Abort, Persist, Return

\* So does what is about to be.
LEMMA HonestPass ==
  ASSUME TypeOK, [Next]_vars, AllInternal, HonestInv, Passing'
  PROVE  /\ pc' # "secret"
         /\ pc' = "persist" => Honest(wp'.status)
         /\ pc' = "children" =>
              /\ InCodeOrder(todo')
              /\ (todo' # <<>> /\ Head(todo') \in DatabaseKinds) => Honest(wp'.status)
  <1> DEFINE Goal == /\ pc' # "secret"
                     /\ pc' = "persist" => Honest(wp'.status)
                     /\ pc' = "children" =>
                          /\ InCodeOrder(todo')
                          /\ (todo' # <<>> /\ Head(todo') \in DatabaseKinds)
                               => Honest(wp'.status)
  <1> SUFFICES Goal
    OBVIOUS
  <1>0. /\ \A w \in Seen \ {Absent} : w.spec.mode # "External" /\ Honest(w.status)
        /\ pc # "secret"
        /\ pc = "persist" => Honest(wp.status)
        /\ pc = "children" =>
             /\ InCodeOrder(todo)
             /\ (todo # <<>> /\ Head(todo) \in DatabaseKinds) => Honest(wp.status)
    BY DEF HonestInv
  <1>1. CASE RejectSpec \/ AcceptSpec
    <2> DEFINE cr == Cached("WordPress")
    <2>1. cr \in Seen /\ cr # Absent /\ cr \in Resources
      <3>1. cr # Absent
        BY <1>1 DEF RejectSpec, AcceptSpec, BeginPass, Finished
      <3> QED
        BY <3>1, SeenEnds
    <2>2. cr.spec \in Specs /\ applyDefaults(cr.spec) \in Specs
      BY <2>1, SpecOperators DEF Resources
    <2>3. /\ Defaulted \in Resources /\ Defaulted.status = cr.status
          /\ Defaulted.spec = applyDefaults(cr.spec)
      BY <2>1, <2>2 DEF Defaulted, Resources
    <2>4. Defaulted.spec.mode # "External" /\ Honest(Defaulted.status)
      BY <1>0, <2>1, <2>2, <2>3, ModeKept
    <2>5. CASE RejectSpec
      <3>1. pc' = "persist" /\ wp'.status.ready = "False"
        BY <2>3, <2>5, RejectionTold DEF Failed
      <3> QED
        BY <3>1 DEF Honest
    <2>6. CASE AcceptSpec
      <3>1. pc' = "children" /\ todo' = DatabasePlan \o SitePlan /\ wp' = Defaulted
        BY <2>4, <2>6 DEF AcceptSpec
      <3> QED
        BY <2>4, <3>1, PlanInOrder
    <2> QED
      BY <1>1, <2>5, <2>6
  <1>2. CASE UpdateStatus
    <2>1. pc' = "persist"
      BY <1>2 DEF UpdateStatus, Persist
    <2>2. wp'.status.ready = "True" => wp'.status.database = "True"
      BY <1>2, UpdatedFields
    <2> QED
      BY <2>1, <2>2 DEF Honest
  <1>3. ASSUME NEW k \in ChildKinds, ApplyChild(k)
        PROVE  Goal
    <2>1. /\ pc = "children" /\ todo # <<>> /\ k = Head(todo)
          /\ todo \in Seq(ChildKinds) /\ wp \in Resources /\ wp.status \in Statuses
      BY <1>3, VisitEnds DEF TypeOK, Resources
    <2>2. CASE pc' = "persist" /\ k \in DatabaseKinds /\ wp' = wp
      BY <1>0, <2>1, <2>2
    <2>3. CASE /\ pc' = "children" /\ todo' = Tail(todo)
               /\ wp' = [wp EXCEPT !.status = Observed(k, wp.status)]
      <3>1. InCodeOrder(todo')
        BY <1>0, <2>1, <2>3, RestInOrder
      <3>2. ASSUME todo' # <<>>, Head(todo') \in DatabaseKinds
            PROVE  Honest(wp'.status)
        <4>1. k \in DatabaseKinds /\ k # "StatefulSet"
          BY <1>0, <2>1, <2>3, <3>2, RestInOrder
        <4>2. Honest(wp.status)
          BY <1>0, <2>1, <4>1
        <4>3. wp'.status = Observed(k, wp.status)
          BY <2>1, <2>3 DEF Resources
        <4>4. /\ Observed(k, wp.status).ready = wp.status.ready
              /\ Observed(k, wp.status).database = wp.status.database
          BY <2>1, <4>1, ObservedFields
        <4> QED
          BY <4>2, <4>3, <4>4, Zenon DEF Honest
      <3> QED
        BY <2>3, <3>1, <3>2
    <2>4. pc' # "idle"
      BY DEF Passing
    <2> QED
      BY <1>3, <2>2, <2>3, <2>4, VisitEnds
  <1>4. CASE UNCHANGED workerVars
    BY <1>0, <1>4 DEF workerVars
  <1>5. ~CheckUserSecret
    BY <1>0 DEF CheckUserSecret
  <1> QED
    BY <1>1, <1>2, <1>3, <1>4, <1>5, NextPassing

\* The invariant holds at first and every step keeps it.
LEMMA HonestInductive ==
  /\ Init => HonestInv
  /\ TypeOK /\ FinalizerInv /\ HonestInv /\ [Next]_vars => HonestInv'
<1>1. ASSUME Init PROVE HonestInv
  <2>1. obj["WordPress"] = <<Absent>>
    BY <1>1, NothingAtFirst
  <2>2. Seen = {Absent}
    BY <2>1 DEF Seen
  <2>3. pc = "idle"
    BY <1>1 DEF Init
  <2> QED
    BY <2>2, <2>3 DEF HonestInv
<1>2. ASSUME TypeOK, FinalizerInv, HonestInv, [Next]_vars, AllInternal
      PROVE  HonestInv'
  <2>1. \A v \in Seen' \ {Absent} : v.spec.mode # "External" /\ Honest(v.status)
    BY <1>2, HonestStored
  <2>2. CASE Passing'
    BY <1>2, <2>1, <2>2, HonestPass DEF HonestInv
  <2>3. CASE ~Passing'
    BY <2>1, <2>3 DEF HonestInv, Passing
  <2> QED
    BY <2>2, <2>3
<1>3. ASSUME ~AllInternal PROVE HonestInv'
  BY <1>3 DEF HonestInv, AllInternal
<1> QED
  BY <1>1, <1>2, <1>3

\* A site whose database is its own never reports Ready without it, although a
\* failed visit has the status persisted in the middle of a pass: the visits
\* that do so come before the condition is set (reconcileDatabase, Reconcile).
\* An external database whose Secret goes is the exception.
THEOREM InternalReadyImpliesDatabase == AllInternal => (Spec => []ReadyImpliesDatabase)
<1> DEFINE IInv == AllInternal /\ FinalizerInv /\ HonestInv
<1>1. AllInternal /\ Init => IInv
  BY FinalizerInductive, HonestInductive
<1>2. TypeOK /\ IInv /\ [Next]_vars => IInv'
  <2>1. AllInternal => AllInternal'
    BY DEF AllInternal
  <2> QED
    BY <2>1, FinalizerInductive, HonestInductive
<1>3. TypeOK /\ IInv => ReadyImpliesDatabase
  BY SeenEnds DEF HonestInv, ReadyImpliesDatabase, Running, Honest
<1> QED
  BY <1>1, <1>2, <1>3, TypeCorrect, PTL DEF Spec
=============================================================================
