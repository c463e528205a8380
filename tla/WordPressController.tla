------------------------ MODULE WordPressController ------------------------
(***************************************************************************)
(* The controller: the work queue with its one key, the event handlers     *)
(* that fill it, and the single worker running Reconcile.                  *)
(*                                                                         *)
(* Reads come from the cache and calls go to the API server, so a pass is  *)
(* one step per API call that can change something; a cached read belongs  *)
(* to the step of the call it decides.                                     *)
(***************************************************************************)
EXTENDS Cluster

CONSTANTS
  DatabasePlan,  \* children made by reconcileDatabase, in the code's order
  SitePlan       \* children made after it, in the code's order

ASSUME PlanAssumption ==
  /\ DatabasePlan \in Seq(DatabaseKinds)
  /\ SitePlan \in Seq(SiteKinds)
  /\ InCodeOrder(DatabasePlan) /\ InCodeOrder(SitePlan)

VARIABLES
  queued,   \* the key is in the work queue
  timer,    \* a delayed or rate-limited addition of the key is pending
  pc,       \* where the worker is
  wp,       \* the object Reconcile works on, with its in-memory status
  todo,     \* the children still to visit
  after     \* why the status is being persisted

workerVars == <<pc, wp, todo, after>>
vars == <<clusterVars, queued, timer, workerVars>>

PCs     == {"idle", "secret", "children", "persist", "finalize"}
Reasons == {"", "invalid", "noSecret", "dbError", "dbConflict", "done"}

TypeOK ==
  /\ ClusterTypeOK
  /\ queued \in BOOLEAN
  /\ timer \in BOOLEAN
  /\ pc \in PCs
  /\ wp \in Resources \cup {Absent}
  /\ pc = "idle" <=> wp = Absent
  /\ todo \in Seq(ChildKinds)
  /\ after \in Reasons

-----------------------------------------------------------------------------
(* The informers *)

\* Variant: deletions of children go unnoticed.
EnqueuesNoDeletions(k, old, new) ==
  IF k = "WordPress"
  THEN old = Absent \/ new = Absent \/ old.gen # new.gen
  ELSE k \in ChildKinds /\ new # Absent /\ new.owner # 0

\* For(WordPress) with GenerationChangedPredicate, which filters updates only,
\* and Owns(child), which looks the key up in the owner reference.
Enqueues(k, old, new) ==
  IF k = "WordPress"
  THEN old = Absent \/ new = Absent \/ old.gen # new.gen
  ELSE k \in ChildKinds /\ \E v \in {old, new} \ {Absent} : v.owner # 0

Deliver(k) ==
  /\ ~InSync(k)
  /\ obj' = [obj EXCEPT ![k] = Tail(@)]
  /\ queued' = (queued \/ Enqueues(k, Cached(k), obj[k][2]))
  /\ UNCHANGED <<fresh, used, timer, workerVars>>

TimerFires ==
  /\ timer
  /\ timer' = FALSE
  /\ queued' = TRUE
  /\ UNCHANGED <<clusterVars, workerVars>>

\* The process dies and starts again: memory is lost, the caches are listed
\* anew, and each object in them is announced as a creation.
Restart ==
  /\ Spend("restart")
  /\ obj' = [k \in Kinds |-> <<Live(k)>>]
  /\ queued' = \E k \in Kinds : Live(k) # Absent /\ Enqueues(k, Absent, Live(k))
  /\ timer' = FALSE
  /\ fresh' = FALSE
  /\ pc' = "idle" /\ wp' = Absent /\ todo' = <<>> /\ after' = ""

-----------------------------------------------------------------------------
(* Calls *)

\* A call can also fail on the way: before it takes effect or after.
Outcomes(result) ==
  {result} \cup IF used["fault"] < Budget["fault"] THEN {"fault", "lost"} ELSE {}

Charge(r) == IF r \in {"fault", "lost"} THEN Spend("fault") ELSE UNCHANGED used

\* Whether a call with outcome r, whose answer would be result, takes effect.
Effective(r, result) == r = "ok" \/ (r = "lost" /\ result = "ok")

\* Variant: transient errors are dropped as well.
ignoreTransient(r) == r \notin {"ok", "conflict", "fault"}

\* Errors are returned to the work queue, which retries them with back-off;
\* ignoreConflict turns a conflict into success.
ignoreConflict(r) == r \notin {"ok", "conflict"}

\* Variant: the worker goes idle and holds on to the object.
ReturnHolding(requeue) ==
  /\ timer' = (timer \/ requeue)
  /\ pc' = "idle" /\ UNCHANGED wp /\ todo' = <<>> /\ after' = ""

Return(requeue) ==
  /\ timer' = (timer \/ requeue)
  /\ pc' = "idle" /\ wp' = Absent /\ todo' = <<>> /\ after' = ""

Persist(reason) ==
  /\ pc' = "persist"
  /\ after' = reason
  /\ todo' = <<>>

-----------------------------------------------------------------------------
(* Reconcile: reading the object and deciding what to do *)

Begin ==
  /\ pc = "idle"
  /\ queued
  /\ queued' = FALSE

\* Nothing is left to do for a resource that is gone, or that waits for
\* somebody else's finalizer.
Finished(cr) == cr # Absent => (cr.deleting /\ ~cr.finalizer)

ReconcileFinished ==
  /\ Begin
  /\ Finished(Cached("WordPress"))
  /\ UNCHANGED <<clusterVars, timer, workerVars>>

\* Variant: the retain annotation is not looked at.
DeletesAnyVolume(cr) == cr.spec.mode = "Internal" /\ Cached("MySQLPVC") # Absent

\* The MySQL claim goes when the stored mode is Internal and the data need not
\* be retained.
DeletesVolume(cr) ==
  cr.spec.mode = "Internal" /\ ~cr.retain /\ Cached("MySQLPVC") # Absent

\* handleDeletion up to its last call. The claim is deleted by name.
HandleDeletion ==
  LET cr == Cached("WordPress") IN
  /\ Begin
  /\ ~Finished(cr)
  /\ cr.deleting
  /\ IF DeletesVolume(cr)
     THEN \E r \in Outcomes(DeleteResult("MySQLPVC")) :
            /\ Charge(r)
            /\ IF Effective(r, DeleteResult("MySQLPVC"))
               THEN Put("MySQLPVC", [Live("MySQLPVC") EXCEPT !.terminating = TRUE])
               ELSE UNCHANGED obj
            /\ IF r \in {"ok", "missing"}
               THEN pc' = "finalize" /\ wp' = cr /\ UNCHANGED <<todo, after, timer>>
               ELSE Return(TRUE)
     ELSE /\ pc' = "finalize" /\ wp' = cr
          /\ UNCHANGED <<obj, used, todo, after, timer>>
  /\ fresh' = InSync("WordPress")

\* The last call of handleDeletion, with the resourceVersion read at its start.
RemoveFinalizer ==
  LET result == IF Live("WordPress") = Absent THEN "missing"
                ELSE IF fresh THEN "ok" ELSE "conflict"
  IN
  /\ pc = "finalize"
  /\ \E r \in Outcomes(result) :
       /\ Charge(r)
       /\ IF Effective(r, result)
          THEN PutWordPress(Absent)
          ELSE UNCHANGED <<obj, fresh>>
       /\ Return(ignoreConflict(r))
  /\ UNCHANGED queued

\* The finalizer is added to the object as read and the pass ends; the update
\* sends the whole decoded object back.
AddFinalizer ==
  LET cr      == Cached("WordPress")
      result  == UpdateResult("WordPress")
      written == [cr EXCEPT !.finalizer = TRUE, !.spec = WriteBack(@),
                            !.gen = IF WriteBack(cr.spec) = cr.spec THEN @ ELSE @ + 1]
  IN
  /\ Begin
  /\ ~Finished(cr)
  /\ ~cr.deleting
  /\ ~cr.finalizer
  /\ \E r \in Outcomes(result) :
       /\ Charge(r)
       /\ IF Effective(r, result)
          THEN PutWordPress(written)
          ELSE UNCHANGED <<obj, fresh>>
       /\ Return(r # "ok")

\* The object as the rest of the pass sees it: the cached version with its
\* defaults applied in memory.
Defaulted == [Cached("WordPress") EXCEPT !.spec = applyDefaults(@)]

\* Variants: a pass does not wait for the finalizer, or does not mind a deletion.
BeginPassUnheld ==
  /\ Begin
  /\ ~Finished(Cached("WordPress"))
  /\ ~Cached("WordPress").deleting

BeginPassDeleting ==
  /\ Begin
  /\ ~Finished(Cached("WordPress"))
  /\ Cached("WordPress").finalizer

BeginPass ==
  /\ Begin
  /\ ~Finished(Cached("WordPress"))
  /\ ~Cached("WordPress").deleting
  /\ Cached("WordPress").finalizer

\* Variant: the Ready condition keeps its value.
RejectPhaseOnly ==
  /\ BeginPass
  /\ ~validateSpec(Defaulted.spec)
  /\ wp' = [Defaulted EXCEPT !.status.phase = "Failed"]
  /\ Persist("invalid")
  /\ UNCHANGED <<clusterVars, timer>>

\* An invalid spec marks the resource Failed (markFailed).
RejectSpec ==
  /\ BeginPass
  /\ ~validateSpec(Defaulted.spec)
  /\ wp' = [Defaulted EXCEPT !.status.phase = "Failed", !.status.ready = "False"]
  /\ Persist("invalid")
  /\ UNCHANGED <<clusterVars, timer>>

AcceptSpec ==
  /\ BeginPass
  /\ validateSpec(Defaulted.spec)
  /\ wp' = Defaulted
  /\ IF Defaulted.spec.mode = "External"
     THEN pc' = "secret" /\ UNCHANGED todo
     ELSE pc' = "children" /\ todo' = DatabasePlan \o SitePlan
  /\ UNCHANGED <<clusterVars, timer, after>>

-----------------------------------------------------------------------------
(* Reconcile: the children *)

\* reconcileDatabase in External mode only looks for the user's Secret.
CheckUserSecret ==
  LET found == Cached("UserSecret") # Absent IN
  /\ pc = "secret"
  /\ wp' = [wp EXCEPT !.status.database = IF found THEN "True" ELSE "False"]
  /\ IF found
     THEN pc' = "children" /\ todo' = SitePlan /\ UNCHANGED after
     ELSE Persist("noSecret")
  /\ UNCHANGED <<clusterVars, queued, timer>>

\* Variants: the owner reference is not looked at, or never found.
IsThere(k)        == Cached(k) # Absent
IsNeverOurs(k)    == FALSE

IsControlledBy(k) == Cached(k) # Absent /\ Cached(k).owner = wp.uid

\* Passwords the controller or the data directory may still remember.
Known ==
  {c.password : c \in Stream("Secret") \ {Absent}} \cup
  {c.data : c \in Stream("MySQLPVC") \ {Absent}}

\* generatePassword: one that nobody has seen. As names do not matter it is the
\* least of them.
Generated ==
  {p \in Passwords \ Known : \A q \in Passwords \ Known : p <= q}

\* What the built object of kind k holds when p was generated.
Password(k, p) == IF k = "Secret" THEN p ELSE 0

\* Variant: an existing Secret is updated like any other child.
CallForAnySecret(k) ==
  LET c == Cached(k) IN
  IF ~Wants(k, wp.spec)
  THEN IF k \in Optional /\ IsControlledBy(k) THEN "delete" ELSE "none"
  ELSE IF c = Absent
  THEN "create"
  ELSE IF k = "ContentPVC" \/ (c.content = Render(k, wp.spec) /\ k \notin ServerDefaulted)
  THEN "none"
  ELSE "update"

\* The call the code makes for a child, from its cached copy.
Call(k) ==
  LET c == Cached(k) IN
  IF ~Wants(k, wp.spec)
  THEN IF k \in Optional /\ IsControlledBy(k) THEN "delete" ELSE "none"
  ELSE IF c = Absent
  THEN "create"
  ELSE IF k \in CreateOnly \/ (c.content = Render(k, wp.spec) /\ k \notin ServerDefaulted)
  THEN "none"
  ELSE "update"

Result(k) ==
  CASE Call(k) = "create" -> CreateResult(k)
    [] Call(k) = "update" -> UpdateResult(k)
    [] Call(k) = "delete" -> DeleteResult(k)
    [] OTHER -> "ok"

\* Variant: an update takes the child over.
WrittenAdopting(k, p) ==
  CASE Call(k) = "create" ->
         [owner |-> wp.uid, content |-> Render(k, wp.spec),
          claims |-> ClaimTemplates(k, wp.spec), pods |-> "unready",
          password |-> Password(k, p)]
    [] Call(k) = "update" ->
         [Changed(Live(k), Render(k, wp.spec)) EXCEPT !.owner = wp.uid]
    [] Call(k) = "delete" -> Absent
    [] OTHER -> Live(k)

\* What the stored child becomes when the call takes effect. An update is made
\* from the existing object and leaves its owner and claim templates alone.
Written(k, p) ==
  CASE Call(k) = "create" ->
         [owner |-> wp.uid, content |-> Render(k, wp.spec),
          claims |-> ClaimTemplates(k, wp.spec), pods |-> "unready",
          password |-> Password(k, p)]
    [] Call(k) = "update" ->
         [Changed(Live(k), Render(k, wp.spec)) EXCEPT !.password = Password(k, p)]
    [] Call(k) = "delete" -> Absent
    [] OTHER -> Live(k)

\* What the status of a workload says: it may be that of older pods.
ReportedReady(k) == Cached(k) # Absent /\ Cached(k).pods # "unready"

\* Variant: the Ingress condition is never removed.
ObservedSticky(k, status) ==
  CASE k = "StatefulSet" ->
         [status EXCEPT !.database = IF ReportedReady(k) THEN "True" ELSE "False"]
    [] k = "Ingress" /\ Wants(k, wp.spec) -> [status EXCEPT !.ingress = "True"]
    [] OTHER -> status

\* The conditions set on the way. The StatefulSet's readiness is that of the
\* cached copy; a deleted Ingress keeps its condition until a later pass.
Observed(k, status) ==
  CASE k = "StatefulSet" ->
         [status EXCEPT !.database = IF ReportedReady(k) THEN "True" ELSE "False"]
    [] k = "Ingress" /\ Wants(k, wp.spec) -> [status EXCEPT !.ingress = "True"]
    [] k = "Ingress" /\ ~Wants(k, wp.spec) /\ Cached(k) = Absent ->
         [status EXCEPT !.ingress = ""]
    [] OTHER -> status

\* A failed database step still persists the status before it returns; any
\* other failed step returns at once.
Abort(k, r) ==
  IF k \in DatabaseKinds
  THEN /\ Persist(IF ignoreConflict(r) THEN "dbError" ELSE "dbConflict")
       /\ UNCHANGED <<wp, timer>>
  ELSE Return(ignoreConflict(r))

ApplyChild(k) ==
  /\ pc = "children"
  /\ todo # <<>>
  /\ k = Head(todo)
  /\ \E r \in IF Call(k) = "none" THEN {"ok"} ELSE Outcomes(Result(k)) :
       /\ Charge(r)
       /\ IF Effective(r, Result(k))
          THEN \E p \in Generated : Put(k, Written(k, p))
          ELSE UNCHANGED obj
       /\ IF r = "ok"
          THEN /\ todo' = Tail(todo)
               /\ wp' = [wp EXCEPT !.status = Observed(k, @)]
               /\ UNCHANGED <<pc, after, timer>>
          ELSE Abort(k, r)
  /\ UNCHANGED <<queued, fresh>>

-----------------------------------------------------------------------------
(* Reconcile: the status *)

UpdateStatus ==
  LET deployed == ReportedReady("Deployment")
      ready    == deployed /\ wp.status.database = "True" IN
  /\ pc = "children"
  /\ todo = <<>>
  /\ wp' = [wp EXCEPT !.status.observed   = wp.gen,
                      !.status.deployment = IF deployed THEN "True" ELSE "False",
                      !.status.phase      = IF ready THEN "Ready" ELSE "Provisioning",
                      !.status.ready      = IF ready THEN "True" ELSE "False"]
  /\ Persist("done")
  /\ UNCHANGED <<clusterVars, queued, timer>>

\* Variants: a failed status write, or a missing Secret, asks for no other pass.
RequeueUnready(reason, r) ==
  \/ reason \in {"dbError", "noSecret"}
  \/ reason = "done" /\ r = "ok" /\ wp.status.phase # "Ready"

RequeueErrors(reason, r) ==
  \/ reason = "dbError"
  \/ reason = "done" /\ (ignoreConflict(r) \/ (r = "ok" /\ wp.status.phase # "Ready"))

\* Whether the pass asks for another one, given how the status write ended.
Requeue(reason, r) ==
  \/ reason \in {"dbError", "noSecret"}
  \/ reason = "done" /\ (ignoreConflict(r) \/ (r = "ok" /\ wp.status.phase # "Ready"))

\* Variant: the generation of the re-read object is reported as observed.
WithStatusOfLatest(latest) ==
  [latest EXCEPT !.status = [wp.status EXCEPT !.observed = latest.gen]]

\* latest.Status = *desired
WithStatus(latest) == [latest EXCEPT !.status = wp.status]

\* One attempt of persistStatus that settles it. An attempt that conflicts is
\* made again and changes nothing, until RetryOnConflict runs out of attempts.
PersistStatus ==
  LET result == IF Cached("WordPress") = Absent THEN "missing"
                ELSE UpdateResult("WordPress")
  IN
  /\ pc = "persist"
  /\ \E r \in Outcomes(result) :
       /\ IF r = "conflict" THEN Spend("giveup") ELSE Charge(r)
       /\ IF Effective(r, result)
          THEN PutWordPress(WithStatus(Live("WordPress")))
          ELSE UNCHANGED <<obj, fresh>>
       /\ Return(Requeue(after, r))
  /\ UNCHANGED queued

-----------------------------------------------------------------------------

Worker ==
  \/ ReconcileFinished \/ HandleDeletion \/ RemoveFinalizer
  \/ AddFinalizer \/ RejectSpec \/ AcceptSpec
  \/ CheckUserSecret \/ (\E k \in ChildKinds : ApplyChild(k))
  \/ UpdateStatus \/ PersistStatus

Init ==
  /\ ClusterInit
  /\ queued = FALSE
  /\ timer = FALSE
  /\ pc = "idle" /\ wp = Absent /\ todo = <<>> /\ after = ""

Next ==
  \/ Worker
  \/ TimerFires
  \/ Restart
  \/ \E k \in Kinds : Deliver(k)
  \/ Environment /\ UNCHANGED <<queued, timer, workerVars>>

Spec == Init /\ [][Next]_vars

(***************************************************************************)
(* The manager runs the worker, the informers and the timers as long as    *)
(* the process lives, and other controllers and kubelets do their part.    *)
(* Nothing is assumed of the user, and nothing of a flapping pod.          *)
(***************************************************************************)
Others ==
  \/ ProvisionVolume \/ InitialiseVolume \/ ReleaseVolume
  \/ \E k \in ChildKinds : CollectGarbage(k)
  \/ \E k \in Workloads : BecomeReady(k) \/ RollOut(k)

Fairness ==
  /\ WF_vars(Worker)
  /\ WF_vars(TimerFires)
  /\ \A k \in Kinds : WF_vars(Deliver(k))
  /\ WF_vars(Others /\ UNCHANGED <<queued, timer, workerVars>>)

FairSpec == Spec /\ Fairness
=============================================================================
