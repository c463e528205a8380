------------------------------ MODULE Lifecycle ------------------------------
(***************************************************************************)
(* What the operator promises a user about the life of one WordPress       *)
(* resource, its site and its data, without caches, queues or passes.      *)
(***************************************************************************)

CONSTANT Parts    \* the kinds of objects a site consists of

VARIABLES
  stage,    \* "absent", "loose" (no finalizer yet), "held", "leaving"
  promise,  \* the data are to outlive the resource
  claim,    \* of the data: "none", "kept", "going"
  site      \* the parts that belong to the resource, a subset of Parts

vars == <<stage, promise, claim, site>>

Init == stage = "absent" /\ promise = FALSE /\ claim = "none" /\ site = {}

Submit ==
  /\ stage = "absent" /\ stage' = "loose"
  /\ UNCHANGED <<promise, claim, site>>

Hold ==
  /\ stage = "loose" /\ stage' = "held"
  /\ UNCHANGED <<promise, claim, site>>

\* A resource that was never held has nothing to leave behind.
Withdraw ==
  /\ stage = "loose" /\ stage' = "absent"
  /\ UNCHANGED <<promise, claim, site>>

\* The user asks for deletion, with or without the annotation.
Ask ==
  /\ stage = "held" /\ stage' = "leaving"
  /\ promise' \in BOOLEAN
  /\ UNCHANGED <<claim, site>>

Reconsider ==
  /\ promise /\ promise' = FALSE
  /\ UNCHANGED <<stage, claim, site>>

\* The parts lose their owner with the resource.
Leave ==
  /\ stage = "leaving" /\ stage' = "absent"
  /\ promise' = FALSE /\ site' = {}
  /\ UNCHANGED claim

\* Parts are made once the resource is held, never before.
Make(k) ==
  /\ stage \in {"held", "leaving"}
  /\ k \notin site /\ site' = site \cup {k}
  /\ UNCHANGED <<stage, promise, claim>>

Lose(k) ==
  /\ site' = site \ {k}
  /\ UNCHANGED <<stage, promise, claim>>

Provision ==
  /\ claim = "none" /\ claim' = "kept"
  /\ UNCHANGED <<stage, promise, site>>

\* Data are never given up under a resource that is held, or against a promise.
Release ==
  /\ stage # "held" /\ ~promise
  /\ claim = "kept" /\ claim' = "going"
  /\ UNCHANGED <<stage, promise, site>>

Vanish ==
  /\ claim = "going" /\ claim' = "none"
  /\ UNCHANGED <<stage, promise, site>>

Next ==
  \/ Submit \/ Hold \/ Withdraw \/ Ask \/ Reconsider \/ Leave
  \/ \E k \in Parts : Make(k) \/ Lose(k)
  \/ Provision \/ Release \/ Vanish

Spec == Init /\ [][Next]_vars
=============================================================================
