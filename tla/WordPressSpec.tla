--------------------------- MODULE WordPressSpec ---------------------------
(***************************************************************************)
(* The data of the operator: the spec of a WordPress resource, the default *)
(* and validation passes over it, and the children rendered from it.       *)
(*                                                                         *)
(* A spec keeps the fields a decision of the controller depends on; every  *)
(* other field is only copied into rendered objects and is summed up, in   *)
(* "storage" when it goes into the claim templates of the database, which  *)
(* no update touches, and in "rev" otherwise (images, ports, hosts, ...).  *)
(* Module Namespace has the fields one by one and checks that this one is  *)
(* faithful to them.                                                       *)
(***************************************************************************)
EXTENDS Naturals, Sequences

CONSTANTS
  Revs,    \* distinguishable values of the fields that are only copied
  Sizes    \* and of those of them that the claim templates are made of

(***************************************************************************)
(* full:     every struct-valued section of the document is written out,   *)
(*           and no field is written out empty                             *)
(* mode:     database.mode, "" when the database section is missing        *)
(* external: the database.external section is present                      *)
(* persist:  persistence.enabled as decoded (FALSE also when unset)        *)
(* ingress:  disabled, enabled, or enabled without a host                  *)
(* hpa:      autoscaling disabled, enabled, or with maxReplicas below min  *)
(* replicas: spec.replicas; the schema default leaves none without one     *)
(* storage:  size and class of the volume of an internal database          *)
(***************************************************************************)
Specs ==
  [full: BOOLEAN, mode: {"", "Internal", "External"}, external: BOOLEAN,
   persist: BOOLEAN, ingress: {"off", "on", "nohost"},
   hpa: {"off", "on", "inverted"}, replicas: Nat, storage: Sizes, rev: Revs]

\* What the CRD schema lets into the API server: database.mode has a schema
\* default, so it is empty only in a document without a database section.
Storable(s) == s.full => s.mode # ""

applyDefaults(s) == [s EXCEPT !.mode = IF @ = "" THEN "Internal" ELSE @]

validateSpec(s) ==
  /\ s.mode \in {"Internal", "External"}
  /\ s.mode = "External" => s.external
  /\ s.hpa # "inverted"
  /\ s.ingress # "nohost"

(***************************************************************************)
(* The spec stored after the Go value read from a document is sent back.   *)
(* Struct-valued sections carry no pointer, so omitempty never drops them  *)
(* and each section appears, where the schema defaults its fields; a FALSE *)
(* persistence.enabled is dropped by omitempty and defaulted to TRUE.      *)
(***************************************************************************)
WriteBack(s) == [applyDefaults(s) EXCEPT !.full = TRUE, !.persist = TRUE]

-----------------------------------------------------------------------------
(* The objects one WordPress resource owns, in the order Reconcile visits them *)

DatabaseKinds == {"Secret", "MySQLService", "StatefulSet"}
SiteKinds     == {"ContentPVC", "Deployment", "Service", "Ingress", "HPA"}
ChildKinds    == DatabaseKinds \cup SiteKinds

Rank == [Secret |-> 1, MySQLService |-> 2, StatefulSet |-> 3, ContentPVC |-> 4,
         Deployment |-> 5, Service |-> 6, Ingress |-> 7, HPA |-> 8]

InCodeOrder(plan) ==
  \A i, j \in DOMAIN plan : i < j => Rank[plan[i]] < Rank[plan[j]]

CreateOnly == {"Secret", "ContentPVC"}   \* never updated once they exist
Optional   == {"Ingress", "HPA"}         \* removed again when switched off

\* The API server fills in fields of these kinds that the builders leave
\* empty, so the comparison with the built object never finds them equal.
ServerDefaulted == {"StatefulSet", "Deployment", "Service"}

Wants(k, s) ==
  /\ k = "ContentPVC" => s.persist
  /\ k = "Ingress"    => s.ingress = "on"
  /\ k = "HPA"        => s.hpa = "on"

\* With autoscaling on the Deployment is sent without a replica count, and the
\* API server sets it to 1.
Replicas(k, s) == IF k = "Deployment" /\ s.hpa # "on" THEN s.replicas ELSE 1

\* What a child of kind k is built from, as it is stored, in all that an update
\* of the child sets again.
Render(k, s) ==
  [mode     |-> IF k = "Deployment" THEN s.mode ELSE "Internal",
   persist  |-> k = "Deployment" /\ s.persist,
   replicas |-> Replicas(k, s),
   rev      |-> s.rev]

\* What the claim templates of a child ask for. They are immutable: an update
\* leaves them as the creation has made them.
ClaimTemplates(k, s) == IF k = "StatefulSet" THEN {s.storage} ELSE {}

Contents ==
  [mode: {"", "Internal", "External"}, persist: BOOLEAN, replicas: Nat, rev: Revs]
=============================================================================
