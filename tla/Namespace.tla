------------------------------ MODULE Namespace ------------------------------
(***************************************************************************)
(* The WordPress resources of one namespace: users submit and edit their   *)
(* documents, and the controller sends each back once, when it adds the    *)
(* finalizer.                                                              *)
(***************************************************************************)
EXTENDS Rendering

CONSTANTS
  Submitted,   \* for each name, the documents users create it with
  Revised      \* and those they replace a stored one by

Names == DOMAIN Submitted

ASSUME NamespaceAssumption ==
  /\ Names \subseteq Seq(Words) \ {<<>>}
  /\ DOMAIN Revised = Names
  /\ \A n \in Names : \A d \in Submitted[n] \cup Revised[n] : WellFormed(d)

VARIABLES
  stored,   \* the documents of the resources that exist
  held      \* the resources that have the finalizer

vars == <<stored, held>>

Init == stored = <<>> /\ held = {}

Submit(n) ==
  /\ n \notin DOMAIN stored
  /\ \E d \in Submitted[n] :
       /\ Admitted(SchemaDefaulted(d))
       /\ stored' = [m \in DOMAIN stored \cup {n} |->
                       IF m = n THEN SchemaDefaulted(d) ELSE stored[m]]
  /\ UNCHANGED held

Edit(n) ==
  /\ n \in DOMAIN stored
  /\ \E d \in Revised[n] :
       /\ Admitted(SchemaDefaulted(d))
       /\ stored' = [stored EXCEPT ![n] = SchemaDefaulted(d)]
  /\ UNCHANGED held

AddFinalizer(n) ==
  /\ n \in DOMAIN stored \ held
  /\ Admitted(WriteBack(stored[n]))
  /\ stored' = [stored EXCEPT ![n] = WriteBack(@)]
  /\ held' = held \cup {n}

\* Deleted, and gone once the finalizer is.
Remove(n) ==
  /\ n \in DOMAIN stored
  /\ stored' = [m \in DOMAIN stored \ {n} |-> stored[m]]
  /\ held' = held \ {n}

Next == \E n \in Names : Submit(n) \/ Edit(n) \/ AddFinalizer(n) \/ Remove(n)

Spec == Init /\ [][Next]_vars

-----------------------------------------------------------------------------

\* The resources a pass goes through for.
Accepted == {n \in DOMAIN stored : validateSpec(Effective(stored[n]))}

Objects(n) == Built(n, Effective(stored[n]))

\* The update that adds the finalizer is never refused by the schema, so no
\* resource is kept from its first pass (Reconcile, AddFinalizer).
FinalizerAdmitted == \A n \in DOMAIN stored : Admitted(WriteBack(stored[n]))

\* The fields that reach a child.
Relevant(w) ==
  {f \in Fields : SectionOf[f] \in
     Structs \cup {IF w.fields.mode = "Internal" THEN "internal" ELSE "external"}}
  \ (IF w.fields.autoscaled THEN {} ELSE {"min", "max", "target"})

Copied(w) == [f \in Relevant(w) |-> w.fields[f]]

\* What the finalizer update does to a document does not show in the spec the
\* controller works from, persistence.enabled apart: wherever the schema fills
\* in a section the code would have chosen the same (applyDefaults).
DefaultsAgree ==
  \A n \in DOMAIN stored :
    LET before == Effective(stored[n])
        after  == Effective(WriteBack(stored[n])) IN
    Copied(after) = Copied([before EXCEPT !.fields.persist = TRUE])

\* What the builders take for granted of a spec: the section of its mode, a
\* replica count, ports and percentages that the API server takes, bounds.
Buildable(w) ==
  /\ (IF w.fields.mode = "Internal" THEN "internal" ELSE "external") \in w.sections
  /\ w.fields.replicas # Nil
  /\ w.fields.port \in 1..Maximum.port
  /\ w.fields.mode = "External" => w.fields.dbPort \in 1..Maximum.dbPort /\ w.fields.host # ""
  /\ w.fields.autoscaled => w.fields.min \in 1..w.fields.max /\ w.fields.target \in 1..Maximum.target

\* A pass that has accepted a spec finds everything it takes for granted
\* (validateSpec, applyDefaults, the builders).
AcceptedIsBuildable == \A n \in Accepted : Buildable(Effective(stored[n]))

\* Everything an object or the controller refers to is built for the same
\* resource: "references stay in sync between builders and the reconciler"
\* (names.go).
ReferencesResolve ==
  \A n \in Accepted :
    (UNION {o.needs : o \in Objects(n)}) \cup ControllerNeeds(n, Effective(stored[n]))
      \subseteq UNION {o.provides : o \in Objects(n)}

\* A Service reaches pods of its own resource and component only, whatever pod
\* labels any resource of the namespace sets, and a port they listen on.
ServicesReachOwnPods ==
  \A n, m \in Accepted :
    \A s \in {o \in Objects(n) : o.kind = "Service"}, o \in Objects(m) :
      Selects(s, o) =>
        /\ n = m
        /\ o.kind = IF s.name = dbServiceName(n) THEN "StatefulSet" ELSE "Deployment"
        /\ s.ports \subseteq o.ports

\* Objects of two resources never have the same kind and name, but for the
\* database Service of "x" and the site Service of "x-mysql" (names.go).
NamesDistinct ==
  \A n, m \in Accepted :
    \A o \in Objects(n), p \in Objects(m) :
      (n # m /\ o.kind = p.kind /\ o.name = p.name) =>
        o.kind = "Service" /\ (m = dbServiceName(n) \/ n = dbServiceName(m))

-----------------------------------------------------------------------------
(* The spec of module WordPressSpec is what this one leaves of a document *)

\* What the claim templates of an internal database are made of, and the rest.
Storage(w) == [f \in Relevant(w) \cap {"storageSize"} |-> w.fields[f]]
Rest(w)    == [f \in Relevant(w) \ {"persist", "storageSize"} |-> w.fields[f]]

Core == INSTANCE WordPressSpec
  WITH Revs  <- {Rest(Effective(stored[n])) : n \in DOMAIN stored},
       Sizes <- {Storage(Effective(stored[n])) : n \in DOMAIN stored}

\* The document is as the Go types would write it, but for what they drop.
WrittenOut(d) ==
  /\ Structs \subseteq d.sections
  /\ "internal" \in d.sections => "internalResources" \in d.sections
  /\ \A f \in DOMAIN d.fields :
       d.fields[f] = Zero[f] =>
         \/ f = "persist"
         \/ f \in DOMAIN SchemaDefault /\ SchemaDefault[f] = Zero[f]

Abstracted(d) ==
  LET w == Effective(d).fields IN
  [full     |-> WrittenOut(d),
   mode     |-> Decode(d).fields.mode,
   external |-> "external" \in d.sections,
   persist  |-> w.persist,
   ingress  |-> IF ~w.exposed THEN "off" ELSE IF w.ingressHost = "" THEN "nohost" ELSE "on",
   hpa      |-> IF ~w.autoscaled THEN "off" ELSE IF w.max < w.min THEN "inverted" ELSE "on",
   replicas |-> w.replicas,
   storage  |-> Storage(Effective(d)),
   rev      |-> Rest(Effective(d))]

KindsBuilt(n) ==
  {IF o.kind = "PVC" THEN "ContentPVC" ELSE o.kind : o \in Objects(n)}

\* The few fields the controller's model keeps decide as the document does: what
\* is storable and accepted, what a whole-object update leaves behind and
\* whether it changes anything, which children are wanted.
AgreesWithController ==
  \A n \in DOMAIN stored :
    LET d == stored[n]
        s == Abstracted(d) IN
    /\ Core!Storable(s)
    /\ Core!validateSpec(Core!applyDefaults(s)) <=> n \in Accepted
    /\ Abstracted(WriteBack(d)) = Core!WriteBack(s)
    /\ Core!WriteBack(s) = s <=> WriteBack(d) = d
    /\ n \in Accepted =>
         \A k \in Core!SiteKinds : Core!Wants(k, Core!applyDefaults(s)) <=> k \in KindsBuilt(n)
=============================================================================
