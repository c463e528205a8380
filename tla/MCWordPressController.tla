------------------------ MODULE MCWordPressController ------------------------
(***************************************************************************)
(* Instances of WordPressController for TLC: documents a user submits,     *)
(* budgets of disturbances, and which children a run looks at.             *)
(***************************************************************************)
EXTENDS WordPressProperties, TLC

MCPasswords == 1..6
MCScales    == {1, 3}

-----------------------------------------------------------------------------
(* Documents, by what they differ in from the smallest one *)

Internal == [full |-> FALSE, mode |-> "Internal", external |-> FALSE,
             persist |-> FALSE, ingress |-> "off", hpa |-> "off",
             replicas |-> 1, storage |-> CHOOSE z \in Sizes : TRUE,
             rev |-> CHOOSE r \in Revs : TRUE]
External == [Internal EXCEPT !.mode = "External", !.external = TRUE]
Exposed  == [External EXCEPT !.ingress = "on"]
Scaled   == [External EXCEPT !.ingress = "on", !.hpa = "on"]
Idle     == [External EXCEPT !.replicas = 0]
Inverted == [External EXCEPT !.hpa = "inverted"]
Complete == [Internal EXCEPT !.full = TRUE, !.persist = TRUE]
EmptyDir == [Internal EXCEPT !.full = TRUE]

OnlyInternal  == {Internal}
OnlyExternal  == {External}
OnlyComplete  == {Complete}
OnlyEmptyDir  == {EmptyDir}
OnlyScaled    == {Scaled}
OnlyExposed   == {Exposed}
Revisions     == {[Internal EXCEPT !.rev = v, !.storage = v] : v \in Revs \cap Sizes}
Volumetric    == {[Internal EXCEPT !.storage = z] : z \in Sizes}
Modes         == {Internal, External, Idle}
Rejectable    == {External, Scaled, Inverted}

\* No property cares which revision or size a document has. Where documents
\* differ in both, the two sets are one.
SymmetricRevs  == Permutations(Revs)
SymmetricSizes == Permutations(Sizes)

-----------------------------------------------------------------------------
(* Children *)

Nothing      == <<>>
Credentials  == <<"Secret", "StatefulSet">>
OnlyDatabase == <<"StatefulSet">>
OnlySite     == <<"Deployment">>
SiteScaled   == <<"Deployment", "HPA">>
SiteOptional == <<"Deployment", "Ingress", "HPA">>
SiteContent  == <<"ContentPVC", "Deployment", "Ingress">>

-----------------------------------------------------------------------------
(* Budgets *)

Once == [[d \in Disturbances |-> 0] EXCEPT !["create"] = 1]

Undisturbed == Once
Meddled     == [Once EXCEPT !["create"] = 2, !["delete"] = 1, !["fault"] = 1, !["drift"] = 1,
                            !["flap"] = 1]
ScaledOnce  == [Once EXCEPT !["scale"] = 1]
Faulty      == [Once EXCEPT !["edit"] = 1, !["fault"] = 1]
Deleted     == [Once EXCEPT !["delete"] = 1]
Recreated   == [Once EXCEPT !["create"] = 2, !["delete"] = 2, !["annotate"] = 1,
                            !["restart"] = 1]
Toggled     == [Once EXCEPT !["edit"] = 1, !["foreign"] = 1, !["scale"] = 1, !["restart"] = 1]
Keyed       == [Once EXCEPT !["edit"] = 1, !["secret"] = 1]
=============================================================================
