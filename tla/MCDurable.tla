------------------------------ MODULE MCDurable ------------------------------
(***************************************************************************)
(* The calls between durable workers and the catalog of the workers in one run:  *)
(* they share nothing here, and the first state picks the one whose behaviours    *)
(* follow.  The catalog comes in two instances: groups of statements with one     *)
(* shutdown, and fewer workers that are shut down twice.                       *)
(***************************************************************************)
EXTENDS DurableCalls, DurableCatalog

CONSTANT third  \* the worker that is opened in the first of them only

VARIABLE part

partsVars == <<part, vars, catalogVars>>

PartsInit == Init /\ CatalogInit /\ part \in {"calls", "groups", "downs"}

(* Bounds of the two instances of the catalog. *)
Bounded ==
    IF part = "groups" THEN tried' <= 1 /\ Cardinality({d \in Downs : phase'[d] # "new"}) <= 1
    ELSE stand'[third] = "out" /\ opens' <= 2 /\ busy' = 0

CatalogPart(A) == part \in {"groups", "downs"} /\ A /\ Bounded

PartsNext ==
    \/ part = "calls" /\ Next /\ UNCHANGED <<part, catalogVars>>
    \/ CatalogPart(CatalogNext) /\ UNCHANGED <<part, vars>>

PartsSpec ==
    /\ PartsInit /\ [][PartsNext]_partsVars
    /\ WF_vars(part = "calls" /\ (Calling \/ Materializing))
    /\ WF_catalogVars(CatalogPart(Ongoing))
=============================================================================
