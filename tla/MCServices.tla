----------------------------- MODULE MCServices -----------------------------
(***************************************************************************)
(* What processes and requests share besides runs and conversations: the   *)
(* settings models are routed by, the cache of a model list, the output    *)
(* directory of the executors and the table of applied migrations.  They   *)
(* have no state in common, so one at a time moves and the others keep     *)
(* still.                                                                  *)
(***************************************************************************)
EXTENDS ModelRouting, ModelCatalog, Executors, Migrations

CONSTANTS free1, paid1, local1, claude1, auto, default,
          brief, x1, x2, s1,
          migrate, make, older

VARIABLE part

\* None free; a billable model among free ones, and one too many.
SomePreferences == {<<paid1>>, <<free1, paid1, free1, free1>>}

\* A client of /v1 that names a billable model beside the one it asks for.
SomeArrays == {{}, {paid1}}

\* Everybody executes the same agent.
SameAgent == [x \in Executions |-> brief]

\* Two processes of one image, one of the image before.
Images == [p \in Processes |-> IF p = older THEN Last - 1 ELSE Last]

\* A router nobody asks.
Unasked == /\ settings = CHOOSE s \in Settings : TRUE
           /\ asked = CHOOSE a \in [Requests -> Asked] : TRUE

ServicesInit ==
    /\ part \in {"routing", "catalog", "executors", "migrations"}
    /\ RoutingInit /\ (part # "routing" => Unasked)
    /\ CatalogInit /\ ExecInit /\ MigrationsInit

\* bound: once everything is sent the settings do not change any more.
SettingsSettled ==
    part = "routing" /\ (\A q \in Requests : pc[q] = "sent")
        => \E s \in sent : s.settings = settings

ServicesNext ==
    /\ UNCHANGED part
    /\ \/ part = "routing" /\ RoutingNext
          /\ UNCHANGED <<catalogVars, execVars, migrationVars>>
       \/ part = "catalog" /\ CatalogNext
          /\ UNCHANGED <<routingVars, execVars, migrationVars>>
       \/ part = "executors" /\ ExecNext
          /\ UNCHANGED <<routingVars, catalogVars, migrationVars>>
       \/ part = "migrations" /\ MigrationsNext
          /\ UNCHANGED <<routingVars, catalogVars, execVars>>

ServicesSpec ==
    ServicesInit /\ [][ServicesNext]_<<part, routingVars, catalogVars, execVars, migrationVars>>

=============================================================================
