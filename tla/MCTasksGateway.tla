--------------------------- MODULE MCTasksGateway ---------------------------
(* Small instances of BackgroundTasks and of LlmGateway in one run: a       *)
(* behaviour is about one of them and the other stays as it began, since    *)
(* the tasks' analysis calls no provider and they share no state.  The      *)
(* requests that enqueue and cancel are the gateway's callers, and the      *)
(* workers its processes, so that one symmetry reduces both.                *)
EXTENDS BackgroundTasks, LlmGateway

VARIABLE scene    \* what this behaviour is about: "tasks" or "gateway"

CONSTANTS p1, p2

sceneVars == <<scene, vars, gatewayVars>>

SceneSymmetry == Permutations(Requests) \cup Permutations(Workers)

Row(a, b) == (p1 :> a) @@ (p2 :> b)

(* The breaker of p1 opens, recovers and opens again; p2 stays healthy. *)
MCFailures == (p1 :> 3) @@ (p2 :> 0)

(* Routing with a fallback; and a policy of which nothing is left, so that *)
(* the default is called, where a provider that the platform has disabled  *)
(* may be named, and none has credentials.                                 *)
MCConfigs ==
  { [policy |-> <<p1, p2>>, organization |-> Row("absent", "enabled"),
     platform |-> Row("enabled", "absent"), configured |-> {p1, p2}, named |-> {}],
    [policy |-> <<p2, p1, p2>>, organization |-> Row("absent", "disabled"),
     platform |-> Row("disabled", "enabled"), configured |-> {}, named |-> {p1, p2}] }

SceneInit ==
  /\ scene \in {"tasks", "gateway"}
  /\ Init /\ GatewayInit
  /\ scene = "tasks" => config = CHOOSE c \in Configs : TRUE

SceneNext ==
  /\ UNCHANGED scene
  /\ \/ scene = "tasks" /\ Next /\ UNCHANGED gatewayVars
     \/ scene = "gateway" /\ GatewayNext /\ UNCHANGED vars

SceneSpec == SceneInit /\ [][SceneNext]_sceneVars
=============================================================================
