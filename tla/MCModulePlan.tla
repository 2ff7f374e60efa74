---------------------------- MODULE MCModulePlan ----------------------------
(***************************************************************************)
(* Instance of ModulePlan for TLC.  The specification has no entity, one,  *)
(* or two whose names differ in case only, so that their ids collide.  The *)
(* planner's model orders an entity and its service well, in a list out of *)
(* order that counts from minus one, with a shared place, with a cycle,    *)
(* with an unknown dependency, with one id twice, or names no module.      *)
(***************************************************************************)
EXTENDS ModulePlan

Order == <<"order", "entity">>
Service == <<"order", "service">>

MCEntityLists == {<<>>, <<"Order">>, <<"Order", "ORDER">>}
MCBase == [name \in {"Order", "ORDER", "Core"} |->
             IF name = "Core" THEN "core" ELSE "order"]

Planned(id, dependencies, order) == PlannedModule(id, dependencies, order, {"Order"})

MCPlanAnswers ==
    {<<>>,
     <<Planned(Order, {}, 1), Planned(Service, {Order}, 2)>>,
     <<Planned(Service, {Order}, 0), Planned(Order, {}, -1)>>,
     <<Planned(Order, {}, 1), Planned(Service, {Order}, 1)>>,
     <<Planned(Order, {Order}, 1)>>,
     <<Planned(Order, {Service}, 1), Planned(Service, {Order}, 2)>>,
     <<Planned(Service, {Order}, 1)>>,
     <<Planned(Order, {Service}, 3), Planned(Order, {}, 1),
       Planned(Service, {Order}, 2)>>}

MCNamedIds == {Order, Service}
=============================================================================
