---------------------------- MODULE MCPropertyCalls ----------------------------
(***************************************************************************)
(* Instances of PropertyCalls for TLC.                                     *)
(***************************************************************************)
EXTENDS PropertyCalls

CallsOf(fns, access_type, args, values) ==
    [fn : fns, access_type : {access_type}, type_arg : args, value : values, complete : {TRUE}]

(* The application's technologies and services, and what it may pass        *)
(* without a look.                                                          *)
Getters ==
    CallsOf({"connman_get_services"}, "service", {NULL}, {Absent})
    \cup CallsOf({"connman_manager_get_state"}, "manager", {NULL}, {Absent})
    \cup CallsOf({"connman_manager_get_online"}, "manager", {NULL}, {"on"})
    \cup CallsOf({"connman_get_property"}, "technology", Technologies \cup {NULL}, {Absent})

Setters ==
    CallsOf({"connman_manager_set_offline"}, "manager", {NULL}, {"on"})
    \cup CallsOf({"connman_set_property"}, "service", Services, {"on"})
    \cup CallsOf({"connman_technology_enable"}, "technology", Technologies \cup {NULL}, {"on"})
    \cup CallsOf({"connman_technology_disable"}, "technology", Technologies, {"off"})

Methods ==
    CallsOf({"connman_technology_scan_services"}, "technology", Technologies, {Absent})
    \cup CallsOf({"connman_service_move"}, "service", Services \cup {NULL}, {Absent})

Incomplete == {[c EXCEPT !.complete = FALSE] : c \in
    CallsOf({"connman_service_disconnect"}, "service", {NULL}, {Absent})}

(* ConnMan is online and has a service, or it is not and has none.          *)
SomeStarts == {p \in [Objects -> Values \cup {Absent}] :
    /\ p[Manager] # Absent
    /\ \A s \in Services : p[s] = IF p[Manager] = "on" THEN "off" ELSE Absent}

(* One thread makes any call, the others race with it to write.             *)
CONSTANT Any
AllAndWrites == [t \in Threads |->
    IF t = Any THEN Getters \cup Setters \cup Methods \cup Incomplete
    ELSE {c \in Setters : c.type_arg \in Technologies}]

Offline == [t \in Threads |->
    CallsOf({"connman_manager_set_offline"}, "manager", {NULL}, {"on", "off"})]
===============================================================================
