--------------------------- MODULE MCEventCallbacks ---------------------------
(***************************************************************************)
(* Instances of EventCallbacks for TLC.                                    *)
(***************************************************************************)
EXTENDS EventCallbacks

Plain(list, name) ==
    [list |-> list, expected |-> TRUE, name |-> name, changed |-> <<>>, removed |-> 0]

(* Three services changed, one of them without properties; one removed.     *)
Services ==
    [Plain("manager", "ServicesChanged") EXCEPT !.changed = <<TRUE, FALSE, TRUE>>, !.removed = 1]

FewSignals ==
    {Services, Plain("service", "PropertyChanged"), Plain("agent", "RequestInput")}

AllSignals ==
    FewSignals \cup
    {Plain("manager", "TechnologyAdded"), Plain("manager", "TechnologyRemoved"),
     Plain("manager", "PropertyChanged"), Plain("manager", "StateChanged"),
     Plain("technology", "PropertyChanged"), Plain("technology", "Scanned"),
     [Plain("service", "PropertyChanged") EXCEPT !.expected = FALSE]}

AnyList == Lists \X Lists

===============================================================================
