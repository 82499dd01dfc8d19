--------------------------- MODULE MCEventWait ---------------------------
(* Small instances of EventWait, most with one class and quanta of one tick.*)
EXTENDS EventWait

MCQuanta      == [k \in Class |-> 1]
MCTaskQuantum == [k \in Class |-> [t \in Tasks |-> 1]]
MCInitClass   == [t \in Tasks |-> 0]
MCClassesOf   == [t \in Tasks |-> {0}]
MCPreferred   == [t \in Tasks |-> NumCpus]

\* Unequal quanta: class 0 twice class 1, a nicer task 3; init keeps its class.
ServedQuanta      == [k \in Class |-> 2 - k]
ServedTaskQuantum == [k \in Class |-> [t \in Tasks |-> IF t = 3 THEN 1 ELSE 2 - k]]
ServedClassesOf   == [t \in Tasks |-> IF t = 1 THEN {0} ELSE Class]

MCProcess     == [t \in Tasks |-> <<"process", t>>]
MCThread      == [t \in Tasks |-> <<"thread", t>>]
MCEvents      == {<<"event", 1>>}
NoEvents      == {}
\* An event, and the exit of task 2
MCWaitable    == {<<"event", 1>>, <<"process", 2>>}
OnlyEvent     == {<<"event", 1>>}
OnlyExit      == {<<"process", 2>>}
=============================================================================
