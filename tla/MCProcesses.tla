--------------------------- MODULE MCProcesses ---------------------------
(* Small instances of Processes: one scheduling class, quanta of one tick.  *)
EXTENDS Processes

MCQuanta      == [k \in Class |-> 1]
MCTaskQuantum == [k \in Class |-> [t \in Tasks |-> 1]]
MCInitClass   == [t \in Tasks |-> 0]
MCClassesOf   == [t \in Tasks |-> {0}]
MCPreferred   == [t \in Tasks |-> NumCpus]
MCProcess     == [t \in Tasks |-> <<"process", t>>]
MCThread      == [t \in Tasks |-> <<"thread", t>>]
MCEvents      == {}
\* The exit of task 2, the first one that init creates
MCWaitable    == {<<"process", 2>>}
=============================================================================
