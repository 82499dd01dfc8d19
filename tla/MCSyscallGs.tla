--------------------------- MODULE MCSyscallGs ---------------------------
(* A small instance of SyscallGs.                                           *)
EXTENDS SyscallGs

MCQuanta      == [k \in Class |-> 1]
MCTaskQuantum == [k \in Class |-> [t \in Tasks |-> 1]]
MCInitClass   == [t \in Tasks |-> 0]
MCClassesOf   == [t \in Tasks |-> {0}]
MCPreferred   == [t \in Tasks |-> NumCpus]
MCProcess     == [t \in Tasks |-> <<"process", t>>]
MCThread      == [t \in Tasks |-> <<"thread", t>>]
MCEvents      == {}
MCWaitable    == {<<"process", 2>>}
=============================================================================
