--------------------------- MODULE MCRunQueues ---------------------------
(* Small instances of RunQueues with two classes.                           *)
EXTENDS RunQueues

MCQuanta      == [k \in Class |-> 1]
MCTaskQuantum == [k \in Class |-> [t \in Tasks |-> 1]]
MCInitClass   == [t \in Tasks |-> 0]
\* Task 2 may become a hog; the others keep their class, as with a class hint.
MCClassesOf   == [t \in Tasks |-> IF t = 2 THEN Class ELSE {0}]
MCPreferred   == [t \in Tasks |-> 1]

\* Unequal quanta for the single CPU: class 0 twice class 1, a nicer task 3.
UpQuanta      == [k \in Class |-> 2 - k]
UpTaskQuantum == [k \in Class |-> [t \in Tasks |-> IF t = 3 THEN 1 ELSE 2 - k]]
UpClassesOf   == [t \in Tasks |-> IF t = 1 THEN {0} ELSE Class]
=============================================================================
