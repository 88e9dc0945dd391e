----------------------------- MODULE MCComponents -----------------------------
\* The components on small instances.
EXTENDS Components

\* A task that is handed tokens twice as fast, and one that saves them up.
SomeRates == {[n |-> 2, p |-> 1], [n |-> 1, p |-> 2]}
=============================================================================
