------------------------------- MODULE MCSafety -------------------------------
\* The components on small instances.
EXTENDS Safety

\* An invocation that needs the one object there is, and mutates nothing.
Readers == [home : {"h1"}, keys : {{}}, needs : {{"p1"}}]
=============================================================================
