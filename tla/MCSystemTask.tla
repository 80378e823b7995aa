---------------------------- MODULE MCSystemTask ----------------------------
\* The system task with few slots and privilege structures.
EXTENDS SystemTask

\* The masks that services are started with: only PM (or everybody).
SmallMaps == {{PM_PRIV}}

\* Features are used one at a time, those between services with two of them.
OneAtATime ==
    {{"vm"}, {"diag"}, {"delay"}, {"async", "static"}, {"notify", "static"}, {"masks", "static"}}
===============================================================================
