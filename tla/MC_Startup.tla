---- MODULE MC_Startup ----
\* Both defaults, both ends of the port range and their outer neighbours; two key
\* pairs, so that a certificate and a key can each be replaced by one of the other
\* pair; two interferences, enough to replace both files between the two reads.
EXTENDS Startup, TLC
====
