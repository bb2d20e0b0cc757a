---- MODULE MC_HsmDocCalls ----
\* Two connections: on one a call is in the way of the other's stop.
EXTENDS HsmDocCalls, TLC
====
