---- MODULE MC_HealthAdapter ----
\* Two clients: one may keep a request open through the shutdown while the other is idle.
EXTENDS HealthAdapter, TLC
====
