---- MODULE MC_ServeAll ----
\* Two gRPC clients and one health client: one gRPC client may hold its connection
\* through the drain while the other calls an RPC, and the health client may keep
\* its request open until the shutdown of the health server times out.
EXTENDS ServeAll, TLC
====
