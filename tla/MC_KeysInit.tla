---- MODULE MC_KeysInit ----
\* Three runs: one may be killed behind the token, one behind the key, and the third
\* finds what they have left.  The label is c-hsm-doc-spike.
EXTENDS KeysInit, TLC
====
