---- MODULE MC_HkdfSpike ----
\* Two slots, so that the label may occur twice, and two handles, so that the label
\* of the key may.
EXTENDS HkdfSpike, TLC
====
