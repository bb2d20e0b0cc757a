---- MODULE MC_Ci ----
\* Two modules of vendors: one needs a library that needs another, one needs the last
\* alone, so that a copy may be lost at any depth and at any place of the loop.
EXTENDS Ci, TLC
CONSTANTS softhsm, opencryptoki, crypto, libc
MCNeeds == softhsm :> {crypto} @@ opencryptoki :> {libc} @@ crypto :> {libc} @@ libc :> {}
====
