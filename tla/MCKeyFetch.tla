----------------------------- MODULE MCKeyFetch -----------------------------
(* Values for checking KeyFetch, and Entity with it, on small instances:     *)
(* every key with up to three identities, some with one address or with a    *)
(* name that has none, given by any of the sources.                          *)
EXTENDS KeyFetch

MCIdents == 1..3
=============================================================================
