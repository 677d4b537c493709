--------------------------- MODULE MCSettingsTorn ---------------------------
(* Settings for TLC: what a loss of power leaves of a second balance.      *)
EXTENDS Settings

Erased == -1
Spoilt == -2
=============================================================================
