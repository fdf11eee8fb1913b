------------------------------ MODULE MCPages -------------------------------
(* One browser tab for TLC: one alert rule, two HTTP checks, two ranges.    *)
EXTENDS Pages
=============================================================================
