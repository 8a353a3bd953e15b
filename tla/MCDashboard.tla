---------------------------- MODULE MCDashboard ----------------------------
(* Dashboard for TLC: one domain and one page. *)
EXTENDS Dashboard
=============================================================================
