---------------------------- MODULE MCDashboard -----------------------------
(* Dashboard with one filter that lets every row through and one that lets *)
(* none through.                                                           *)
EXTENDS Dashboard

MCShows == {{}, Pids}
=============================================================================
