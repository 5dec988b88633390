--------------------------- MODULE MCHistoryPage ----------------------------
(* HistoryPage; its configurations give every constant a plain value. *)
EXTENDS HistoryPage
=============================================================================
