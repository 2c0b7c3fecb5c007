----------------------------- MODULE OrderStatus -----------------------------
(***************************************************************************)
(* Order statuses and the legal moves between them (orders/state.py LEGAL, *)
(* orders/wire.py TERMINAL_STATUSES).                                      *)
(***************************************************************************)

CONSTANTS Orders,    \* broker ids
          Terminal   \* TERMINAL_STATUSES: WIN, LOSE, REFUNDED, CANCELED

ASSUME TerminalAssumption == Terminal \cap {"PENDING", "OPEN", "none"} = {}

Statuses == {"PENDING", "OPEN"} \cup Terminal

\* LEGAL, and for a terminal status the only update the tracker accepts.
LegalAfter(status) ==
  CASE status = "PENDING" -> Statuses
    [] status = "OPEN" -> {"OPEN"} \cup Terminal
    [] OTHER -> {status}
=============================================================================
