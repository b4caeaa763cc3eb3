--------------------------- MODULE ConnectionState ---------------------------
(***************************************************************************)
(* What the two halves of a Connection::Connection share: whether it is    *)
(* closed, by whichever of them or by the game.                            *)
(***************************************************************************)

VARIABLE closed  \* m_Closed

\* Close(): m_Closed.exchange(true).
Close == closed' = TRUE
=============================================================================
