----------------------------- MODULE MCCellClient -----------------------------
(***************************************************************************)
(* CellClient for TLC.  A header is two units, so that it may be cut too;  *)
(* a login and its result are longer than it, the heartbeats are a header  *)
(* and nothing else.                                                       *)
(***************************************************************************)
EXTENDS CellClient

MCKinds == Requests \cup Replies
MCLength == [k \in MCKinds |->
               CASE k \in {"LOGIN", "LOGIN_RESULT"} -> 4
                 [] k = "LOGOUT" -> 3
                 [] OTHER -> 2]
=============================================================================
