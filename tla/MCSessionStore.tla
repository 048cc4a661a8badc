--------------------------- MODULE MCSessionStore ---------------------------
(***************************************************************************)
(* Two processes.  In p1 somebody logs in while another request of the      *)
(* session runs in p2 (or p2 clears all sessions), and something in p1 ends *)
(* the session.                                                             *)
(***************************************************************************)
EXTENDS SessionStore, TLC

CONSTANTS p1, p2, older, login, ending

MCHome == older :> p2 @@ login :> p1 @@ ending :> p1

MCMay == older :> {"view", "clear"} @@ login :> {"login"}
           @@ ending :> {"logout", "edit", "sweep", "clear_all"}

MCMessages == {"flush_session_cache", "delete_sessions"}
=============================================================================
