---------------------------- MODULE MCSessionManager ----------------------------
(***************************************************************************)
(* Small instances of SessionManager.  Lifespan 1 against a clock of three *)
(* readings lets a session expire before, inside and after a call of       *)
(* another process; two ids allow two stored sessions, or one stored and a *)
(* lookup of an id nobody stored.                                          *)
(***************************************************************************)
EXTENDS SessionManager

CONSTANTS w1, w2, s1, s2, p1

MCWorkers == {w1, w2}
MCSessionIds == {s1, s2}
MCPayloads == {p1}
MCOneSession == {s1}

================================================================================
