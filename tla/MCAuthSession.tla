---------------------------- MODULE MCAuthSession ----------------------------
(* Two tabs of one browser.                                                *)
EXTENDS AuthSession, TLC

CONSTANTS t1, t2
=============================================================================
