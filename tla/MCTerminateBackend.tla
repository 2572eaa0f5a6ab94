-------------------------- MODULE MCTerminateBackend --------------------------
(***************************************************************************)
(* Instance of TerminateBackend for TLC: two calls at a time, two sessions *)
(* of the application, each PID reused once.                               *)
(***************************************************************************)
EXTENDS TerminateBackend, TLC

CONSTANTS c1, c2, a1, a2, s1, s2

MCPidOf == c1 :> a1 @@ c2 :> a2
=============================================================================
