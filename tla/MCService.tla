------------------------------ MODULE MCService -----------------------------
(* Service with a unit of 15 s: timeouts that are not multiples of it are   *)
(* rounded up.                                                              *)
EXTENDS Service, TLC

Grace == 2   \* stop_grace_period of docker-compose.yml: 30 s

(* "give the app 30s to complete shutdown": after the grace period the      *)
(* container runtime kills a process that has not exited.                   *)
ExitsWithinGrace == since <= Grace
=============================================================================
