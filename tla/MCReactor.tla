------------------------------- MODULE MCReactor -------------------------------
(* One client that connects again and again, empty files among the pages, in   *)
(* both models of the event loop and with every value of the pool's.  A worker *)
(* closes a connection while its descriptor is given out again, or while the   *)
(* client is refused since the counter has not gone down yet.                  *)
EXTENDS Reactor
================================================================================
