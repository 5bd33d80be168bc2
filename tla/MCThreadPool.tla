---------------------------- MODULE MCThreadPool -----------------------------
(* Three workers and a list of three: the list fills, workers race for the  *)
(* lock, and a worker can be woken before two others have popped.           *)
EXTENDS ThreadPool
==============================================================================
