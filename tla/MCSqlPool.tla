------------------------------ MODULE MCSqlPool -------------------------------
(* Four threads over two connections: some are told NULL, some wait while    *)
(* others hold the mutex, and main destroys the pool at any moment.          *)
EXTENDS SqlPool
===============================================================================
