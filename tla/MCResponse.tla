------------------------------- MODULE MCResponse ------------------------------
(* Header, form and files long enough for several short writes in each part;  *)
(* two sizes of file, so that one is unmapped by the size of another.         *)
EXTENDS Response
================================================================================
