------------------------------- MODULE Requests -------------------------------
(***************************************************************************)
(* The table of requests under way.  A goroutine serves one request at a   *)
(* time; what it remembers between two statements (the Go locals) is its   *)
(* record in req, with the statement it comes to next in the field pc.     *)
(* Components that extend this module give the records their other fields. *)
(***************************************************************************)
CONSTANTS
  Handlers,  \* request goroutines
  None       \* NULL / redis.Nil / no value

VARIABLE req

At(p, pc) == req[p].pc = pc
Goto(p, pc) == req' = [req EXCEPT ![p].pc = pc]
================================================================================
