------------------------------ MODULE MCPasswords ------------------------------
(* Instances of Passwords for TLC.                                         *)
EXTENDS Passwords, TLC

CONSTANTS t1, t2, t3, w1, w2, h1, h2, h3
=================================================================================
