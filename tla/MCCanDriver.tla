----------------------------- MODULE MCCanDriver ------------------------------
(* Two sending threads, UpdateWorker and a queue of two mails.                 *)
EXTENDS CanDriver, TLC

CONSTANTS s1, s2

MCSenders == {s1, s2}
===============================================================================
