----------------------------- MODULE MCMotorShm -----------------------------
(* One controller and one monitor on a ring of two slots; a block has a     *)
(* header field and rows.                                                   *)
EXTENDS MotorShm
CONSTANTS head, rows
=============================================================================
