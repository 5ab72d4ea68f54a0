----------------------- MODULE MCServiceRegistration -----------------------
(* The registration of one process, for TLC.  The counters grow by a fault *)
(* or by the recovery from one, so MaxFaults bounds them too.              *)
EXTENDS ServiceRegistration
=============================================================================
