-------------------------------- MODULE MCCron --------------------------------
(* The runs of CronJobs: the handlers are interchangeable.                  *)
EXTENDS CronJobs, TLC

Handlers == Permutations(Handler)

=============================================================================
