---------------------------- MODULE MCCrawlJobs ----------------------------
(* Small instances of CrawlJobs: PerProc workers in every process.         *)
EXTENDS CrawlJobs

CONSTANT PerProc

MCWorkers == Procs \X (1 .. PerProc)
MCHome == [w \in MCWorkers |-> w[1]]
=============================================================================
