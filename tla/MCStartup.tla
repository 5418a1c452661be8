----------------------------- MODULE MCStartup ------------------------------
(* The process is started twice on a log of up to four files of two lines.  *)
EXTENDS Startup

CONSTANTS ui, worker

MCThreads == {ui, worker}
=============================================================================
