--------------------------- MODULE MCWorkerProcess ---------------------------
(* Small instances of WorkerProcess for TLC: two executor modules without  *)
(* and with a job type in common.                                          *)
EXTENDS WorkerProcess

Types == {"report", "export", "mail"}
Settings == { << <<"report", "export">>, <<"mail">> >>,
              << <<"report">>, <<"export", "report">> >> }
=============================================================================
