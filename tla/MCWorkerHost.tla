----------------------------- MODULE MCWorkerHost -----------------------------
EXTENDS WorkerHost
MCService == <<"worker", "backend">>
=============================================================================
