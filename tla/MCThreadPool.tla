--------------------------- MODULE MCThreadPool ---------------------------
(* The thread pool, checked by TLC; the configurations choose the sets.    *)
EXTENDS ThreadPool
=============================================================================
