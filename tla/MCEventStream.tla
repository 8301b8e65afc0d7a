--------------------------- MODULE MCEventStream ---------------------------
(* One portal session with small buffers: the constants of the runs.       *)
EXTENDS EventStream

CONSTANTS u1, u2, book

MCTopics1 == {u1, book}
MCTopics2 == {u1, u2, book}
=============================================================================
