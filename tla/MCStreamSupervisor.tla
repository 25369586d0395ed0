------------------------- MODULE MCStreamSupervisor -------------------------
(***************************************************************************)
(* Small instances of StreamSupervisor for TLC.                            *)
(***************************************************************************)
EXTENDS StreamSupervisor

(* A recording, a stream, and streams without a key or a usable address. *)
GoodOrders ==
    {[mode |-> "record", key |-> FALSE, ingest |-> TRUE],
     [mode |-> "rtmps", key |-> TRUE, ingest |-> TRUE],
     [mode |-> "rtmps", key |-> FALSE, ingest |-> TRUE],
     [mode |-> "rtmps", key |-> TRUE, ingest |-> FALSE]}
=============================================================================
