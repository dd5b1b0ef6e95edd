--------------------------- MODULE MCTelemetryServer ---------------------------
(* Bounds for the threads of the monitoring process. *)
EXTENDS TelemetryServer

\* Two requests at a time.
MCHandlers == {"h1", "h2"}
=============================================================================
