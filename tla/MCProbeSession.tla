--------------------------- MODULE MCProbeSession ----------------------------
(***************************************************************************)
(* Probes over both transports, in both read modes, with the cap below, at *)
(* and above the buffer.                                                   *)
(***************************************************************************)
EXTENDS ProbeSession

MCSpecs == [udp : BOOLEAN, tls : BOOLEAN, session : BOOLEAN, payload : BOOLEAN,
            read_max : {0, 1, 2, 3}, read_idle : {0, 1}]

\* The documentation's words on read_idle_ms, on the plainest probe.
IdleSpecs == [udp : {FALSE}, tls : {FALSE}, session : {TRUE}, payload : {TRUE},
              read_max : {3}, read_idle : {1}]
=============================================================================
