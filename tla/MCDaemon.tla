------------------------------ MODULE MCDaemon ------------------------------
(***************************************************************************)
(* Instances of Daemon for TLC.  The lifecycle runs need one config; the   *)
(* settings run has configs whose reload changes the path alone, or what   *)
(* needs a restart with the path or without it.  They do not differ        *)
(* in `live', which no property of that run reads, nor in `limit', which   *)
(* only sets a timer and is on in the liveness run.                        *)
(***************************************************************************)
EXTENDS DaemonSuccession

CONSTANTS s1, s2, l1, l2, v1, v2

ConfigOf(struct, live, path, limit, auto) ==
  [struct |-> struct, live |-> live, path |-> path, limit |-> limit, auto |-> auto]

PlainConfig == ConfigOf(s1, l1, NoPath, FALSE, FALSE)

QuietConfig == {PlainConfig}

TimedConfig == {ConfigOf(s1, l1, NoPath, TRUE, TRUE)}

(* A plain file, one that names a video, and one whose renderer must be    *)
(* replaced, which watches itself and names that video, too.               *)
SomeConfigs ==
  {PlainConfig,
   [PlainConfig EXCEPT !.path = v2],
   ConfigOf(s2, l1, v2, FALSE, TRUE)}
=============================================================================
