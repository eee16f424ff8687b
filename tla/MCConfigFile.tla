---------------------------- MODULE MCConfigFile ----------------------------
(* An instance of ConfigFile for TLC: three configs, one of which turns    *)
(* the watcher off, each with either of two settings a client can change.  *)
EXTENDS ConfigFile

CONSTANTS x1, x2, l1, l2

Config(auto, rest, live) == [auto |-> auto, rest |-> rest, live |-> live]

SomeConfigs ==
  {Config(auto, rest, live) : <<auto, rest>> \in {<<TRUE, x1>>, <<TRUE, x2>>, <<FALSE, x1>>},
                              live \in {l1, l2}}
DefaultConfig == Config(TRUE, x1, l1)
=============================================================================
