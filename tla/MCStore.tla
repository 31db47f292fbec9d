------------------------------ MODULE MCStore ------------------------------
(* Small instances of Store for TLC.                                        *)
EXTENDS Store, TLC

CONSTANTS k1, k2

\* One key per shard.
TwoShards == [k \in Keys |-> IF k = k1 THEN 1 ELSE 2]

\* Without persistence: multi-key commands, then scans; with it: reads, exports.
SafetyConfigs ==
  {[persistence |-> FALSE, commands |-> {"exists", "del", "set"}],
   [persistence |-> FALSE, commands |-> {"set", "expire", "keys", "cycle"}],
   [persistence |-> TRUE, commands |-> {"get", "contains", "ttl", "deadline", "set", "expire"}],
   [persistence |-> TRUE, commands |-> {"get", "set", "expire", "export", "cycle"}]}

LiveConfigs == {[persistence |-> FALSE, commands |-> {"get", "del"}]}

Symmetry == Permutations(Threads)
=============================================================================
