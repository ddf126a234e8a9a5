------------------------------- MODULE MCReplay -------------------------------
EXTENDS Replay

Config(target, policy, prefetch, commit, hardware) ==
  [target |-> target, policy |-> policy, prefetch |-> prefetch,
   mooncake_commit |-> commit, hardware |-> hardware]

MCConfigs ==
  {Config("baseline", "", TRUE, "", {}),
   Config("project", "", TRUE, "", {"rdma"}),
   Config("project", "lru", FALSE, "c0", {}),
   Config("baseline", "s3fifo_prefix", TRUE, "c0", {}),
   Config("baseline", "prefix_lru", TRUE, "c0", {})}

MCLockFiles ==
  LET commit(c) == <<"mooncake_commit", c>>
      version == <<"mooncake_version", "v">>
      File(text) == [is_file |-> TRUE, text |-> text]
  IN  {[is_file |-> FALSE, text |-> <<>>], File(<<version>>),
       File(<<commit("c1"), <<>>, version>>),
       File(<<commit("c1"), version, commit("c2")>>)}

KeySymmetry == Permutations(Key)
==============================================================================
