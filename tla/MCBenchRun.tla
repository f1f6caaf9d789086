----------------------------- MODULE MCBenchRun -----------------------------
(***************************************************************************)
(* Instances of BenchRun: two workers, and for each storage interface the  *)
(* arguments that bring out what is particular to it.                      *)
(***************************************************************************)
EXTENDS BenchRun

CONSTANTS a, b

\* redis with warm-up: holes left by failed writes.  s3: whoever is first to
\* finish destroys the bucket, or empties it and leaves it.  dynamodb: a missing
\* item ends the process.  mmux without warm-up: the second put of a key may be an
\* error, and remove() of a missing file throws.  Zipf keys: reads of keys that
\* nobody wrote, and writes of keys that were.
AllBackends ==
  { [backend |-> "redis", mode |-> {"write", "read"}, warmUp |-> TRUE,
      dist |-> "sequential"],
    [backend |-> "s3", mode |-> {"write", "read", "destroy"}, warmUp |-> FALSE,
      dist |-> "sequential"],
    [backend |-> "dynamodb", mode |-> {"create", "write", "read"}, warmUp |-> TRUE,
      dist |-> "sequential"],
    [backend |-> "mmux", mode |-> {"write", "read"}, warmUp |-> FALSE,
      dist |-> "sequential"],
    [backend |-> "mmux", mode |-> {"write", "read", "destroy"}, warmUp |-> FALSE,
      dist |-> "sequential"],
    [backend |-> "dynamodb", mode |-> {"create", "write", "read"}, warmUp |-> FALSE,
      dist |-> "zipf"],
    [backend |-> "mmux", mode |-> {"write", "read"}, warmUp |-> FALSE,
      dist |-> "zipf"] }

\* A bucket that no worker is to destroy.
KeepBucket ==
  { [backend |-> "s3", mode |-> {"write", "read"}, warmUp |-> FALSE,
      dist |-> "sequential"] }

=============================================================================
