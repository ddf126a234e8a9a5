----------------------------- MODULE MCBenchOnline -----------------------------
EXTENDS BenchOnline

Line(sessions, rounds, concurrency, scans, sharegpt) ==
  [sessions |-> sessions, rounds |-> rounds, concurrency |-> concurrency,
   scan_sessions |-> scans, sharegpt |-> sharegpt]

\* Fewer permits than tasks, twice as many requests as tasks, and the
\* degenerate loads: no rounds, too little data.
MCArguments ==
  {Line(2, 2, 1, 1, FALSE), Line(3, 2, 2, 1, FALSE), Line(2, 2, 2, 1, TRUE),
   Line(1, 3, 1, 1, TRUE), Line(1, 0, 1, 1, FALSE), Line(3, 1, 1, 0, TRUE)}

\* Two usable conversations, one with blank turns only, and two too short.
MCData ==
  <<[turns |-> 4, long |-> TRUE, asked |-> 2], [turns |-> 5, long |-> TRUE, asked |-> 0],
    [turns |-> 3, long |-> TRUE, asked |-> 3], [turns |-> 6, long |-> FALSE, asked |-> 6]>>
================================================================================
