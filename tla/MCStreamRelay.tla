--------------------------- MODULE MCStreamRelay ---------------------------
EXTENDS StreamRelay

CONSTANTS r1, r2, t1, t2, p1, p2, a, b

Conf(routes, first, second, chain, pool1, pool2, heavy, attemptsMax, trip, park, well) ==
  [routes |-> routes,
   modes |-> [r \in Requests |-> IF r = r1 THEN first ELSE second],
   chain |-> chain,
   provider |-> [t \in Targets |-> IF t = t1 THEN p1 ELSE p2],
   pool |-> [p \in Providers |-> IF p = p1 THEN pool1 ELSE pool2],
   weight |-> [c \in Creds |-> IF c = heavy THEN 2 ELSE 1],
   max_attempts |-> attemptsMax, threshold |-> trip, failure_threshold |-> park,
   recovers |-> well]

\* One request at a time, on every route, then streamed over two targets; two
\* walks at once, buffered, and one of them streamed; a target that gets well.
MCConfigs == {
  Conf(Routes, BOOLEAN, {}, <<t1, t2>>, <<a, b>>, <<>>, a, 2, 1, 1, NoTarget),
  Conf({"chat"}, {TRUE}, {}, <<t1, t2>>, <<a>>, <<b>>, b, 2, 1, 1, NoTarget),
  Conf({"embeddings"}, {FALSE}, {FALSE}, <<t1>>, <<a>>, <<>>, b, 1, 2, 2, NoTarget),
  Conf({"chat"}, {TRUE}, {FALSE}, <<t1>>, <<a>>, <<>>, b, 1, 1, 2, NoTarget),
  Conf({"chat", "continuation"}, {FALSE}, {FALSE}, <<t1>>, <<a>>, <<>>, b, 1, 2, 1, t1)}
=============================================================================
