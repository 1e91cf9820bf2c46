------------------------------ MODULE MCStdio ------------------------------
(* Two MCP servers share the handler thread, or one has it for itself; the
   agent also names one that is not configured. *)
EXTENDS McpStdio, TLC

CONSTANTS s1, s2, ghost, c1, c2, h1, h2, h3, n1, t1

MCNames == {s1, s2, ghost}
MCServers == {s1, s2}
MCContents == {c1, c2}
MCHandles == {h1, h2, h3}

OneName == {s1, ghost}
OneServer == {s1}
TwoHandles == {h1, h2}

Symmetry == Permutations(MCHandles) \cup Permutations(MCServers)
============================================================================
