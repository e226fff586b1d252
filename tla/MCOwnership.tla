----------------------------- MODULE MCOwnership -----------------------------
\* Two processes at a time, of one installation reached through two hard links: a
\* server, a TUI with the same or another port, clients, two updates, a prune.
EXTENDS Ownership, TLC

CONSTANTS p1, p2, A, B

Runs(kind, root, path, port) ==
  [kind |-> kind, root |-> root, path |-> path, config |-> port]

MCDoes ==
  (p1 :> {Runs("serve", "r1", A, 80), Runs("update", "r1", A, 80),
          Runs("prune", "r1", A, 80)}) @@
  (p2 :> {Runs("tui", "r1", A, 80), Runs("tui", "r1", A, 81), Runs("update", "r1", A, 81),
          Runs("load", "r1", B, None), Runs("load", "r2", B, None)})
=============================================================================
