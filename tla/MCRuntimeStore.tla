---------------------------- MODULE MCRuntimeStore ----------------------------
(* Small instances of RuntimeStore for TLC.                                *)
EXTENDS RuntimeStore, TLC

CONSTANTS p1, p2, rel, py

\* The release runtime is superseded by the Python one.
ReleaseIsOld == [r \in Runtimes |-> IF r = rel THEN py ELSE None]

\* A terminal session that serves and edits, and a command line that maintains.
Roles == [p \in Procs |->
            IF p = p1 THEN {"install", "select", "unselect", "pin", "unpin", "load"}
            ELSE {"install", "remove", "clean", "prune"}]
=============================================================================
