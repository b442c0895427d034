----------------------------- MODULE MCKeyState -----------------------------
(* Small instances of KeyState for TLC. *)
EXTENDS KeyState, TLC

CONSTANTS r1, r2, v1

MCRequests == {r1, r2}
MCViewers == {v1}
NoViewers == {}

Interchangeable == Permutations(MCRequests)

\* For the runs whose properties read neither the counters nor the history
\* variable: nothing that is left depends on them.
HealthOnly == <<row, phase, snap, pend, pos, usable, tried, offset, picked, code, stamp>>
=============================================================================
