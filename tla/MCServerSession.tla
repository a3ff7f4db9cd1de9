-------------------------- MODULE MCServerSession --------------------------
(* Small instances of ServerSession.                                        *)
EXTENDS ServerSession, TLC

\* Interchangeable goroutines, requests and messages.  Sound for the invariants
\* only, so the runs of temporal properties do not use it.
Symmetry == UNION {Permutations(S) : S \in {Workers, Polls, Noops, Msgs}}

\* Connections are interchangeable too when none of them starts the session.
ProbeSymmetry == Permutations(Conns) \cup Permutations(Noops)
=============================================================================
