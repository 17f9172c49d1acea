---------------------------- MODULE MCScheduler ----------------------------
(***************************************************************************)
(* Scheduler on small instances.  Each cfg picks the calls and the waits   *)
(* that one part of the kernel is about.                                   *)
(***************************************************************************)
EXTENDS Scheduler

\* An LSB with X and both edges, and an upper bit that changes on its own.
MCVals == {<<"x", 0>>, <<"0", 0>>, <<"1", 0>>, <<"1", 1>>}
MCInitVal == <<"x", 0>>

MCOneBit == {<<"0", 0>>, <<"1", 0>>}
MCLow == <<"0", 0>>

\* @(posedge n or negedge n): two registrations on one net; @(posedge n or m).
MCSensitivities ==
  {{<<n, "Posedge">>, <<n, "Negedge">>} : n \in Nets} \cup
  {{<<n, "Posedge">>} \cup ((Nets \ {n}) \X {"AnyChange"}) : n \in Nets}

\* Nets are only names.
NetSymmetry == Permutations(Nets)
=============================================================================
