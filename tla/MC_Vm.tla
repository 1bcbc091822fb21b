------------------------------- MODULE MC_Vm -------------------------------
(* The v environment with a 2-bit LFSR: three frames, two pages.  Both pages faulting
   in takes the freelist to its last node, where freelist_tail becomes 0. *)
EXTENDS VmBoot

MCCodePages == {1}
MCDataPages == {2}
MCValues == {0, 1}
MCExitCodes == {1, 5}

\* The code's own 63 pages and 6 bits.
Real == INSTANCE VmPager WITH MaxTestPages <- 63, LfsrBits <- 6

RealRun(seed) ==
  LET x[k \in 0 .. 62] == IF k = 0 THEN seed ELSE Real!LfsrNext(x[k - 1]) IN x

ASSUME RealPeriod ==
  \A seed \in 1 .. 63 : {RealRun(seed)[k] : k \in 0 .. 62} = 1 .. 63
=============================================================================
