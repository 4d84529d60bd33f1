------------------------------- MODULE RteTime -------------------------------
(***************************************************************************)
(* The cycle counter of rte_lib/include/rte_time.h: nanoseconds, and parts *)
(* of them, summed up from the readings of a free-running hardware counter *)
(* of fewer than 64 bits that wraps.                                       *)
(***************************************************************************)
EXTENDS Naturals

CONSTANTS CounterBits,  \* cc_mask = 2^CounterBits - 1
          cc_shift,
          NSEC_PER_SEC,
          MaxCycles     \* bound on the cycles that pass

ASSUME TimeAssumption ==
  /\ CounterBits \in Nat \ {0} /\ 2^CounterBits \in Nat \ {0}
  /\ cc_shift \in Nat /\ 2^cc_shift \in Nat \ {0}
  /\ NSEC_PER_SEC \in Nat \ {0}

VARIABLES tc,      \* cycle_last, nsec and nsec_frac of the timecounter
          elapsed  \* history: the cycles that have passed since it was set up

timeVars == <<tc, elapsed>>

cc_mask == (2^CounterBits) - 1
nsec_mask == (2^cc_shift) - 1

\* Mutant: the fraction of the last call is forgotten.
CyclesToNsNoFrac(c, cycles) ==
  [ns |-> cycles \div (2^cc_shift), frac |-> cycles % (nsec_mask + 1)]

\* rte_cyclecounter_cycles_to_ns.
CyclesToNs(c, cycles) ==
  LET ns == cycles + c.nsec_frac
  IN [ns |-> ns \div (2^cc_shift), frac |-> ns % (nsec_mask + 1)]

\* The cycles since the last call: ~(cycle_last - cycle_now) & cc_mask, plus 1,
\* where the counter has wrapped.
CycleDelta(last, now) ==
  IF last <= now THEN now - last ELSE (cc_mask - (last - now)) + 1

\* The counter is read after some cycles, fewer than it takes to wrap twice.
rte_timecounter_update(cycles) ==
  LET now == (tc.cycle_last + cycles) % (cc_mask + 1)
      u == CyclesToNs(tc, CycleDelta(tc.cycle_last, now))
  IN /\ elapsed + cycles <= MaxCycles
     /\ tc' = [cycle_last |-> now, nsec |-> tc.nsec + u.ns, nsec_frac |-> u.frac]
     /\ elapsed' = elapsed + cycles

rte_timespec_to_ns(ts) == (ts.tv_sec * NSEC_PER_SEC) + ts.tv_nsec

rte_ns_to_timespec(nsec) ==
  [tv_sec |-> nsec \div NSEC_PER_SEC, tv_nsec |-> nsec % NSEC_PER_SEC]

TimeInit ==
  /\ \E now \in 0..cc_mask : tc = [cycle_last |-> now, nsec |-> 0, nsec_frac |-> 0]
  /\ elapsed = 0

TimeNext == \E cycles \in 0..cc_mask : rte_timecounter_update(cycles)

TimeSpec == TimeInit /\ [][TimeNext]_timeVars

\* No cycle is lost or counted twice, whenever the counter is read and wherever
\* it wraps: the nanoseconds are those of all the cycles that have passed
\* (rte_timecounter_update), and a timespec made of them says the same.
TimeExact ==
  /\ (tc.nsec * (2^cc_shift)) + tc.nsec_frac = elapsed
  /\ tc.nsec_frac <= nsec_mask
  /\ rte_timespec_to_ns(rte_ns_to_timespec(tc.nsec)) = tc.nsec

=============================================================================
