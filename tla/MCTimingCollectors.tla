------------------------- MODULE MCTimingCollectors -------------------------
(* A timing collector of either kind.  The agent has one reader for each and *)
(* they share nothing: a behaviour is one of a journal collector or one of a *)
(* subprocess collector, chosen at the start.                                *)
EXTENDS JournalCollector, SubprocessCollector

VARIABLE kind

timingVars == <<kind, journalVars, vars>>

\* The other collector stays as it was constructed; what it found then is of
\* no interest.
TimingInit ==
  /\ kind \in {"journal", "subprocess"}
  /\ JournalInit /\ Init
  /\ IF kind = "journal" THEN clock = 0 ELSE opened = 0

TimingNext ==
  \/ kind = "journal" /\ JournalStep /\ UNCHANGED <<kind, vars>>
  \/ kind = "subprocess" /\ Next /\ UNCHANGED <<kind, journalVars>>

\* A collector that is not called owes nothing: the fairness of the other one
\* holds of itself.
TimingSpec ==
  TimingInit /\ [][TimingNext]_timingVars /\ JournalFairness /\ Fairness
=============================================================================
