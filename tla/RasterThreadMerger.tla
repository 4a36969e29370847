------------------------- MODULE RasterThreadMerger -------------------------
(***************************************************************************)
(* The merging of the raster thread into the platform thread, so that      *)
(* frames that show platform views are drawn on the platform thread        *)
(* (fml/raster_thread_merger.cc, fml/shared_thread_merger.cc).  Each       *)
(* rasterizer has a merger with a mutex of its own; the mergers of engines *)
(* that share their threads share what is below, behind another mutex.     *)
(*                                                                         *)
(* A method of a merger looks at the shared state under its own mutex, and *)
(* the shared merger takes its mutex afterwards: two steps, between which  *)
(* only another merger can come.  Here are the second ones, and Enable and *)
(* Disable, which are one.  Whoever calls them says who holds what.        *)
(*                                                                         *)
(* IsMergedUnSafe reads the leases without the second mutex.  A merger     *)
(* that looks in the middle of another's merge finds what was there before *)
(* it, and on the platform thread skips a frame; this is left out, as is a *)
(* map that is read while it grows.                                        *)
(***************************************************************************)
EXTENDS Naturals, FiniteSets

CONSTANTS
  Mergers,  \* RasterThreadMergerIds, one for each rasterizer
  LeaseTerm \* kDefaultMergedLeaseDuration

LeaseAssumption == LeaseTerm \in Nat \ {0}

VARIABLES
  lease,   \* lease_term_by_caller_
  enabled, \* enabled_
  merged,  \* the raster queue is subsumed by the platform queue
  aborted  \* an FML_CHECK failed

mergerVars == <<lease, enabled, merged, aborted>>

MergerInit ==
  /\ lease = << >>
  /\ enabled = TRUE
  /\ merged = FALSE
  /\ aborted = FALSE

IsAllLeaseTermsZero == \A m \in DOMAIN lease : lease[m] = 0
IsMerged == ~IsAllLeaseTermsZero

SetEnabled(value) ==
  /\ enabled' = value
  /\ UNCHANGED <<lease, merged, aborted>>

\* The leases once the caller has a whole one.
Leased(caller) ==
  [m \in DOMAIN lease \cup {caller} |-> IF m = caller THEN LeaseTerm ELSE lease[m]]

\* SharedThreadMerger::MergeWithLease
MergeWithLease(caller) ==
  IF IsMerged
  THEN UNCHANGED mergerVars
  ELSE /\ lease' = Leased(caller)
       /\ merged' = TRUE
       /\ aborted' = merged \* the queues refuse to be merged twice
       /\ UNCHANGED enabled

\* Mutant: the lease is lengthened instead of set.
ExtendLeaseBy(caller) ==
  /\ lease' = [m \in DOMAIN lease \cup {caller} |->
                IF m # caller THEN lease[m]
                ELSE IF m \in DOMAIN lease THEN lease[m] + LeaseTerm ELSE LeaseTerm]
  /\ UNCHANGED <<enabled, merged, aborted>>

\* SharedThreadMerger::ExtendLeaseTo; that the threads are merged is only a
\* debug check.
ExtendLeaseTo(caller) ==
  /\ lease' = Leased(caller)
  /\ UNCHANGED <<enabled, merged, aborted>>

\* UnMergeNowUnSafe, if no merger has a lease.
UnmergeIfUnleased ==
  IF \A m \in DOMAIN lease' : lease'[m] = 0
  THEN /\ merged' = FALSE
       /\ aborted' = ~merged \* the queues refuse to be unmerged twice
  ELSE UNCHANGED <<merged, aborted>>

\* SharedThreadMerger::UnMergeNowIfLastOne
UnMergeNowIfLastOne(caller) ==
  /\ lease' = [m \in DOMAIN lease \ {caller} |-> lease[m]]
  /\ UnmergeIfUnleased
  /\ UNCHANGED enabled

\* Mutant: the queues stay merged when the last lease runs out.
DecrementOnly(caller) ==
  IF caller \in DOMAIN lease /\ lease[caller] = 0
  THEN aborted' = TRUE /\ UNCHANGED <<lease, merged, enabled>>
  ELSE /\ lease' = [m \in DOMAIN lease |->
                      IF m = caller THEN lease[m] - 1 ELSE lease[m]]
       /\ UNCHANGED <<enabled, merged, aborted>>

\* SharedThreadMerger::DecrementLease: a lease that is already spent fails
\* the check.
DecrementLease(caller) ==
  IF caller \in DOMAIN lease /\ lease[caller] = 0
  THEN aborted' = TRUE /\ UNCHANGED <<lease, merged, enabled>>
  ELSE /\ lease' = [m \in DOMAIN lease |->
                      IF m = caller THEN lease[m] - 1 ELSE lease[m]]
       /\ UnmergeIfUnleased
       /\ UNCHANGED enabled

MergerTypeOK ==
  /\ \E known \in SUBSET Mergers : lease \in [known -> 0..LeaseTerm]
  /\ enabled \in BOOLEAN /\ merged \in BOOLEAN /\ aborted \in BOOLEAN
=============================================================================
