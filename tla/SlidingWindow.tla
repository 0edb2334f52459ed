--------------------------- MODULE SlidingWindow ---------------------------
(***************************************************************************)
(* The limit of requests by address, in the memory of the process          *)
(* (src/apps/api/src/common/guards/ip-rate-limit.guard.ts): one key of the *)
(* store, whose list may be swept by the hits of other keys.  The list is  *)
(* in the order of time: of the hits of one instant it says how many.      *)
(***************************************************************************)
EXTENDS Integers, FiniteSets

CONSTANTS Limit, Window,
          SweepEvery, SweepAge,  \* how often, and how old a list that is dropped
          MaxClock               \* bound of the runs

ASSUME SlidingWindowAssumption ==
    {Limit, Window, SweepEvery, SweepAge, MaxClock} \subseteq Nat \ {0} /\ Window <= SweepAge

VARIABLES clock,
          hits,       \* the list of the key, as a set of numbered hits
          lastSweep,
          passed      \* the hits of the requests that were let through

slidingWindowVars == <<clock, hits, lastSweep, passed>>

HitRecord == [at : 1..MaxClock, nth : Nat \ {0}]

SlidingWindowTypeOK ==
    /\ clock \in 1..MaxClock /\ lastSweep \in 1..MaxClock
    /\ hits \subseteq HitRecord /\ IsFiniteSet(hits)
    /\ passed \subseteq HitRecord /\ IsFiniteSet(passed)

SlidingWindowInit ==
    clock = 1 /\ hits = {} /\ lastSweep = 1 /\ passed = {}

\* variant InWindow: a window that is one shorter
InShorterWindow(list) == {h \in list : h.at > clock - Window + 1}

InWindow(list) == {h \in list : h.at > clock - Window}

\* The newest is too old, or there is none.
Stale(list) == \A h \in list : h.at < clock - SweepAge

NewHit == [at |-> clock, nth |-> Cardinality({h \in hits : h.at = clock}) + 1]

SweepDue == clock - lastSweep > SweepEvery

\* A sweep that a hit starts comes after its own key has the hit.
Hit ==
    /\ hits' = InWindow(hits) \cup {NewHit}
    /\ lastSweep' = IF SweepDue THEN clock ELSE lastSweep
    /\ UNCHANGED clock

\* A refused request has been counted too.
CanActivate ==
    /\ Hit
    /\ passed' = IF Cardinality(hits') > Limit THEN passed ELSE passed \cup {NewHit}

\* Another key is hit.
Sweep ==
    /\ SweepDue
    /\ lastSweep' = clock
    /\ hits' = IF Stale(hits) THEN {} ELSE hits
    /\ UNCHANGED <<clock, passed>>

Elapse ==
    /\ clock < MaxClock
    /\ clock' = clock + 1
    /\ UNCHANGED <<hits, lastSweep, passed>>

SlidingWindowNext ==
    \/ Cardinality(hits) < Limit + 2 /\ CanActivate
    \/ Sweep \/ Elapse

SlidingWindowSpec == SlidingWindowInit /\ [][SlidingWindowNext]_slidingWindowVars

\* Whatever the store has dropped, no window lets more than its limit through.
NoWindowOverflows ==
    \A from \in 0..clock :
        Cardinality({h \in passed : h.at > from /\ h.at <= from + Window}) <= Limit

=============================================================================
