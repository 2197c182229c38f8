----------------------------- MODULE SbvNextFree -----------------------------
(***************************************************************************)
(* The search for a free uidNumber or gidNumber behind a Suggest button:   *)
(* suggest_with_hints (src/src/ui/sbv-users-panel.c) picks where to start, *)
(* next_free_thread (src/src/backend/sbv-collisions.c) asks the domain     *)
(* controller for the numbers in use, sorts them and walks the range and   *)
(* the sorted numbers in lockstep.  Arrays count from 1 here.  The names   *)
(* of the specification are the walk's, since SbvIdCheck, whose Scan it    *)
(* carries out, is a specification of its own.                             *)
(***************************************************************************)
EXTENDS Integers, Sequences

CONSTANTS
    Ids,         \* numbers an entry of the directory may have
    Lo, Hi,      \* the configured range
    Hints,       \* next_uid_hint, next_gid_hint; -1: none published
    MaxEntries   \* bound: entries the search returns

ASSUME NextFreeAssumption ==
    /\ Ids \subseteq Int
    /\ Lo \in Nat /\ Hi \in Int     \* sbv_idmap_hints_from_profile
    /\ Hints \subseteq Int
    /\ MaxEntries \in Nat

VARIABLES
    used,        \* numbers in use in the directory (external)
    hint,
    lo,          \* range_min, where the walk starts
    taken,       \* the array of numbers read
    candidate, idx,
    found,
    pc

walk == <<used, hint, lo, taken, candidate, idx, found, pc>>

WalkTypeOK ==
    /\ used \in SUBSET Ids
    /\ hint \in Hints
    /\ lo \in Int
    /\ taken \in Seq(Int)
    /\ candidate \in Int
    /\ idx \in 1 .. Len(taken) + 1
    /\ found \in Int
    /\ pc \in {"search", "sort", "walk", "done", "error"}

(* suggest_with_hints: the walk starts at the hint if that is in range. *)
StartAt(h) == IF h > Lo /\ h <= Hi THEN h ELSE Lo

WalkInit ==
    /\ used \in SUBSET Ids
    /\ hint \in Hints
    /\ lo = StartAt(hint)
    /\ taken = <<>>
    /\ candidate = lo
    /\ idx = 1
    /\ found = -1
    /\ pc = "search"

(* The domain controller returns an entry for each number in range, in any *)
(* order; several entries may have the same number.                        *)
Answers == {a \in UNION {[1 .. n -> used] : n \in 0 .. MaxEntries} :
               {a[i] : i \in DOMAIN a} = {v \in used : lo <= v /\ v <= Hi}}

Search ==
    /\ pc = "search"
    /\ \/ \E a \in Answers : taken' = a /\ pc' = "sort"
       \/ taken' = taken /\ pc' = "error"
    /\ UNCHANGED <<used, hint, lo, candidate, idx, found>>

Sorted(t) == \A i, j \in DOMAIN t : i < j => t[i] <= t[j]

(* g_array_sort with cmp_int64: a permutation in ascending order. *)
Sort ==
    /\ pc = "sort" /\ pc' = "walk"
    /\ \E p \in [DOMAIN taken -> DOMAIN taken] :
          /\ \A j \in DOMAIN taken : \E i \in DOMAIN taken : p[i] = j
          /\ taken' = [i \in DOMAIN taken |-> taken[p[i]]]
          /\ Sorted(taken')
    /\ UNCHANGED <<used, hint, lo, candidate, idx, found>>

Walking == pc = "walk" /\ candidate <= Hi

Smaller == idx <= Len(taken) /\ taken[idx] < candidate
IsTaken == idx <= Len(taken) /\ taken[idx] = candidate

(* while: numbers below the candidate are passed over. *)
Skip ==
    /\ Walking /\ Smaller
    /\ idx' = idx + 1
    /\ UNCHANGED <<used, hint, lo, taken, candidate, found, pc>>

Gap ==
    /\ Walking /\ ~Smaller /\ ~IsTaken
    /\ found' = candidate /\ pc' = "done"
    /\ UNCHANGED <<used, hint, lo, taken, candidate, idx>>

(* Faulty: one more number is passed over after a match. *)
MatchTwice ==
    /\ Walking /\ ~Smaller /\ IsTaken
    /\ candidate' = candidate + 1
    /\ idx' = idx + 2
    /\ UNCHANGED <<used, hint, lo, taken, found, pc>>

(* Faulty: idx moves and the candidate does not. *)
MatchStuck ==
    /\ Walking /\ ~Smaller /\ IsTaken
    /\ UNCHANGED walk

Match ==
    /\ Walking /\ ~Smaller /\ IsTaken
    /\ candidate' = candidate + 1
    /\ idx' = idx + 1
    /\ UNCHANGED <<used, hint, lo, taken, found, pc>>

(* Faulty: the loop stops before the last number of the range. *)
ExhaustedEarly ==
    /\ pc = "walk" /\ candidate >= Hi
    /\ pc' = "done"
    /\ UNCHANGED <<used, hint, lo, taken, candidate, idx, found>>

Exhausted ==
    /\ pc = "walk" /\ candidate > Hi
    /\ pc' = "done"
    /\ UNCHANGED <<used, hint, lo, taken, candidate, idx, found>>

WalkNext == Search \/ Sort \/ Skip \/ Gap \/ Match \/ Exhausted

WalkSpec == WalkInit /\ [][WalkNext]_walk

(* The worker thread runs. *)
WalkFairSpec == WalkSpec /\ WF_walk(WalkNext)

-----------------------------------------------------------------------------
(* "Find the lowest unused uidNumber within [range_min, range_max]         *)
(* (inclusive). ... Returns -1 if the entire range is already taken": the  *)
(* lockstep walk neither misses a gap nor returns a number in use, and     *)
(* what it returns is in the configured range.                             *)
FoundIsFirstGap ==
    pc = "done" =>
        \/ found = -1 /\ \A v \in lo .. Hi : v \in used
        \/ /\ found \in Lo .. Hi
           /\ found >= lo /\ found \notin used
           /\ \A v \in lo .. found - 1 : v \in used

(* The walk ends, whatever the domain controller answered. *)
WalkEnds == <>(pc \in {"done", "error"})

(* What the walk has seen so far: everything below the candidate is in     *)
(* use, and what it passed over in the array is below the candidate.       *)
WalkInv ==
    /\ lo >= Lo
    /\ candidate >= lo
    /\ pc = "search" => taken = <<>>
    /\ pc = "search" => idx = 1
    /\ pc = "sort" => idx = 1
    /\ pc = "search" => candidate = lo
    /\ pc = "sort" => candidate = lo
    /\ pc \in {"search", "sort", "walk"} => found = -1
    /\ pc \in {"sort", "walk"} =>
          \A v \in lo .. Hi : v \in used <=> \E i \in DOMAIN taken : taken[i] = v
    /\ pc = "walk" => Sorted(taken)
    /\ pc = "walk" => \A v \in lo .. candidate - 1 : v \in used
    /\ pc = "walk" => \A i \in 1 .. idx - 1 : taken[i] < candidate

WalkIInv == WalkTypeOK /\ WalkInv /\ FoundIsFirstGap
=============================================================================
