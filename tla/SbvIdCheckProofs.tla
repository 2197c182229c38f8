--------------------------- MODULE SbvIdCheckProofs ---------------------------
(* Proofs about SbvIdCheck, for any set of users and of numbers and any    *)
(* number of checks in flight; about SbvNextFree, for every range, set of  *)
(* numbers in use and answer; and that the walk of the second carries out  *)
(* the scan of the first.                                                  *)
EXTENDS SbvIdCheckProps, SbvNextFree, TLAPS

WF == INSTANCE WellFoundedInduction

(* The entry belongs to a user: without one nothing is typed into it, its  *)
(* timer is not armed and nothing is to be suggested for it.               *)
EntryHasUser ==
    selected = NoUser => ~typed /\ ~timer /\ suggest.step = "idle"

(* A warning that is not about the entry will be replaced, and a number    *)
(* that was not checked will be: the timer is armed, or a check of the     *)
(* number in the entry is in flight.                                       *)
WarningIsReplaced == label.hits # {} /\ label.about # entry => ~Quiet
TypedIsAsked == typed /\ entry \in Id /\ label.about # entry => ~Quiet

IInv == TypeOK /\ EntryHasUser /\ WarningIsReplaced /\ TypedIsAsked

-----------------------------------------------------------------------------
(* A set of numbers has a least one: the order of the numbers is well      *)
(* founded.                                                                *)
LEMMA LeastNumber ==
    ASSUME NEW S \in SUBSET Nat, S # {}
    PROVE  \E x \in S : \A y \in S : x <= y
<1> DEFINE R == WF!OpToRel(<, Nat)
<1>1. \A x, y \in Nat : x < y => <<x, y>> \in R
  BY DEF WF!OpToRel
<1>2. WF!IsWellFoundedOn(R, Nat)
  BY WF!NatLessThanWellFounded
<1> HIDE DEF R
<1>3. PICK x \in S : \A y \in S : ~ (<<y, x>> \in R)
  BY <1>2, WF!WFMin
<1>4. ASSUME NEW y \in S PROVE x <= y
  <2>1. ~(y < x)
    BY <1>1, <1>3, y \in Nat, x \in Nat, Zenon
  <2>2. x \in Nat /\ y \in Nat
    OBVIOUS
  <2> HIDE <1>1, <1>3
  <2> QED BY <2>1, <2>2
<1> QED BY <1>4

LEMMA MinIsMember ==
    ASSUME NEW S \in SUBSET Nat, S # {} PROVE Min(S) \in S
BY LeastNumber DEF Min

LEMMA BagDomains ==
    ASSUME NEW B, NEW x
    PROVE  /\ DOMAIN BagAdd(B, x) = DOMAIN B \cup {x}
           /\ DOMAIN BagRemove(B, x) \subseteq DOMAIN B
           /\ DOMAIN B \subseteq DOMAIN BagRemove(B, x) \cup {x}
<1>1. DOMAIN BagAdd(B, x) = DOMAIN B \cup {x}
  BY DEF BagAdd
<1>2. /\ DOMAIN BagRemove(B, x) \subseteq DOMAIN B
      /\ DOMAIN B \subseteq DOMAIN BagRemove(B, x) \cup {x}
  <2>1. CASE x \notin DOMAIN B
    BY <2>1 DEF BagRemove
  <2>2. CASE x \in DOMAIN B /\ B[x] = 1
    BY <2>2 DEF BagRemove
  <2>3. CASE x \in DOMAIN B /\ B[x] # 1
    BY <2>3 DEF BagRemove
  <2> QED BY <2>1, <2>2, <2>3
<1> QED BY <1>1, <1>2

LEMMA InitKeeps == ASSUME Init PROVE IInv
<1>1. DOMAIN EmptyBag = {}
  BY DEF EmptyBag, SetToBag
<1>2. DOMAIN checks \subseteq Check
  BY <1>1 DEF Init
<1>3. writes \in 0 .. MaxWrites
  BY IdCheckAssumption DEF Init
<1>4. TypeOK
  BY <1>2, <1>3 DEF Init, TypeOK, IdOrNone, Clear, Idle
<1> QED BY <1>4 DEF Init, IInv, EntryHasUser, WarningIsReplaced, TypedIsAsked,
        Clear, Idle

-----------------------------------------------------------------------------
(* The handlers that put something into the entry. *)

(* Changed arms the timer: nothing is at rest. *)
LEMMA ChangedKeeps ==
    ASSUME IInv, NEW v \in IdOrNone, selected # NoUser, Changed(v),
           \/ UNCHANGED suggest
           \/ suggest' = Idle,
           UNCHANGED <<Directory, selected, label, checks>>
    PROVE  IInv'
<1>1. TypeOK'
  BY DEF IInv, TypeOK, Changed, Directory, Idle, IdOrNone
<1>2. EntryHasUser' /\ timer'
  BY DEF EntryHasUser, Changed
<1> QED BY <1>1, <1>2 DEF IInv, WarningIsReplaced, TypedIsAsked, Quiet

(* What is loaded was not typed, and its label is clear. *)
LEMMA LoadKeeps ==
    ASSUME IInv, NEW u \in User, NEW id \in IdOrNone, LoadIntoDetail(u, id),
           rows' \in [User -> IdOrNone],
           UNCHANGED <<uid, checks, suggest, writes>>
    PROVE  IInv'
<1>1. TypeOK'
  BY DEF IInv, TypeOK, LoadIntoDetail, Clear, IdOrNone
<1>2. selected' # NoUser /\ ~typed' /\ label'.hits = {}
  BY IdCheckAssumption DEF LoadIntoDetail, Clear
<1> QED BY <1>1, <1>2 DEF IInv, EntryHasUser, WarningIsReplaced, TypedIsAsked

LEMMA ReloadKeeps == ASSUME IInv, Reload PROVE IInv'
<1>1. CASE selected = NoUser
  BY <1>1 DEF Reload, Pane, IInv, TypeOK, EntryHasUser, WarningIsReplaced,
     TypedIsAsked, Quiet, Asking
<1>2. CASE selected # NoUser
  <2>1. selected \in User /\ uid \in [User -> IdOrNone]
    BY <1>2 DEF IInv, TypeOK
  <2> QED BY <1>2, <2>1, LoadKeeps DEF Reload
<1> QED BY <1>1, <1>2

LEMMA WriteKeeps ==
    ASSUME IInv, NEW u \in User, NEW id \in IdOrNone, Write(u, id)
    PROVE  IInv'
<1>1. TypeOK'
  BY IdCheckAssumption DEF Write, Pane, IInv, TypeOK
<1> QED BY <1>1 DEF Write, Pane, IInv, EntryHasUser, WarningIsReplaced,
        TypedIsAsked, Quiet, Asking

-----------------------------------------------------------------------------
(* The check. *)

LEMMA FireKeeps == ASSUME IInv, Fire PROVE IInv'
<1> DEFINE c == [id |-> entry, exclude |-> selected, step |-> "queued"]
<1>1. selected \in User
  BY DEF Fire, IInv, EntryHasUser, TypeOK
<1>2. CASE entry = NoId /\ label' = Clear /\ UNCHANGED checks
  <2>1. NoId \notin Id
    BY IdCheckAssumption
  <2> QED BY <1>1, <1>2, <2>1 DEF Fire, Directory, Clear, IdOrNone, IInv, TypeOK,
             EntryHasUser, WarningIsReplaced, TypedIsAsked
<1>3. CASE entry # NoId /\ checks' = BagAdd(checks, c) /\ UNCHANGED label
  <2>1. DOMAIN checks' = DOMAIN checks \cup {c}
    BY <1>3, BagDomains
  <2>2. c \in Check /\ c.id = entry
    BY <1>1, <1>3 DEF Check, IInv, TypeOK, IdOrNone
  <2>3. TypeOK'
    BY <2>1, <2>2, <1>3 DEF Fire, Directory, IInv, TypeOK
  <2>4. Asking'
    BY <2>1, <2>2 DEF Asking, Fire
  <2> QED BY <2>3, <2>4, <1>1, IdCheckAssumption DEF Fire, Directory, IInv,
          EntryHasUser, WarningIsReplaced, TypedIsAsked, Quiet
<1> QED BY <1>2, <1>3 DEF Fire

(* An answer is about the number that was asked about. *)
LEMMA RunCheckKeeps ==
    ASSUME IInv, NEW c \in DOMAIN checks, RunCheck(c) PROVE IInv'
<1>1. PICK hits \in SUBSET User : checks' = Answered(c, hits)
  BY DEF RunCheck, Holders
<1> DEFINE d == [id |-> c.id, hits |-> hits, step |-> "done"]
<1>2. c \in Check
  BY DEF IInv, TypeOK
<1>3. d \in Check /\ d.id = c.id
  BY <1>2 DEF Check
<1>4. /\ DOMAIN checks' \subseteq DOMAIN checks \cup {d}
      /\ DOMAIN checks \subseteq DOMAIN checks' \cup {c}
      /\ d \in DOMAIN checks'
  <2> DEFINE B == BagRemove(checks, c)
  <2>1. checks' = BagAdd(B, d)
    BY <1>1 DEF Answered
  <2>2. DOMAIN checks' = DOMAIN B \cup {d}
    BY <2>1, BagDomains
  <2> QED BY <2>2, BagDomains
<1>5. TypeOK'
  BY <1>3, <1>4 DEF RunCheck, Directory, Pane, IInv, TypeOK
<1>6. Asking => Asking'
  BY <1>3, <1>4 DEF Asking, RunCheck, Pane
<1> QED BY <1>5, <1>6 DEF RunCheck, Directory, Pane, IInv, EntryHasUser,
        WarningIsReplaced, TypedIsAsked, Quiet

(* An answer that is dropped is not the one that the entry waits for. *)
LEMMA CheckDoneKeeps ==
    ASSUME IInv, NEW c \in DOMAIN checks, CheckDone(c) PROVE IInv'
<1>1. /\ DOMAIN checks' \subseteq DOMAIN checks
      /\ DOMAIN checks \subseteq DOMAIN checks' \cup {c}
  BY BagDomains DEF CheckDone
<1>2. c.id \in Id /\ c.hits \in SUBSET User
  BY DEF CheckDone, IInv, TypeOK, Check
<1>3. TypeOK'
  BY <1>1, <1>2 DEF CheckDone, Rendered, Directory, IInv, TypeOK, IdOrNone
<1>4. EntryHasUser'
  BY DEF CheckDone, IInv, EntryHasUser
<1>5. CASE c.id = entry
  BY <1>3, <1>4, <1>5 DEF CheckDone, Rendered, IInv, WarningIsReplaced, TypedIsAsked
<1>6. CASE c.id # entry
  <2>1. Asking => Asking'
    BY <1>1, <1>6 DEF Asking, CheckDone
  <2> QED BY <1>3, <1>4, <1>6, <2>1 DEF CheckDone, IInv, WarningIsReplaced,
          TypedIsAsked, Quiet
<1> QED BY <1>5, <1>6

-----------------------------------------------------------------------------
(* The suggestion. *)

LEMMA SuggestKeeps ==
    ASSUME IInv, ClickSuggest \/ HintsDone \/ Scan
    PROVE  IInv'
<1>1. suggest' \in [step : {"idle", "hints", "scan", "done"}, found : IdOrNone]
  <2>1. CASE ClickSuggest
    BY <2>1 DEF ClickSuggest, Idle, IdOrNone
  <2>2. CASE HintsDone
    BY <2>2 DEF HintsDone, IInv, TypeOK
  <2>3. CASE Scan
    <3>1. ASSUME NEW start PROVE LowestFree(start) \in IdOrNone
      <4>1. FreeFrom(start) # {} => Min(FreeFrom(start)) \in FreeFrom(start)
        BY MinIsMember, IdCheckAssumption DEF FreeFrom
      <4> QED BY <4>1 DEF LowestFree, FreeFrom, IdOrNone
    <3> QED BY <3>1, <2>3 DEF Scan, IdOrNone
  <2> QED BY <2>1, <2>2, <2>3
<1>2. selected # NoUser
  BY DEF ClickSuggest, HintsDone, Scan, IInv, EntryHasUser
<1>3. UNCHANGED <<Directory, Pane, checks>>
  BY DEF ClickSuggest, HintsDone, Scan
<1>4. TypeOK'
  BY <1>1, <1>3 DEF Directory, Pane, IInv, TypeOK
<1> QED BY <1>2, <1>3, <1>4 DEF Pane, IInv, EntryHasUser, WarningIsReplaced,
        TypedIsAsked, Quiet, Asking

LEMMA SuggestDoneKeeps == ASSUME IInv, SuggestDone PROVE IInv'
<1>1. selected # NoUser
  BY DEF SuggestDone, IInv, EntryHasUser
<1>2. CASE suggest.found = NoId
  <2>1. UNCHANGED <<Directory, selected, entry, typed, timer, label, checks>>
        /\ suggest' = Idle
    BY <1>2 DEF SuggestDone
  <2>2. TypeOK'
    BY <2>1 DEF Directory, Idle, IdOrNone, IInv, TypeOK
  <2> QED BY <2>1, <2>2, <1>1 DEF IInv, EntryHasUser, WarningIsReplaced,
          TypedIsAsked, Quiet, Asking
<1>3. CASE suggest.found # NoId
  <2>1. suggest.found \in IdOrNone
    BY DEF IInv, TypeOK
  <2> QED BY <1>1, <1>3, <2>1, ChangedKeeps DEF SuggestDone
<1> QED BY <1>2, <1>3

-----------------------------------------------------------------------------
LEMMA NextKeeps == ASSUME IInv, [Next]_vars PROVE IInv'
<1>1. ASSUME NEW v \in IdOrNone, Type(v) PROVE IInv'
  BY <1>1, ChangedKeeps DEF Type
<1>2. ASSUME NEW u \in User, Select(u) PROVE IInv'
  <2>1. rows[u] \in IdOrNone /\ rows' \in [User -> IdOrNone]
    BY <1>2 DEF Select, Directory, IInv, TypeOK
  <2> QED BY <1>2, <2>1, LoadKeeps DEF Select, Directory
<1>3. CASE UNCHANGED vars
  BY <1>3 DEF vars, IInv, TypeOK, EntryHasUser, WarningIsReplaced, TypedIsAsked,
     Quiet, Asking
<1> QED BY <1>1, <1>2, <1>3, ReloadKeeps, WriteKeeps, FireKeeps, RunCheckKeeps,
        CheckDoneKeeps, SuggestKeeps, SuggestDoneKeeps DEF Next

THEOREM Invariant == Spec => []IInv
BY InitKeeps, NextKeeps, PTL DEF Spec

(* The types of the state, in which a check in flight excludes a user and  *)
(* a suggestion is a number of the range or none.                          *)
THEOREM TypeCorrect == Spec => []TypeOK
<1>1. IInv => TypeOK
  BY DEF IInv
<1> QED BY <1>1, Invariant, PTL

(* on_collision_done: a warning that stays is about the number in the      *)
(* entry, for any number of checks in flight and any order of answers.     *)
THEOREM WarningHolds == Spec => []WarningIsAboutEntry
<1>1. IInv => WarningIsAboutEntry
  BY DEF IInv, WarningIsReplaced, WarningIsAboutEntry
<1> QED BY <1>1, Invariant, PTL

(* The debounce of the entry: what was typed or suggested has been checked *)
(* when the pane is at rest.                                               *)
THEOREM TypedHolds == Spec => []TypedIsChecked
<1>1. IInv => TypedIsChecked
  BY DEF IInv, TypedIsAsked, TypedIsChecked
<1> QED BY <1>1, Invariant, PTL

-----------------------------------------------------------------------------
(* The walk of next_free_thread. *)

(* An answer of the domain controller is a sequence of the numbers in use  *)
(* in the range, and has all of them.                                      *)
LEMMA AnswerFacts ==
    ASSUME WalkTypeOK, NEW a \in Answers
    PROVE  /\ a \in Seq(Int)
           /\ \A v \in lo .. Hi : v \in used <=> \E i \in DOMAIN a : a[i] = v
<1>1. PICK n \in 0 .. MaxEntries : a \in [1 .. n -> used]
  BY DEF Answers
<1>2. a \in Seq(Int)
  <2>1. n \in Nat /\ used \subseteq Int
    BY NextFreeAssumption DEF WalkTypeOK
  <2>2. a \in [1 .. n -> Int]
    BY <1>1, <2>1
  <2> QED BY <2>1, <2>2
<1>3. {a[i] : i \in DOMAIN a} = {v \in used : lo <= v /\ v <= Hi}
  BY DEF Answers
<1>4. ASSUME NEW v \in lo .. Hi
      PROVE  v \in used <=> \E i \in DOMAIN a : a[i] = v
  <2>1. v \in Int /\ lo <= v /\ v <= Hi
    BY NextFreeAssumption DEF WalkTypeOK
  <2>2. v \in used <=> v \in {w \in used : lo <= w /\ w <= Hi}
    BY <2>1
  <2> QED BY <1>3, <2>2
<1> QED BY <1>2, <1>4

(* When the number at idx is above the candidate, or there is none, the    *)
(* candidate is not in the array: what precedes idx is below it and what   *)
(* follows is no smaller than the number at idx.                           *)
LEMMA GapIsFree ==
    ASSUME WalkTypeOK, pc = "walk", Sorted(taken), ~Smaller, ~IsTaken,
           \A i \in 1 .. idx - 1 : taken[i] < candidate,
           NEW i \in DOMAIN taken
    PROVE  taken[i] # candidate
<1>1. /\ DOMAIN taken = 1 .. Len(taken)
      /\ Len(taken) \in Nat
      /\ idx \in 1 .. Len(taken) + 1
      /\ candidate \in Int
      /\ \A j \in DOMAIN taken : taken[j] \in Int
  BY DEF WalkTypeOK
<1>2. CASE i < idx
  <2>1. i \in 1 .. idx - 1
    BY <1>1, <1>2
  <2> QED BY <2>1, <1>1
<1>3. CASE i >= idx
  <2>1. idx \in DOMAIN taken /\ idx <= Len(taken)
    BY <1>1, <1>3
  <2>2. taken[idx] > candidate
    BY <1>1, <2>1 DEF Smaller, IsTaken
  <2>3. taken[idx] <= taken[i]
    <3>1. CASE i = idx
      BY <3>1, <1>1, <2>1
    <3>2. CASE i > idx
      BY <3>2, <1>1, <2>1 DEF Sorted
    <3> QED BY <1>1, <1>3, <3>1, <3>2
  <2> QED BY <1>1, <2>2, <2>3
<1> QED BY <1>1, <1>2, <1>3

(* The start of the walk is not below the configured range. *)
LEMMA StartFacts ==
    ASSUME NEW h \in Int
    PROVE  StartAt(h) \in Int /\ StartAt(h) >= Lo
BY NextFreeAssumption DEF StartAt

LEMMA InitInv == WalkInit => WalkIInv
<1> SUFFICES ASSUME WalkInit PROVE WalkIInv
  OBVIOUS
<1>1. hint \in Int
  BY NextFreeAssumption DEF WalkInit
<1>2. lo \in Int /\ lo >= Lo
  BY <1>1, StartFacts DEF WalkInit
<1>3. WalkTypeOK
  BY <1>2 DEF WalkInit, WalkTypeOK
<1>4. WalkInv
  BY <1>2 DEF WalkInit, WalkInv
<1>5. FoundIsFirstGap
  BY DEF WalkInit, FoundIsFirstGap
<1> QED BY <1>3, <1>4, <1>5 DEF WalkIInv

(* Search: the array holds the answer, the walk has not begun. *)
LEMMA SearchInv == WalkIInv /\ Search => WalkIInv'
<1> SUFFICES ASSUME WalkIInv, Search PROVE WalkIInv'
  OBVIOUS
<1> USE DEF WalkIInv
<1>1. CASE pc' = "error" /\ taken' = taken
  BY <1>1 DEF Search, WalkTypeOK, WalkInv, FoundIsFirstGap
<1>2. ASSUME NEW a \in Answers, taken' = a, pc' = "sort" PROVE WalkIInv'
  <2>1. /\ a \in Seq(Int)
        /\ \A v \in lo .. Hi : v \in used <=> \E i \in DOMAIN a : a[i] = v
    BY AnswerFacts
  <2>2. idx = 1 /\ Len(a) \in Nat
    BY <2>1 DEF Search, WalkInv
  <2>3. WalkTypeOK'
    BY <1>2, <2>1, <2>2 DEF Search, WalkTypeOK
  <2>4. WalkInv'
    BY <1>2, <2>1, <2>2 DEF Search, WalkInv
  <2>5. FoundIsFirstGap'
    BY <1>2 DEF FoundIsFirstGap
  <2> QED BY <2>3, <2>4, <2>5
<1> QED BY <1>1, <1>2 DEF Search

(* Sort: a permutation of the array has the same numbers. *)
LEMMA SortInv == WalkIInv /\ Sort => WalkIInv'
<1> SUFFICES ASSUME WalkIInv, Sort PROVE WalkIInv'
  OBVIOUS
<1> USE DEF WalkIInv
<1>1. PICK p \in [DOMAIN taken -> DOMAIN taken] :
          /\ \A j \in DOMAIN taken : \E i \in DOMAIN taken : p[i] = j
          /\ taken' = [i \in DOMAIN taken |-> taken[p[i]]]
          /\ Sorted(taken')
  BY DEF Sort
<1>2. /\ pc = "sort" /\ pc' = "walk"
      /\ UNCHANGED <<used, hint, lo, candidate, idx, found>>
  BY DEF Sort
<1>3. taken \in Seq(Int) /\ DOMAIN taken = 1 .. Len(taken) /\ Len(taken) \in Nat
  BY DEF WalkTypeOK
<1>4. taken' \in Seq(Int) /\ Len(taken') = Len(taken) /\ DOMAIN taken' = DOMAIN taken
  <2> HIDE DEF WalkIInv
  <2>1. \A i \in 1 .. Len(taken) : taken[p[i]] \in Int
    <3>1. \A i \in 1 .. Len(taken) : p[i] \in 1 .. Len(taken)
      BY <1>3
    <3>2. \A j \in 1 .. Len(taken) : taken[j] \in Int
      BY <1>3
    <3> QED BY <3>1, <3>2
  <2>2. taken' \in [1 .. Len(taken) -> Int]
    BY <1>1, <1>3, <2>1
  <2> QED BY <1>3, <2>2
<1>5. \A v \in Int : (\E i \in DOMAIN taken' : taken'[i] = v)
                        <=> (\E i \in DOMAIN taken : taken[i] = v)
  <2>1. ASSUME NEW v \in Int, NEW i \in DOMAIN taken', taken'[i] = v
        PROVE  \E j \in DOMAIN taken : taken[j] = v
    BY <1>1, <1>4, <2>1
  <2>2. ASSUME NEW v \in Int, NEW j \in DOMAIN taken, taken[j] = v
        PROVE  \E i \in DOMAIN taken' : taken'[i] = v
    <3>1. PICK i \in DOMAIN taken : p[i] = j
      BY <1>1
    <3> QED BY <1>1, <1>4, <2>2, <3>1
  <2> QED BY <2>1, <2>2
<1>6. WalkTypeOK'
  BY <1>2, <1>4 DEF WalkTypeOK
<1>7. WalkInv'
  <2>1. \A v \in lo .. Hi : v \in used <=> \E i \in DOMAIN taken' : taken'[i] = v
    <3>1. \A v \in lo .. Hi : v \in Int
      BY NextFreeAssumption DEF WalkTypeOK
    <3> QED BY <1>2, <1>5, <3>1 DEF WalkInv
  <2>2. idx = 1 /\ candidate = lo
    BY <1>2 DEF WalkInv
  <2>3. Sorted(taken')
    BY <1>1
  <2>4. lo .. candidate - 1 = {} /\ 1 .. idx - 1 = {}
    BY <2>2 DEF WalkTypeOK
  <2>5. Sorted(taken)'
    BY <2>3 DEF Sorted
  <2> QED BY <1>2, <2>1, <2>2, <2>4, <2>5 DEF WalkInv
<1>8. FoundIsFirstGap'
  BY <1>2 DEF FoundIsFirstGap
<1> QED BY <1>6, <1>7, <1>8

(* Skip: the number passed over is below the candidate. *)
LEMMA SkipInv == WalkIInv /\ Skip => WalkIInv'
<1> SUFFICES ASSUME WalkIInv, Skip PROVE WalkIInv'
  OBVIOUS
<1> USE DEF WalkIInv
<1>1. /\ pc = "walk" /\ idx \in 1 .. Len(taken) /\ taken[idx] < candidate
      /\ idx' = idx + 1
      /\ UNCHANGED <<used, hint, lo, taken, candidate, found, pc>>
  BY DEF Skip, Walking, Smaller, WalkTypeOK
<1>2. WalkTypeOK'
  BY <1>1 DEF WalkTypeOK
<1>3. \A i \in 1 .. idx' - 1 : taken[i] < candidate
  <2>1. \A i \in 1 .. idx' - 1 : i \in 1 .. idx - 1 \/ i = idx
    BY <1>1
  <2> QED BY <1>1, <2>1 DEF WalkInv
<1>4. WalkInv'
  BY <1>1, <1>3 DEF WalkInv, Sorted
<1>5. FoundIsFirstGap'
  BY <1>1 DEF FoundIsFirstGap
<1> QED BY <1>2, <1>4, <1>5

(* Gap: the candidate is free and everything below it is in use. *)
LEMMA GapInv == WalkIInv /\ Gap => WalkIInv'
<1> SUFFICES ASSUME WalkIInv, Gap PROVE WalkIInv'
  OBVIOUS
<1> USE DEF WalkIInv
<1>1. /\ pc = "walk" /\ pc' = "done" /\ candidate <= Hi
      /\ found' = candidate /\ ~Smaller /\ ~IsTaken
      /\ UNCHANGED <<used, hint, lo, taken, candidate, idx>>
  BY DEF Gap, Walking
<1>2. WalkTypeOK'
  BY <1>1 DEF WalkTypeOK
<1>3. WalkInv'
  BY <1>1 DEF WalkInv
<1>4. candidate \in lo .. Hi /\ candidate >= lo /\ candidate \in Lo .. Hi
  BY <1>1, NextFreeAssumption DEF WalkTypeOK, WalkInv
<1>5. \A i \in DOMAIN taken : taken[i] # candidate
  BY <1>1, GapIsFree DEF WalkInv
<1>6. candidate \notin used
  BY <1>1, <1>4, <1>5 DEF WalkInv
<1>7. FoundIsFirstGap'
  BY <1>1, <1>4, <1>6 DEF FoundIsFirstGap, WalkInv
<1> QED BY <1>2, <1>3, <1>7

(* Match: the candidate is in use, and so is all that lies below the next. *)
LEMMA MatchInv == WalkIInv /\ Match => WalkIInv'
<1> SUFFICES ASSUME WalkIInv, Match PROVE WalkIInv'
  OBVIOUS
<1> USE DEF WalkIInv
<1>1. /\ pc = "walk" /\ candidate <= Hi
      /\ idx \in 1 .. Len(taken) /\ taken[idx] = candidate
      /\ candidate' = candidate + 1 /\ idx' = idx + 1
      /\ UNCHANGED <<used, hint, lo, taken, found, pc>>
  BY DEF Match, Walking, IsTaken, WalkTypeOK
<1>2. WalkTypeOK'
  BY <1>1 DEF WalkTypeOK
<1>3. candidate \in used
  <2>1. candidate \in lo .. Hi
    BY <1>1, NextFreeAssumption DEF WalkTypeOK, WalkInv
  <2>2. idx \in DOMAIN taken
    BY <1>1 DEF WalkTypeOK
  <2> QED BY <1>1, <2>1, <2>2 DEF WalkInv
<1>4. \A v \in lo .. candidate' - 1 : v \in used
  <2>1. \A v \in lo .. candidate' - 1 : v \in lo .. candidate - 1 \/ v = candidate
    BY <1>1 DEF WalkTypeOK
  <2> QED BY <1>1, <1>3, <2>1 DEF WalkInv
<1>5. \A i \in 1 .. idx' - 1 : taken[i] < candidate'
  <2>1. ASSUME NEW i \in 1 .. idx' - 1 PROVE taken[i] < candidate'
    <3>1. i \in 1 .. idx - 1 \/ i = idx
      BY <1>1
    <3>2. taken[i] \in Int /\ candidate \in Int
      BY <1>1, <3>1 DEF WalkTypeOK
    <3>3. CASE i = idx
      BY <1>1, <3>2, <3>3
    <3>4. CASE i \in 1 .. idx - 1
      BY <1>1, <3>2, <3>4 DEF WalkInv
    <3> QED BY <3>1, <3>3, <3>4
  <2> QED BY <2>1
<1>6. candidate' >= lo
  BY <1>1 DEF WalkTypeOK, WalkInv
<1>7. WalkInv'
  BY <1>1, <1>4, <1>5, <1>6 DEF WalkInv, Sorted
<1>8. FoundIsFirstGap'
  BY <1>1 DEF FoundIsFirstGap
<1> QED BY <1>2, <1>7, <1>8

(* Exhausted: the whole range is in use. *)
LEMMA ExhaustedInv == WalkIInv /\ Exhausted => WalkIInv'
<1> SUFFICES ASSUME WalkIInv, Exhausted PROVE WalkIInv'
  OBVIOUS
<1> USE DEF WalkIInv
<1>1. /\ pc = "walk" /\ pc' = "done" /\ candidate > Hi
      /\ UNCHANGED <<used, hint, lo, taken, candidate, idx, found>>
  BY DEF Exhausted
<1>2. WalkTypeOK'
  BY <1>1 DEF WalkTypeOK
<1>3. WalkInv'
  BY <1>1 DEF WalkInv
<1>4. found = -1
  BY <1>1 DEF WalkInv
<1>5. \A v \in lo .. Hi : v \in used
  <2>1. \A v \in lo .. Hi : v \in lo .. candidate - 1
    BY <1>1, NextFreeAssumption DEF WalkTypeOK
  <2> QED BY <1>1, <2>1 DEF WalkInv
<1>6. FoundIsFirstGap'
  BY <1>1, <1>4, <1>5 DEF FoundIsFirstGap
<1> QED BY <1>2, <1>3, <1>6

(* WalkIInv is an inductive invariant of the search: every action of           *)
(* next_free_thread preserves it.                                          *)
THEOREM InvHolds == WalkSpec => []WalkIInv
<1>1. WalkIInv /\ [WalkNext]_walk => WalkIInv'
  <2> SUFFICES ASSUME WalkIInv, [WalkNext]_walk PROVE WalkIInv'
    OBVIOUS
  <2>1. CASE UNCHANGED walk
    BY <2>1 DEF walk, WalkIInv, WalkTypeOK, WalkInv, FoundIsFirstGap, Sorted
  <2> QED BY <2>1, SearchInv, SortInv, SkipInv, GapInv, MatchInv, ExhaustedInv
          DEF WalkNext
<1> QED BY <1>1, InitInv, PTL DEF WalkSpec

(* next_free_thread returns the lowest number of its range that is not in  *)
(* use, and -1 only when all of them are, for every range and every        *)
(* directory.                                                              *)
THEOREM FoundCorrect == WalkSpec => []FoundIsFirstGap
<1>1. WalkIInv => FoundIsFirstGap
  BY DEF WalkIInv
<1> QED BY <1>1, InvHolds, PTL

(* The index never leaves the array by more than one, so that the bounds   *)
(* test of the walk is enough.                                             *)
THEOREM WalkTypeCorrect == WalkSpec => []WalkTypeOK
<1>1. WalkIInv => WalkTypeOK
  BY DEF WalkIInv
<1> QED BY <1>1, InvHolds, PTL

-----------------------------------------------------------------------------
(* The least member of a set of numbers is the one that no other is below. *)
LEMMA MinIs ==
    ASSUME NEW S \in SUBSET Nat, NEW m \in S, \A v \in S : m <= v
    PROVE  Min(S) = m
<1>1. ASSUME NEW x \in S, \A v \in S : x <= v PROVE x = m
  <2>1. x \in Nat /\ m \in Nat /\ x <= m /\ m <= x
    BY <1>1
  <2> QED BY <2>1
<1>2. PICK x \in S : Min(S) = x /\ \A v \in S : x <= v
  <2>1. \E x \in S : \A v \in S : x <= v
    OBVIOUS
  <2> QED BY <2>1 DEF Min
<1> QED BY <1>1, <1>2

(* What the walk has found when it is done is what Scan suggests. *)
LEMMA FoundIsSuggested ==
    ASSUME FoundIsFirstGap, pc = "done", lo \in Nat, lo >= Lo,
           Id = Lo .. Hi, \A v \in Id : v \in used <=> Holders(v) # {}
    PROVE  IF found = -1 THEN LowestFree(lo) = NoId ELSE LowestFree(lo) = found
<1>1. lo .. Hi = {v \in Id : v >= lo} /\ Id \subseteq Nat
  BY NextFreeAssumption
<1>2. CASE found = -1 /\ \A v \in lo .. Hi : v \in used
  <2>1. FreeFrom(lo) = {}
    BY <1>1, <1>2 DEF FreeFrom
  <2> QED BY <1>2, <2>1 DEF LowestFree
<1>3. CASE /\ found \in Lo .. Hi
           /\ found >= lo /\ found \notin used
           /\ \A v \in lo .. found - 1 : v \in used
  <2>1. found \in Nat /\ found \in FreeFrom(lo)
    BY <1>1, <1>3 DEF FreeFrom
  <2>2. ASSUME NEW v \in FreeFrom(lo) PROVE found <= v
    <3>1. v \in Id /\ v >= lo /\ v \in Nat /\ v \notin used
      BY <1>1 DEF FreeFrom
    <3>2. ~(v < found)
      BY <1>3, <2>1, <3>1
    <3> QED BY <2>1, <3>1, <3>2
  <2>3. FreeFrom(lo) \in SUBSET Nat
    BY <1>1 DEF FreeFrom
  <2>4. Min(FreeFrom(lo)) = found
    BY <2>1, <2>2, <2>3, MinIs
  <2> QED BY <1>3, <2>1, <2>4, NextFreeAssumption DEF LowestFree
<1>4. \/ found = -1 /\ \A v \in lo .. Hi : v \in used
      \/ /\ found \in Lo .. Hi
         /\ found >= lo /\ found \notin used
         /\ \A v \in lo .. found - 1 : v \in used
  BY DEF FoundIsFirstGap
<1> QED BY <1>2, <1>3, <1>4

(* The walk carries out Scan: run over the numbers that the users hold, it *)
(* ends with what Scan suggests from where it started, and with -1 when    *)
(* Scan has no suggestion.                                                 *)
THEOREM ScanIsWalk ==
    ASSUME Id = Lo .. Hi
    PROVE  WalkSpec =>
             [](pc = "done" /\ (\A v \in Id : v \in used <=> Holders(v) # {})
                  => IF found = -1 THEN LowestFree(lo) = NoId
                     ELSE LowestFree(lo) = found)
<1>1. WalkIInv =>
        (pc = "done" /\ (\A v \in Id : v \in used <=> Holders(v) # {})
           => IF found = -1 THEN LowestFree(lo) = NoId
              ELSE LowestFree(lo) = found)
  <2>1. WalkIInv /\ pc = "done" => lo \in Nat /\ lo >= Lo /\ FoundIsFirstGap
    BY NextFreeAssumption DEF WalkIInv, WalkInv, WalkTypeOK
  <2> QED BY <2>1, FoundIsSuggested
<1> QED BY <1>1, InvHolds, PTL
=============================================================================
