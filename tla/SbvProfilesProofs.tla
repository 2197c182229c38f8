--------------------------- MODULE SbvProfilesProofs ---------------------------
(* Proofs about SbvProfiles, for any names and values, files of any length *)
(* and any number of failures.                                             *)
EXTENDS SbvProfilesProps, SequenceTheorems, TLAPS

(* The library's induction takes the property as an operator, which the    *)
(* provers cannot instantiate.  Its well-foundedness of < on the naturals  *)
(* serves as well: a set of numbers without a least member is empty.       *)
WF == INSTANCE WellFoundedInduction

(* The file has only names that a key file accepts. *)
DiskIsFile == \A i \in DOMAIN disk : disk[i].name \in GroupName

(* What a dialog holds at each step. *)
DialogInv ==
    /\ NoDialog => dialog.step = "open"
    /\ dialog.kind = "edit" => dialog.original \in Name
    /\ dialog.step = "busy" => dialog.kind = "add"
    /\ dialog.step \in {"remove", "upsert"} =>
          dialog.kind = "edit" /\ dialog.name \in Name
    /\ dialog.step = "remove" => dialog.original # dialog.name

(* CopiesAgree, before the sidebar can be clicked again: only the steps of *)
(* an edit leave the sidebar behind the store.                             *)
CopiesInv ==
    failures = 0 => /\ disk = Written(store)
                    /\ dialog.step # "upsert" => rows = store

IInv == TypeOK /\ NamesUnique /\ DiskIsFile /\ DialogInv /\ CopiesInv

-----------------------------------------------------------------------------
(* Induction over the numbers up to n, on a set instead of a predicate. *)
LEMMA Induction ==
    ASSUME NEW n \in Nat, NEW T, 0 \in T, \A i \in 1 .. n : i - 1 \in T => i \in T
    PROVE  0 .. n \subseteq T
<1> DEFINE B == (0 .. n) \ T
           R == WF!OpToRel(<, Nat)
<1> SUFFICES ASSUME B # {} PROVE FALSE
  OBVIOUS
<1>1. \A x, y \in Nat : x < y => <<x, y>> \in R
  BY DEF WF!OpToRel
<1>2. WF!IsWellFoundedOn(R, Nat)
  BY WF!NatLessThanWellFounded
<1> HIDE DEF R
<1>6. B \subseteq Nat
  OBVIOUS
<1> HIDE DEF B
<1>3. PICK m \in B : \A k \in B : ~(<<k, m>> \in R)
  BY <1>2, <1>6, WF!WFMin
<1>4. \A k \in B : ~(k < m)
  BY <1>1, <1>3, <1>6, Zenon
<1> HIDE <1>1, <1>2, <1>3
<1>5. m \in 1 .. n /\ m - 1 \in 0 .. n /\ m - 1 < m /\ m - 1 \notin B
  BY <1>4 DEF B
<1> QED BY <1>5 DEF B

(* The least member of a set of numbers is not below all of them only if   *)
(* there is none.                                                          *)
LEMMA MinOf ==
    ASSUME NEW S \in SUBSET Nat, S # {}
    PROVE  Min(S) \in S /\ \A v \in S : Min(S) <= v
<1> DEFINE R == WF!OpToRel(<, Nat)
<1>1. \A x, y \in Nat : x < y => <<x, y>> \in R
  BY DEF WF!OpToRel
<1>2. WF!IsWellFoundedOn(R, Nat)
  BY WF!NatLessThanWellFounded
<1> HIDE DEF R
<1>3. PICK m \in S : \A k \in S : ~(<<k, m>> \in R)
  BY <1>2, WF!WFMin
<1>4. \A k \in S : ~(k < m)
  BY <1>1, <1>3, Zenon
<1> HIDE <1>1, <1>2, <1>3
<1>5. \E x \in S : \A v \in S : x <= v
  BY <1>4
<1> QED BY <1>5 DEF Min

-----------------------------------------------------------------------------
(* What sbv_profiles_save writes. *)

LEMMA FirstIsFunction ==
    ASSUME NEW s \in Seq(Profile)
    PROVE  \A i \in 0 .. Len(s) :
              WrittenFirst(s)[i] =
                IF i = 0 THEN <<>>
                ELSE IF s[i].name \in GroupName
                     THEN Append(WrittenFirst(s)[i - 1], s[i])
                     ELSE WrittenFirst(s)[i - 1]
<1> DEFINE Step(W, i) == IF i = 0 THEN <<>>
                         ELSE IF s[i].name \in GroupName THEN Append(W[i - 1], s[i])
                              ELSE W[i - 1]
           Is(W, n) == W = [i \in 0 .. n |-> Step(W, i)]
           T == {n \in 0 .. Len(s) : \E W : Is(W, n)}
<1>1. 0 \in T
  <2> DEFINE W == [i \in 0 .. 0 |-> <<>>]
  <2>1. W = [i \in 0 .. 0 |-> Step(W, i)]
    OBVIOUS
  <2> HIDE DEF W
  <2> QED BY <2>1
<1>2. ASSUME NEW n \in 1 .. Len(s), n - 1 \in T PROVE n \in T
  <2>1. PICK V : Is(V, n - 1)
    BY <1>2
  <2> DEFINE W == [i \in 0 .. n |-> IF i = n THEN Step(V, n) ELSE V[i]]
  <2>2. /\ \A i \in 1 .. n : i - 1 \in 0 .. n - 1
        /\ \A i \in 0 .. n : i = 0 \/ i \in 1 .. n
        /\ \A i \in 0 .. n : i = n \/ i \in 0 .. n - 1
    OBVIOUS
  <2>8. \A i \in 0 .. n - 1 : W[i] = V[i]
    OBVIOUS
  <2>3. W[n] = Step(V, n) /\ W = [i \in 0 .. n |-> W[i]]
    OBVIOUS
  <2> HIDE DEF W
  <2>9. \A i \in 0 .. n - 1 : V[i] = Step(V, i)
    BY <2>1
  <2>4. ASSUME NEW i \in 1 .. n PROVE Step(W, i) = Step(V, i)
    <3>1. W[i - 1] = V[i - 1]
      BY <2>2, <2>8
    <3> QED BY <3>1
  <2>5. Step(W, 0) = Step(V, 0)
    OBVIOUS
  <2> HIDE DEF Step
  <2>6. \A i \in 0 .. n : W[i] = Step(W, i)
    BY <2>2, <2>3, <2>4, <2>5, <2>8, <2>9
  <2>7. Is(W, n)
    BY <2>3, <2>6
  <2> QED BY <2>7
<1> HIDE DEF T
<1>3. Len(s) \in T
  <2>1. Len(s) \in Nat /\ \A n \in 1 .. Len(s) : n - 1 \in T => n \in T
    BY <1>2
  <2>2. 0 .. Len(s) \subseteq T
    BY <1>1, <2>1, Induction, Zenon
  <2> QED BY <2>1, <2>2
<1>4. Is(WrittenFirst(s), Len(s))
  <2>1. \E W : Is(W, Len(s))
    BY <1>3 DEF T
  <2>2. WrittenFirst(s) = CHOOSE W : Is(W, Len(s))
    BY DEF WrittenFirst
  <2> QED BY <2>1, <2>2
<1> QED BY <1>4

(* The part written of the first i profiles: in it are those profiles of   *)
(* them whose name is accepted, and no others; and all of them, if it is.  *)
IsPart(W, s, i) ==
    /\ W \in Seq(Profile)
    /\ \A k \in DOMAIN W : W[k].name \in GroupName /\ \E j \in 1 .. i : W[k] = s[j]
    /\ \A j \in 1 .. i : s[j].name \in GroupName => \E k \in DOMAIN W : W[k] = s[j]
    /\ Unique(s) => Unique(W)
    /\ (\A j \in 1 .. i : s[j].name \in GroupName) =>
          Len(W) = i /\ \A k \in 1 .. i : W[k] = s[k]

LEMMA FirstIsPart ==
    ASSUME NEW s \in Seq(Profile)
    PROVE  \A i \in 0 .. Len(s) : IsPart(WrittenFirst(s)[i], s, i)
<1> DEFINE T == {i \in 0 .. Len(s) : IsPart(WrittenFirst(s)[i], s, i)}
<1>1. 0 \in T
  <2>1. WrittenFirst(s)[0] = <<>> /\ 0 \in 0 .. Len(s)
    BY FirstIsFunction
  <2>2. IsPart(<<>>, s, 0)
    BY DEF IsPart, Unique
  <2> QED BY <2>1, <2>2
<1>2. ASSUME NEW i \in 1 .. Len(s), i - 1 \in T PROVE i \in T
  <2> DEFINE V == WrittenFirst(s)[i - 1]
             W == WrittenFirst(s)[i]
  <2>1. IsPart(V, s, i - 1) /\ s[i] \in Profile
    BY <1>2
  <2>2. W = IF s[i].name \in GroupName THEN Append(V, s[i]) ELSE V
    BY FirstIsFunction
  <2> HIDE DEF V, W
  <2>3. \A j \in 1 .. i : j \in 1 .. i - 1 \/ j = i
    OBVIOUS
  <2>4. CASE s[i].name \notin GroupName
    <3>1. W = V
      BY <2>2, <2>4
    <3>2. /\ V \in Seq(Profile)
          /\ \A k \in DOMAIN V : V[k].name \in GroupName
                                 /\ \E j \in 1 .. i : V[k] = s[j]
          /\ Unique(s) => Unique(V)
      BY <2>1, <2>3 DEF IsPart
    <3>3. \A j \in 1 .. i : s[j].name \in GroupName =>
            \E k \in DOMAIN V : V[k] = s[j]
      BY <2>1, <2>3, <2>4 DEF IsPart
    <3>4. ~ \A j \in 1 .. i : s[j].name \in GroupName
      BY <2>4
    <3>5. IsPart(V, s, i)
      BY <3>2, <3>3, <3>4 DEF IsPart
    <3> QED BY <3>1, <3>5 DEF W
  <2>5. CASE s[i].name \in GroupName
    <3>1. /\ V \in Seq(Profile) /\ W = Append(V, s[i]) /\ W \in Seq(Profile)
          /\ Len(W) = Len(V) + 1 /\ W[Len(V) + 1] = s[i]
          /\ \A k \in 1 .. Len(V) : W[k] = V[k]
          /\ DOMAIN V = 1 .. Len(V) /\ DOMAIN W = 1 .. Len(V) + 1 /\ Len(V) \in Nat
      BY <2>1, <2>2, <2>5 DEF IsPart
    <3>2. \A k \in DOMAIN W : k \in DOMAIN V \/ k = Len(V) + 1
      BY <3>1
    <3>3. \A k \in DOMAIN W : W[k].name \in GroupName /\ \E j \in 1 .. i : W[k] = s[j]
      BY <2>1, <2>5, <3>1, <3>2 DEF IsPart
    <3>4. \A j \in 1 .. i : s[j].name \in GroupName => \E k \in DOMAIN W : W[k] = s[j]
      <4>1. ASSUME NEW j \in 1 .. i - 1, s[j].name \in GroupName
            PROVE  \E k \in DOMAIN W : W[k] = s[j]
        <5>1. PICK k \in DOMAIN V : V[k] = s[j]
          BY <2>1, <4>1 DEF IsPart
        <5> QED BY <3>1, <5>1
      <4>2. \E k \in DOMAIN W : W[k] = s[i]
        BY <3>1
      <4> QED BY <2>3, <4>1, <4>2
    <3>5. Unique(s) => Unique(W)
      <4> SUFFICES ASSUME Unique(s), NEW k \in DOMAIN W, NEW l \in DOMAIN W,
                          W[k].name = W[l].name
                   PROVE  k = l
        BY DEF Unique
      <4>1. ASSUME NEW m \in DOMAIN V PROVE V[m].name # s[i].name
        <5>1. PICK j \in 1 .. i - 1 : V[m] = s[j]
          BY <2>1 DEF IsPart
        <5>2. j \in DOMAIN s /\ i \in DOMAIN s /\ j # i
          OBVIOUS
        <5> QED BY <5>1, <5>2 DEF Unique
      <4>2. Unique(V)
        BY <2>1 DEF IsPart
      <4> QED BY <3>1, <3>2, <4>1, <4>2 DEF Unique
    <3>6. ASSUME \A j \in 1 .. i : s[j].name \in GroupName
          PROVE  Len(W) = i /\ \A k \in 1 .. i : W[k] = s[k]
      <4>1. Len(V) = i - 1 /\ \A k \in 1 .. i - 1 : V[k] = s[k]
        BY <2>1, <3>6 DEF IsPart
      <4> QED BY <2>3, <3>1, <4>1
    <3>7. IsPart(W, s, i)
      BY <3>1, <3>3, <3>4, <3>5, <3>6 DEF IsPart
    <3> QED BY <3>7 DEF W
  <2> QED BY <2>4, <2>5
<1> HIDE DEF T
<1>3. 0 .. Len(s) \subseteq T
  <2>1. Len(s) \in Nat /\ \A n \in 1 .. Len(s) : n - 1 \in T => n \in T
    BY <1>2
  <2> QED BY <1>1, <2>1, Induction, Zenon
<1> QED BY <1>3 DEF T

(* The file written has the profiles of the store whose name it accepts. *)
LEMMA WrittenFacts ==
    ASSUME NEW s \in Seq(Profile)
    PROVE  /\ Written(s) \in Seq(Profile)
           /\ \A k \in DOMAIN Written(s) : Written(s)[k].name \in GroupName
           /\ \A p : (\E k \in DOMAIN Written(s) : Written(s)[k] = p)
                     <=> (p.name \in GroupName /\ \E j \in DOMAIN s : s[j] = p)
           /\ Unique(s) => Unique(Written(s))
           /\ (\A j \in DOMAIN s : s[j].name \in GroupName) => Written(s) = s
<1>1. IsPart(Written(s), s, Len(s))
  BY FirstIsPart DEF Written
<1>2. DOMAIN s = 1 .. Len(s)
  OBVIOUS
<1>3. ASSUME \A j \in DOMAIN s : s[j].name \in GroupName PROVE Written(s) = s
  <2>1. /\ Written(s) \in Seq(Profile) /\ Len(Written(s)) = Len(s)
        /\ \A k \in 1 .. Len(s) : Written(s)[k] = s[k]
    BY <1>1, <1>2, <1>3 DEF IsPart
  <2> HIDE <1>1, <1>3
  <2> QED BY <2>1
<1>4. /\ Written(s) \in Seq(Profile)
      /\ Unique(s) => Unique(Written(s))
      /\ \A k \in DOMAIN Written(s) : Written(s)[k].name \in GroupName
  BY <1>1 DEF IsPart
<1>5. ASSUME NEW k \in DOMAIN Written(s) PROVE \E j \in DOMAIN s : s[j] = Written(s)[k]
  BY <1>1, <1>2, <1>5 DEF IsPart
<1>6. ASSUME NEW j \in DOMAIN s, s[j].name \in GroupName
      PROVE  \E k \in DOMAIN Written(s) : Written(s)[k] = s[j]
  BY <1>1, <1>2, <1>6 DEF IsPart
<1>7. \A p : (\E k \in DOMAIN Written(s) : Written(s)[k] = p)
             <=> (p.name \in GroupName /\ \E j \in DOMAIN s : s[j] = p)
  BY <1>4, <1>5, <1>6
<1> HIDE <1>5, <1>6
<1> QED BY <1>3, <1>4, <1>7

-----------------------------------------------------------------------------
(* The store as a book. *)

LEMMA BookIs ==
    ASSUME NEW s \in Seq(Profile), Unique(s)
    PROVE  /\ BookOf(s) \in [Name -> Val \cup {NoVal}]
           /\ \A i \in DOMAIN s : s[i].name \in Name /\ BookOf(s)[s[i].name] = s[i].val
           /\ \A n \in Name \ Names(s) : BookOf(s)[n] = NoVal
<1>1. ASSUME NEW i \in DOMAIN s
      PROVE  /\ s[i].name \in Names(s) /\ s[i].name \in Name /\ s[i].val \in Val
             /\ (CHOOSE j \in DOMAIN s : s[j].name = s[i].name) = i
  <2>1. s[i] \in Profile
    OBVIOUS
  <2>2. s[i].name \in Names(s) /\ s[i].name \in Name /\ s[i].val \in Val
    BY <2>1 DEF Names, Profile
  <2>3. \A j \in DOMAIN s : s[j].name = s[i].name => j = i
    BY DEF Unique
  <2> QED BY <2>2, <2>3, Zenon
<1>2. \A n \in Names(s) : \E i \in DOMAIN s : n = s[i].name
  BY DEF Names
<1>3. \A i \in DOMAIN s : BookOf(s)[s[i].name] = s[i].val
  BY <1>1 DEF BookOf
<1>4. \A n \in Name \ Names(s) : BookOf(s)[n] = NoVal
  BY DEF BookOf
<1>5. \A n \in Name : BookOf(s)[n] \in Val \cup {NoVal}
  BY <1>1, <1>2, <1>3, <1>4
<1>6. BookOf(s) \in [Name -> Val \cup {NoVal}]
  <2>1. BookOf(s) = [n \in Name |-> BookOf(s)[n]]
    BY DEF BookOf
  <2> QED BY <1>5, <2>1
<1> QED BY <1>1, <1>3, <1>4, <1>6

(* A book is known by what it has at the names of the profiles. *)
LEMMA BookEqual ==
    ASSUME NEW s \in Seq(Profile), Unique(s), NEW b \in [Name -> Val \cup {NoVal}],
           \A i \in DOMAIN s : b[s[i].name] = s[i].val,
           \A n \in Name \ Names(s) : b[n] = NoVal
    PROVE  BookOf(s) = b
<1>1. ASSUME NEW n \in Name PROVE BookOf(s)[n] = b[n]
  <2>1. CASE n \in Names(s)
    BY <2>1, BookIs DEF Names
  <2>2. CASE n \notin Names(s)
    BY <2>2, BookIs
  <2> QED BY <2>1, <2>2
<1> QED BY <1>1, BookIs

LEMMA IndexIs ==
    ASSUME NEW s \in Seq(Profile), NEW n
    PROVE  \/ IndexOf(s, n) = 0 /\ n \notin Names(s)
           \/ IndexOf(s, n) \in DOMAIN s /\ s[IndexOf(s, n)].name = n
<1> DEFINE S == {i \in 1 .. Len(s) : s[i].name = n}
<1>1. IndexOf(s, n) = IF S # {} THEN Min(S) ELSE 0
  BY DEF IndexOf, SelectInSeq
<1>2. S # {} => Min(S) \in S
  <2>1. S \in SUBSET Nat
    OBVIOUS
  <2> QED BY <2>1, MinOf
<1>3. S = {} => n \notin Names(s)
  BY DEF Names
<1> QED BY <1>1, <1>2, <1>3

(* sbv_profiles_upsert appends or replaces a profile (matched by name). *)
LEMMA UpsertIs ==
    ASSUME NEW s \in Seq(Profile), Unique(s), NEW p \in Profile
    PROVE  /\ Upserted(s, p) \in Seq(Profile) /\ Unique(Upserted(s, p))
           /\ BookOf(Upserted(s, p)) = [BookOf(s) EXCEPT ![p.name] = p.val]
<1> DEFINE i == IndexOf(s, p.name)
           t == Upserted(s, p)
           b == [BookOf(s) EXCEPT ![p.name] = p.val]
<1>1. p.name \in Name /\ p.val \in Val
  BY DEF Profile
<1>2. /\ b \in [Name -> Val \cup {NoVal}] /\ b[p.name] = p.val
      /\ \A n \in Name : n # p.name => b[n] = BookOf(s)[n]
  BY <1>1, BookIs
<1>3. CASE i = 0
  <2>1. t = Append(s, p) /\ p.name \notin Names(s)
    BY <1>3, IndexIs DEF Upserted
  <2>2. /\ t \in Seq(Profile) /\ Len(t) = Len(s) + 1 /\ t[Len(s) + 1] = p
        /\ DOMAIN s = 1 .. Len(s) /\ DOMAIN t = 1 .. Len(s) + 1
        /\ \A k \in DOMAIN s : t[k] = s[k]
        /\ \A k \in DOMAIN t : k \in DOMAIN s \/ k = Len(s) + 1
    BY <2>1
  <2>3. \A k \in DOMAIN s : s[k].name # p.name
    BY <2>1 DEF Names
  <2>4. Unique(t)
    BY <2>2, <2>3 DEF Unique
  <2>5. \A k \in DOMAIN t : b[t[k].name] = t[k].val
    BY <1>2, <2>2, <2>3, BookIs
  <2>6. \A n \in Name \ Names(t) : b[n] = NoVal
    <3>1. \A n : n \notin Names(t) => n \notin Names(s) /\ n # p.name
      BY <2>2 DEF Names
    <3> QED BY <1>2, <3>1, BookIs
  <2> QED BY <1>2, <2>2, <2>4, <2>5, <2>6, BookEqual
<1>4. CASE i \in DOMAIN s /\ s[i].name = p.name
  <2>1. t = [s EXCEPT ![i] = p]
    BY <1>4 DEF Upserted, ReplaceAt
  <2>2. /\ t \in Seq(Profile) /\ DOMAIN t = DOMAIN s /\ t[i] = p
        /\ \A k \in DOMAIN s : k # i => t[k] = s[k]
        /\ \A k \in DOMAIN s : t[k].name = s[k].name
    BY <1>4, <2>1
  <2>3. Unique(t) /\ Names(t) = Names(s)
    BY <2>2 DEF Unique, Names
  <2>4. \A k \in DOMAIN s : k # i => s[k].name # p.name
    BY <1>4 DEF Unique
  <2>5. \A k \in DOMAIN t : b[t[k].name] = t[k].val
    BY <1>2, <2>2, <2>4, BookIs
  <2>6. \A n \in Name \ Names(t) : b[n] = NoVal
    <3>1. p.name \in Names(t)
      BY <1>4, <2>3 DEF Names
    <3> QED BY <1>2, <2>3, <3>1, BookIs
  <2> QED BY <1>2, <2>2, <2>3, <2>5, <2>6, BookEqual
<1> QED BY <1>3, <1>4, IndexIs

LEMMA RemoveAtIs ==
    ASSUME NEW s \in Seq(Profile), NEW i \in DOMAIN s
    PROVE  /\ RemoveAt(s, i) \in Seq(Profile) /\ Len(RemoveAt(s, i)) = Len(s) - 1
           /\ \A k \in 1 .. Len(s) - 1 :
                 RemoveAt(s, i)[k] = IF k < i THEN s[k] ELSE s[k + 1]
<1> DEFINE low == SubSeq(s, 1, i - 1)
           high == SubSeq(s, i + 1, Len(s))
<1>1. Len(s) \in Nat /\ i \in 1 .. Len(s) /\ RemoveAt(s, i) = low \o high
  BY DEF RemoveAt
<1>2. /\ low \in Seq(Profile) /\ Len(low) = i - 1
      /\ \A k \in 1 .. i - 1 : low[k] = s[k]
  BY <1>1
<1>3. /\ high \in Seq(Profile) /\ Len(high) = Len(s) - i
      /\ \A k \in 1 .. Len(s) - i : high[k] = s[i + k]
  <2>1. \A k \in i + 1 .. Len(s) : s[k] \in Profile
    BY <1>1
  <2>2. /\ high \in Seq(Profile)
        /\ Len(high) = IF i + 1 <= Len(s) THEN Len(s) - (i + 1) + 1 ELSE 0
        /\ \A k \in 1 .. Len(s) - (i + 1) + 1 : high[k] = s[i + 1 + k - 1]
    <3> DEFINE m == i + 1
               n == Len(s)
    <3>1. m \in Int /\ n \in Int /\ \A k \in m .. n : s[k] \in Profile
      BY <1>1, <2>1
    <3> HIDE DEF m, n
    <3>2. /\ SubSeq(s, m, n) \in Seq(Profile)
          /\ Len(SubSeq(s, m, n)) = IF m <= n THEN n - m + 1 ELSE 0
          /\ \A k \in 1 .. n - m + 1 : SubSeq(s, m, n)[k] = s[m + k - 1]
      BY <3>1, SubSeqProperties
    <3> QED BY <3>2 DEF m, n
  <2> HIDE DEF high
  <2>3. Len(high) = Len(s) - i
    <3>1. i + 1 <= Len(s) \/ i = Len(s)
      BY <1>1
    <3> QED BY <1>1, <2>2, <3>1
  <2>4. ASSUME NEW k \in 1 .. Len(s) - i PROVE high[k] = s[i + k]
    <3>1. k \in 1 .. Len(s) - (i + 1) + 1 /\ i + 1 + k - 1 = i + k
      BY <1>1
    <3> QED BY <2>2, <3>1
  <2> QED BY <2>2, <2>3, <2>4
<1> HIDE DEF low, high
<1>4. /\ low \o high \in Seq(Profile) /\ Len(low \o high) = Len(s) - 1
      /\ \A k \in 1 .. Len(s) - 1 :
            (low \o high)[k] = IF k < i THEN low[k] ELSE high[k - (i - 1)]
  <2>1. /\ low \o high \in Seq(Profile)
        /\ Len(low \o high) = Len(low) + Len(high)
        /\ \A k \in 1 .. Len(low) + Len(high) :
              (low \o high)[k] = IF k <= Len(low) THEN low[k]
                                 ELSE high[k - Len(low)]
    <3>1. low \in Seq(Profile) /\ high \in Seq(Profile)
      BY <1>2, <1>3
    <3> QED BY <3>1, ConcatProperties
  <2> HIDE <1>2, <1>3
  <2>2. Len(low) = i - 1 /\ Len(low) + Len(high) = Len(s) - 1
    BY <1>1, <1>2, <1>3
  <2>3. ASSUME NEW k \in 1 .. Len(s) - 1
        PROVE  (low \o high)[k] = IF k < i THEN low[k] ELSE high[k - (i - 1)]
    <3>1. k < i <=> k <= Len(low)
      BY <1>1, <2>2
    <3>2. k \in 1 .. Len(low) + Len(high)
      BY <2>2
    <3> QED BY <2>1, <2>2, <3>1, <3>2
  <2> QED BY <2>1, <2>2, <2>3
<1>5. ASSUME NEW k \in 1 .. Len(s) - 1
      PROVE  (low \o high)[k] = IF k < i THEN s[k] ELSE s[k + 1]
  <2>1. CASE k < i
    BY <1>1, <1>2, <1>4, <2>1
  <2>2. CASE ~(k < i)
    <3>1. k - (i - 1) \in 1 .. Len(s) - i /\ i + (k - (i - 1)) = k + 1
      BY <1>1, <2>2
    <3> QED BY <1>3, <1>4, <2>2, <3>1
  <2> QED BY <2>1, <2>2
<1> QED BY <1>1, <1>4, <1>5

(* sbv_profiles_remove takes out the profile of a name, and no other. *)
LEMMA RemoveIs ==
    ASSUME NEW s \in Seq(Profile), Unique(s), NEW n \in Name
    PROVE  /\ Removed(s, n) \in Seq(Profile) /\ Unique(Removed(s, n))
           /\ BookOf(Removed(s, n)) = [BookOf(s) EXCEPT ![n] = NoVal]
<1> DEFINE i == IndexOf(s, n)
           t == Removed(s, n)
           b == [BookOf(s) EXCEPT ![n] = NoVal]
<1>1. /\ b \in [Name -> Val \cup {NoVal}] /\ b[n] = NoVal
      /\ \A m \in Name : m # n => b[m] = BookOf(s)[m]
  BY BookIs
<1>2. CASE i = 0
  <2>1. t = s /\ n \notin Names(s)
    BY <1>2, IndexIs DEF Removed
  <2>2. b = BookOf(s)
    BY <1>1, <2>1, BookIs
  <2> QED BY <2>1, <2>2
<1>3. CASE i \in DOMAIN s /\ s[i].name = n
  <2>1. t = RemoveAt(s, i) /\ i \in 1 .. Len(s) /\ Len(s) \in Nat
    BY <1>3 DEF Removed
  <2> HIDE DEF i, t
  <2>2. /\ t \in Seq(Profile) /\ Len(t) = Len(s) - 1
        /\ \A k \in 1 .. Len(s) - 1 : t[k] = IF k < i THEN s[k] ELSE s[k + 1]
    BY <1>3, <2>1, RemoveAtIs
  <2>3. DOMAIN s = 1 .. Len(s) /\ DOMAIN t = 1 .. Len(s) - 1 /\ Len(s) \in Nat
    BY <2>2
  <2>4. \A k \in DOMAIN t : \E j \in DOMAIN s : j = (IF k < i THEN k ELSE k + 1)
                               /\ j # i /\ t[k] = s[j]
    <3> SUFFICES ASSUME NEW k \in DOMAIN t
                 PROVE  LET j == IF k < i THEN k ELSE k + 1
                        IN  j \in DOMAIN s /\ j # i /\ t[k] = s[j]
      OBVIOUS
    <3>1. CASE k < i
      BY <2>1, <2>2, <2>3, <3>1
    <3>2. CASE ~(k < i)
      BY <2>1, <2>2, <2>3, <3>2
    <3> QED BY <3>1, <3>2
  <2>5. \A j \in DOMAIN s : j # i => \E k \in DOMAIN t : t[k] = s[j]
    <3>1. ASSUME NEW j \in DOMAIN s, j < i PROVE j \in DOMAIN t /\ t[j] = s[j]
      BY <2>1, <2>2, <2>3, <3>1
    <3>2. ASSUME NEW j \in DOMAIN s, j > i PROVE j - 1 \in DOMAIN t /\ t[j - 1] = s[j]
      <4>1. j - 1 \in 1 .. Len(s) - 1 /\ ~(j - 1 < i) /\ (j - 1) + 1 = j
        BY <2>1, <2>3, <3>2
      <4> QED BY <2>2, <2>3, <4>1
    <3>3. \A j \in DOMAIN s : j # i => j < i \/ j > i
      BY <2>1, <2>3
    <3> QED BY <3>1, <3>2, <3>3
  <2>6. \A j \in DOMAIN s : j # i => s[j].name # n
    BY <1>3 DEF Unique
  <2>7. Unique(t)
    <3> SUFFICES ASSUME NEW k \in DOMAIN t, NEW l \in DOMAIN t, t[k].name = t[l].name
                 PROVE  k = l
      BY DEF Unique
    <3>1. (IF k < i THEN k ELSE k + 1) = (IF l < i THEN l ELSE l + 1)
      BY <2>4 DEF Unique
    <3> QED BY <2>1, <2>3, <3>1
  <2>8. \A k \in DOMAIN t : b[t[k].name] = t[k].val
    BY <1>1, <2>4, <2>6, BookIs
  <2>9. \A m \in Name \ Names(t) : b[m] = NoVal
    <3>1. \A m : m \notin Names(t) /\ m # n => m \notin Names(s)
      BY <1>3, <2>5 DEF Names
    <3> QED BY <1>1, <3>1, BookIs
  <2> HIDE DEF b
  <2>10. BookOf(t) = b
    BY <1>1, <2>2, <2>7, <2>8, <2>9, BookEqual
  <2> QED BY <2>2, <2>7, <2>10 DEF t, b
<1> QED BY <1>2, <1>3, IndexIs

(* The file is the book without the names that a key file refuses. *)
LEMMA WrittenIs ==
    ASSUME NEW s \in Seq(Profile), Unique(s)
    PROVE  BookOf(Written(s)) =
              [n \in Name |-> IF n \in GroupName THEN BookOf(s)[n] ELSE NoVal]
<1> DEFINE t == Written(s)
           b == [n \in Name |-> IF n \in GroupName THEN BookOf(s)[n] ELSE NoVal]
<1>1. /\ t \in Seq(Profile) /\ Unique(t)
      /\ \A k \in DOMAIN t : t[k].name \in GroupName
      /\ \A k \in DOMAIN t : \E j \in DOMAIN s : s[j] = t[k]
      /\ \A j \in DOMAIN s : s[j].name \in GroupName => \E k \in DOMAIN t : t[k] = s[j]
  <2>1. /\ t \in Seq(Profile) /\ (Unique(s) => Unique(t))
        /\ \A k \in DOMAIN t : t[k].name \in GroupName
    BY WrittenFacts
  <2>2. \A p : (\E k \in DOMAIN t : t[k] = p)
               <=> (p.name \in GroupName /\ \E j \in DOMAIN s : s[j] = p)
    BY WrittenFacts, Zenon
  <2> HIDE DEF t
  <2>3. ASSUME NEW k \in DOMAIN t PROVE \E j \in DOMAIN s : s[j] = t[k]
    BY <2>2, Zenon
  <2>4. ASSUME NEW j \in DOMAIN s, s[j].name \in GroupName
        PROVE  \E k \in DOMAIN t : t[k] = s[j]
    BY <2>2, <2>4, Zenon
  <2> QED BY <2>1, <2>3, <2>4
<1>2. b \in [Name -> Val \cup {NoVal}]
  BY BookIs
<1>3. \A k \in DOMAIN t : b[t[k].name] = t[k].val
  BY <1>1, BookIs
<1>4. \A n \in Name \ Names(t) : b[n] = NoVal
  <2>1. \A n \in GroupName : n \in Names(s) => n \in Names(t)
    BY <1>1 DEF Names
  <2> QED BY <2>1, BookIs
<1> HIDE DEF t, b
<1>5. BookOf(t) = b
  BY <1>1, <1>2, <1>3, <1>4, BookEqual
<1> QED BY <1>5 DEF t, b

-----------------------------------------------------------------------------
(* The inductive invariant. *)

Dialogs == [kind : {"none", "add", "edit"}, original : Name \cup {NoName},
            name : Name \cup {NoName}, val : Val,
            step : {"open", "busy", "remove", "upsert"}]

LEMMA ClosedIs ==
    Closed \in Dialogs /\ Closed.kind = "none" /\ Closed.step = "open"
BY ProfilesAssumption DEF Closed, Dialogs, Value

LEMMA EnteredIs ==
    ASSUME TypeOK, dialog.name \in Name
    PROVE  Entered \in Profile /\ Entered.name = dialog.name /\ Entered.val = dialog.val
BY DEF TypeOK, Entered, Profile

LEMMA InitKeeps == ASSUME Init PROVE IInv
<1>1. PICK n \in 0 .. MaxInitial : disk \in [1 .. n -> [name : GroupName, val : Val]]
  BY DEF Init, Files
<1>2. disk \in Seq(Profile)
  <2>1. [name : GroupName, val : Val] \subseteq Profile
    BY DEF Profile, Name
  <2>2. n \in Nat
    BY ProfilesAssumption
  <2> QED BY <1>1, <2>1, <2>2
<1>3. DiskIsFile
  BY <1>1 DEF DiskIsFile
<1>4. Unique(disk)
  BY DEF Init, Files
<1>5. TypeOK
  BY <1>2, ClosedIs, ProfilesAssumption DEF Init, TypeOK, Dialogs
<1>6. DialogInv
  BY ClosedIs DEF Init, DialogInv
<1>7. CopiesInv
  BY <1>2, <1>3, WrittenFacts DEF Init, CopiesInv, DiskIsFile
<1> QED BY <1>3, <1>4, <1>5, <1>6, <1>7 DEF Init, IInv, NamesUnique

(* A step that changes the dialog only. *)
LEMMA DialogKeeps ==
    ASSUME IInv, dialog' \in Dialogs, DialogInv',
           UNCHANGED <<store, disk, rows, failures>>,
           dialog.step = "upsert" => dialog'.step = "upsert"
    PROVE  IInv'
<1>1. TypeOK'
  BY DEF IInv, TypeOK, Dialogs
<1>2. NamesUnique' /\ DiskIsFile'
  BY DEF IInv, NamesUnique, DiskIsFile
<1>3. CopiesInv'
  BY DEF IInv, CopiesInv
<1> QED BY <1>1, <1>2, <1>3 DEF IInv

LEMMA SavedIs ==
    ASSUME NEW s \in Seq(Profile), Unique(s), SaveOk(s)
    PROVE  /\ disk' \in Seq(Profile) /\ Unique(disk') /\ disk' = Written(s)
           /\ \A i \in DOMAIN disk' : disk'[i].name \in GroupName
           /\ failures' = failures
BY WrittenFacts DEF SaveOk

LEMMA FailedIs ==
    ASSUME TypeOK, Failure PROVE failures' \in 0 .. MaxFailures /\ failures' # 0
BY ProfilesAssumption DEF TypeOK, Failure

(* The store is changed, and saved or not, and the sidebar may follow. *)
LEMMA StoreKeeps ==
    ASSUME IInv, store' \in Seq(Profile), Unique(store'),
           \/ SaveOk(store')
           \/ SaveFails
           \/ store' = store /\ UNCHANGED <<disk, failures>>,
           rows' = store' \/ rows' = rows,
           dialog' \in Dialogs, DialogInv',
           \/ rows' = store' \/ dialog'.step = "upsert" \/ failures' # 0
    PROVE  IInv'
<1>1. /\ disk' \in Seq(Profile) /\ Unique(disk') /\ DiskIsFile'
      /\ failures' \in 0 .. MaxFailures
      /\ failures' = 0 => disk' = Written(store')
  <2>1. CASE SaveOk(store')
    BY <2>1, SavedIs DEF IInv, TypeOK, DiskIsFile
  <2>2. CASE SaveFails
    BY <2>2, FailedIs DEF SaveFails, IInv, TypeOK, NamesUnique, DiskIsFile
  <2>3. CASE store' = store /\ UNCHANGED <<disk, failures>>
    BY <2>3 DEF IInv, TypeOK, NamesUnique, DiskIsFile, CopiesInv
  <2> QED BY <2>1, <2>2, <2>3
<1>2. rows' \in Seq(Profile) /\ Unique(rows')
  BY DEF IInv, TypeOK, NamesUnique
<1>3. TypeOK'
  BY <1>1, <1>2 DEF TypeOK, Dialogs
<1>4. NamesUnique'
  BY <1>1, <1>2 DEF NamesUnique, Unique
<1>5. CopiesInv'
  <2>1. (failures' = 0 => disk' = Written(store')) => CopiesInv'
    BY DEF CopiesInv, Written, WrittenFirst
  <2> QED BY <1>1, <2>1
<1> QED BY <1>1, <1>3, <1>4, <1>5 DEF IInv

(* The typing, clicking and waiting in a dialog. *)
LEMMA DialogSteps ==
    ASSUME IInv,
           \/ OpenAdd \/ Cancel \/ ClickConnect \/ ConnectFailed \/ ClickSave
           \/ \E i \in DOMAIN rows : OpenEdit(i)
           \/ \E n \in Name \cup {NoName}, v \in Val : Type(n, v)
    PROVE  IInv'
<1>0. dialog \in Dialogs
  BY DEF IInv, TypeOK, Dialogs
<1>1. CASE OpenAdd
  <2>1. dialog' \in Dialogs /\ dialog'.kind = "add" /\ dialog'.step = "open"
    BY <1>1, ClosedIs DEF OpenAdd, Dialogs
  <2> QED BY <1>1, <2>1, DialogKeeps DEF OpenAdd, IInv, DialogInv, NoDialog
<1>2. CASE Cancel
  BY <1>2, ClosedIs, DialogKeeps DEF Cancel, DialogInv
<1>3. CASE ClickConnect
  <2>1. dialog' \in Dialogs /\ dialog'.kind = "add" /\ dialog'.step = "busy"
        /\ dialog.step = "open"
    BY <1>0, <1>3 DEF ClickConnect, Dialogs
  <2> QED BY <1>3, <2>1, DialogKeeps DEF ClickConnect, DialogInv, NoDialog
<1>4. CASE ConnectFailed
  <2>1. dialog' \in Dialogs /\ dialog'.kind = dialog.kind /\ dialog'.step = "open"
        /\ dialog.step = "busy" /\ dialog'.original = dialog.original
    BY <1>0, <1>4 DEF ConnectFailed, Dialogs
  <2> QED BY <1>4, <2>1, DialogKeeps DEF ConnectFailed, IInv, DialogInv
<1>5. CASE ClickSave
  <2>1. /\ dialog' \in Dialogs /\ dialog'.kind = "edit" /\ dialog.kind = "edit"
        /\ dialog.step = "open" /\ dialog'.name = dialog.name /\ dialog.name # NoName
        /\ dialog'.original = dialog.original
        /\ dialog'.step = IF dialog.original # dialog.name THEN "remove" ELSE "upsert"
    BY <1>0, <1>5 DEF ClickSave, Dialogs
  <2>2. dialog.name \in Name
    BY <1>0, <2>1 DEF Dialogs
  <2>3. DialogInv'
    BY <2>1, <2>2 DEF IInv, DialogInv, NoDialog
  <2> QED BY <1>5, <2>1, <2>3, DialogKeeps DEF ClickSave
<1>6. ASSUME NEW i \in DOMAIN rows, OpenEdit(i) PROVE IInv'
  <2>1. rows[i] \in Profile
    BY DEF IInv, TypeOK
  <2>2. /\ dialog' \in Dialogs /\ dialog'.kind = "edit" /\ dialog'.step = "open"
        /\ dialog'.original \in Name
    BY <1>6, <2>1 DEF OpenEdit, Dialogs, Profile
  <2> QED BY <1>6, <2>2, DialogKeeps DEF OpenEdit, DialogInv, NoDialog, IInv
<1>7. ASSUME NEW n \in Name \cup {NoName}, NEW v \in Val, Type(n, v) PROVE IInv'
  <2>1. /\ dialog' \in Dialogs /\ dialog'.kind = dialog.kind
        /\ dialog'.step = dialog.step /\ dialog'.original = dialog.original
        /\ dialog.step \in {"open", "busy"}
    BY <1>0, <1>7 DEF Type, Dialogs
  <2> QED BY <1>7, <2>1, DialogKeeps DEF Type, IInv, DialogInv, NoDialog
<1> QED BY <1>1, <1>2, <1>3, <1>4, <1>5, <1>6, <1>7

(* The steps that change the store. *)
LEMMA StoreSteps ==
    ASSUME IInv, Connected \/ RemoveOld \/ Upsert \/ UpsertFails PROVE IInv'
<1>0. dialog \in Dialogs /\ store \in Seq(Profile) /\ Unique(store)
  BY DEF IInv, TypeOK, NamesUnique, Dialogs
<1>1. dialog.name \in Name => /\ Upserted(store, Entered) \in Seq(Profile)
                              /\ Unique(Upserted(store, Entered))
  BY <1>0, EnteredIs, UpsertIs DEF IInv
<1>2. CASE Connected
  <2>1. dialog.name \in Name
    BY <1>0, <1>2 DEF Connected, Dialogs
  <2> QED BY <1>1, <1>2, <2>1, ClosedIs, StoreKeeps
          DEF Connected, Rebuild, DialogInv, NoDialog
<1>3. CASE RemoveOld
  <2>1. dialog.step = "remove" /\ dialog.kind = "edit" /\ dialog.original \in Name
        /\ dialog.name \in Name
    BY <1>3 DEF RemoveOld, IInv, DialogInv
  <2>2. Removed(store, dialog.original) \in Seq(Profile)
        /\ Unique(Removed(store, dialog.original))
    BY <1>0, <2>1, RemoveIs
  <2>3. /\ dialog' \in Dialogs /\ dialog'.kind = "edit" /\ dialog'.step = "upsert"
        /\ dialog'.name = dialog.name /\ dialog'.original = dialog.original
    BY <1>0, <1>3, <2>1 DEF RemoveOld, Dialogs
  <2>4. DialogInv'
    BY <2>1, <2>3 DEF DialogInv, NoDialog
  <2> QED BY <1>3, <2>2, <2>3, <2>4, StoreKeeps DEF RemoveOld
<1>4. ASSUME Upsert \/ UpsertFails
      PROVE  dialog.step = "upsert" /\ dialog.kind = "edit" /\ dialog.original \in Name
             /\ dialog.name \in Name
  BY <1>4 DEF Upsert, UpsertFails, IInv, DialogInv
<1>5. CASE Upsert
  BY <1>1, <1>4, <1>5, ClosedIs, StoreKeeps DEF Upsert, Rebuild, DialogInv, NoDialog
<1>6. CASE UpsertFails
  <2>1. /\ dialog' \in Dialogs /\ dialog'.kind = "edit" /\ dialog'.step = "open"
        /\ dialog'.original = dialog.original
    BY <1>0, <1>4, <1>6 DEF UpsertFails, Dialogs
  <2>2. DialogInv' /\ failures' # 0
    BY <1>4, <1>6, <2>1, FailedIs DEF UpsertFails, SaveFails, DialogInv, NoDialog, IInv
  <2> QED BY <1>1, <1>4, <1>6, <2>1, <2>2, StoreKeeps DEF UpsertFails
<1> QED BY <1>2, <1>3, <1>5, <1>6

(* The sidebar is brought up to date. *)
LEMMA ConnectedKeeps == ASSUME IInv, OnConnected PROVE IInv'
<1>1. /\ store' = store /\ UNCHANGED <<disk, failures>>
      /\ dialog' = dialog /\ rows' = store'
  BY DEF OnConnected, Rebuild
<1>2. store' \in Seq(Profile) /\ Unique(store')
  BY <1>1 DEF IInv, TypeOK, NamesUnique
<1>3. dialog' \in Dialogs /\ DialogInv'
  BY <1>1 DEF IInv, TypeOK, Dialogs, DialogInv, NoDialog
<1> QED BY <1>1, <1>2, <1>3, StoreKeeps

(* The program starts from the file, which it would write again as it is. *)
LEMMA RestartKeeps == ASSUME IInv, Restart PROVE IInv'
<1>1. /\ rows' = store' /\ dialog' = Closed /\ disk' = disk
      /\ \/ store' = disk /\ failures' = failures
         \/ Failure /\ store' = <<>>
  BY DEF Restart, Rebuild
<1>2. disk \in Seq(Profile) /\ Unique(disk) /\ Unique(<<>>) /\ <<>> \in Seq(Profile)
  BY DEF IInv, TypeOK, NamesUnique, Unique
<1>3. Written(disk) = disk
  BY <1>2, WrittenFacts DEF IInv, DiskIsFile
<1>4. /\ store' \in Seq(Profile) /\ Unique(store')
      /\ failures' \in 0 .. MaxFailures
      /\ failures' = 0 => store' = disk
  BY <1>1, <1>2, FailedIs DEF IInv, TypeOK
<1>5. TypeOK'
  BY <1>1, <1>2, <1>4, ClosedIs DEF TypeOK, Dialogs
<1>6. NamesUnique' /\ DiskIsFile'
  BY <1>1, <1>2, <1>4 DEF IInv, NamesUnique, DiskIsFile, Unique
<1>7. DialogInv'
  BY <1>1, ClosedIs DEF DialogInv, NoDialog
<1>8. CopiesInv'
  BY <1>1, <1>3, <1>4 DEF CopiesInv, Written, WrittenFirst
<1> QED BY <1>5, <1>6, <1>7, <1>8 DEF IInv

(* IInv is an inductive invariant: every click, save and restart preserves *)
(* it.                                                                     *)
THEOREM Invariant == Spec => []IInv
<1>1. IInv /\ [Next]_vars => IInv'
  <2> SUFFICES ASSUME IInv, [Next]_vars PROVE IInv'
    OBVIOUS
  <2>1. CASE UNCHANGED vars
    <3>1. dialog' \in Dialogs /\ DialogInv'
      BY <2>1 DEF vars, IInv, TypeOK, Dialogs, DialogInv, NoDialog
    <3> QED BY <2>1, <3>1, DialogKeeps DEF vars
  <2> QED BY <2>1, DialogSteps, StoreSteps, ConnectedKeeps, RestartKeeps DEF Next
<1> QED BY <1>1, InitKeeps, PTL DEF Spec

(* The store, the file and the sidebar hold profiles, and a dialog's       *)
(* entries stay in range.                                                  *)
THEOREM TypeCorrect == Spec => []TypeOK
<1>1. IInv => TypeOK
  BY DEF IInv
<1> QED BY <1>1, Invariant, PTL

(* However profiles are added, renamed, saved and loaded again, and        *)
(* whatever fails meanwhile, no two of them get the same name.             *)
THEOREM NamesHold == Spec => []NamesUnique
<1>1. IInv => NamesUnique
  BY DEF IInv
<1> QED BY <1>1, Invariant, PTL

(* As long as nothing failed, the file is what saving the store would      *)
(* write, and the sidebar that can be clicked shows the store.             *)
THEOREM CopiesHold == Spec => []CopiesAgree
<1>1. IInv => CopiesAgree
  BY DEF IInv, CopiesInv, CopiesAgree, DialogInv
<1> QED BY <1>1, Invariant, PTL

-----------------------------------------------------------------------------
(* The store implements the book. *)

LEMMA BookTypes ==
    ASSUME IInv
    PROVE  /\ BookOf(store) \in Book!Books /\ BookOf(disk) \in Book!Books
           /\ dialog.name \in Name =>
                 BookOf(Upserted(store, Entered))
                    = [BookOf(store) EXCEPT ![dialog.name] = dialog.val]
           /\ dialog.val \in Val
           /\ \A n \in Name \ GroupName : BookOf(disk)[n] = NoVal
<1>1. /\ store \in Seq(Profile) /\ Unique(store)
      /\ disk \in Seq(Profile) /\ Unique(disk)
  BY DEF IInv, TypeOK, NamesUnique
<1>2. \A n \in Name \ GroupName : n \notin Names(disk)
  BY DEF IInv, DiskIsFile, Names
<1>3. dialog.val \in Val
  BY DEF IInv, TypeOK
<1> QED BY <1>1, <1>2, <1>3, BookIs, UpsertIs, EnteredIs DEF Book!Books, IInv

(* Saving a store copies the book as it then is, except at the names that  *)
(* a key file refuses, and there the file never has an entry.              *)
LEMMA SaveIsSave ==
    ASSUME IInv, NEW s \in Seq(Profile), Unique(s), NEW b \in Book!Books,
           SaveOk(s) \/ UNCHANGED disk,
           \A n \in Name : BookOf(s)[n] \in {BookNow[n], b[n]}
    PROVE  /\ BookOf(disk)' \in Book!Books
           /\ \A n \in Name : BookOf(disk)'[n] \in {BookOf(disk)[n], BookNow[n], b[n]}
<1>1. BookOf(disk) \in Book!Books
  BY BookTypes
<1>2. CASE SaveOk(s)
  <2>1. BookOf(disk)' = BookOf(Written(s))
    BY <1>2 DEF SaveOk, BookOf, Names
  <2>2. BookOf(Written(s)) =
           [n \in Name |-> IF n \in GroupName THEN BookOf(s)[n] ELSE NoVal]
    BY WrittenIs
  <2>3. BookOf(s) \in Book!Books
    BY BookIs DEF Book!Books
  <2> QED BY <2>1, <2>2, <2>3, BookTypes DEF Book!Books
<1>3. CASE UNCHANGED disk
  <2>1. BookOf(disk)' = BookOf(disk)
    BY <1>3 DEF BookOf, Names
  <2> QED BY <1>1, <2>1
<1> QED BY <1>2, <1>3

(* A prime goes through the operators, which have no state of their own. *)
LEMMA Primes ==
    /\ Upserted(store, Entered)' = Upserted(store', Entered')
    /\ BookOf(store)' = BookOf(store')
    /\ BookOf(disk)' = BookOf(disk')
    /\ BookOf(Upserted(store, Entered))' = BookOf(Upserted(store', Entered'))
<1>1. Upserted(store, Entered)' = Upserted(store', Entered')
  BY DEF Upserted, IndexOf, SelectInSeq, ReplaceAt, Min
<1>2. BookOf(store)' = BookOf(store') /\ BookOf(disk)' = BookOf(disk')
  BY DEF BookOf, Names
<1>3. BookOf(Upserted(store, Entered))' = BookOf(Upserted(store, Entered)')
  BY DEF BookOf, Names
<1> QED BY <1>1, <1>2, <1>3

LEMMA Unchanged ==
    /\ store' = store => BookOf(store)' = BookOf(store)
    /\ disk' = disk => BookOf(disk)' = BookOf(disk)
BY Primes

(* The steps that leave the store alone: a dialog is opened or closed, or  *)
(* an edit that keeps the name is confirmed.                               *)
LEMMA DialogImplements ==
    ASSUME IInv,
           \/ OpenAdd \/ Cancel \/ ClickConnect \/ ConnectFailed \/ ClickSave
           \/ \E i \in DOMAIN rows : OpenEdit(i)
           \/ \E n \in Name \cup {NoName}, v \in Val : Type(n, v)
    PROVE  [Book!Next]_(Book!vars)
<1>0. /\ dialog \in Dialogs
      /\ BookOf(store)' = BookOf(store) /\ BookOf(disk)' = BookOf(disk)
  BY Unchanged DEF IInv, TypeOK, Dialogs, OpenAdd, Cancel, ClickConnect,
     ConnectFailed, ClickSave, OpenEdit, Type
<1>1. ASSUME dialog.step # "upsert", dialog'.step # "upsert", OpenNow' = OpenNow
      PROVE  UNCHANGED Book!vars
  BY <1>0, <1>1 DEF Book!vars, BookNow
<1>2. CASE OpenAdd
  BY <1>1, <1>2, ClosedIs
  DEF OpenAdd, NoDialog, OpenNow, IInv, DialogInv, Closed
<1>3. CASE Cancel
  <2>1. dialog.step = "open" /\ BookNow' = BookNow /\ OpenNow' = NoName
    BY <1>0, <1>3, ClosedIs DEF Cancel, BookNow, OpenNow
  <2>2. Book!Close
    BY <1>0, <2>1, BookTypes DEF Book!Close, Book!Save, Book!Books
  <2> QED BY <2>2 DEF Book!Next
<1>4. CASE ClickConnect
  <2>1. /\ dialog.step = "open" /\ dialog'.step = "busy"
        /\ dialog.kind = "add" /\ dialog'.kind = "add"
    BY <1>0, <1>4 DEF ClickConnect, Dialogs
  <2> QED BY <1>1, <2>1 DEF OpenNow
<1>5. CASE ConnectFailed
  <2>1. /\ dialog.step = "busy" /\ dialog'.step = "open"
        /\ dialog'.kind = dialog.kind /\ dialog'.original = dialog.original
    BY <1>0, <1>5 DEF ConnectFailed, Dialogs
  <2> QED BY <1>1, <2>1 DEF OpenNow
<1>6. CASE ClickSave
  <2>1. /\ dialog.kind = "edit" /\ dialog'.kind = "edit" /\ dialog.step = "open"
        /\ dialog'.name = dialog.name /\ dialog'.val = dialog.val
        /\ dialog.name \in Name /\ dialog'.original = dialog.original
        /\ dialog'.step = IF dialog.original # dialog.name THEN "remove" ELSE "upsert"
        /\ store' = store
    BY <1>0, <1>6 DEF ClickSave, Dialogs
  <2>2. CASE dialog.original # dialog.name
    BY <1>1, <2>1, <2>2 DEF OpenNow
  <2>3. CASE dialog.original = dialog.name
    <3>1. Entered' = Entered
      BY <2>1 DEF Entered
    <3>2. BookNow' = BookOf(Upserted(store, Entered)) /\ BookNow = BookOf(store)
      BY <2>1, <2>3, <3>1, Primes DEF BookNow
    <3>3. BookNow' = [BookNow EXCEPT ![OpenNow] = NoVal, ![dialog.name] = dialog.val]
      BY <2>1, <2>3, <3>2, BookTypes DEF OpenNow, Book!Books
    <3>4. Book!Save
      BY <1>0, BookTypes DEF Book!Save, Book!Books
    <3>5. OpenNow # NoName /\ OpenNow' = OpenNow
      BY <2>1, ProfilesAssumption DEF OpenNow, IInv, DialogInv
    <3>6. Book!Edit(dialog.name, dialog.val)
      BY <3>3, <3>4, <3>5 DEF Book!Edit
    <3> QED BY <2>1, <3>6, BookTypes DEF Book!Next
  <2> QED BY <2>2, <2>3
<1>7. ASSUME NEW i \in DOMAIN rows, OpenEdit(i) PROVE [Book!Next]_(Book!vars)
  <2>1. rows[i].name \in Name
    <3>1. rows[i] \in Profile
      BY DEF IInv, TypeOK
    <3> QED BY <3>1 DEF Profile
  <2>2. /\ dialog.kind = "none" /\ dialog.step = "open" /\ dialog'.step = "open"
        /\ OpenNow = NoName /\ OpenNow' = rows[i].name
    BY <1>7 DEF OpenEdit, NoDialog, OpenNow, IInv, DialogInv
  <2>3. Book!Open(rows[i].name)
    BY <1>0, <2>2 DEF Book!Open, BookNow
  <2> QED BY <2>1, <2>3 DEF Book!Next
<1>8. ASSUME NEW n \in Name \cup {NoName}, NEW v \in Val, Type(n, v)
      PROVE  [Book!Next]_(Book!vars)
  <2>1. /\ dialog'.kind = dialog.kind /\ dialog'.step = dialog.step
        /\ dialog'.original = dialog.original /\ dialog.step \in {"open", "busy"}
    BY <1>0, <1>8 DEF Type, Dialogs
  <2> QED BY <1>1, <2>1 DEF OpenNow
<1> QED BY <1>2, <1>3, <1>4, <1>5, <1>6, <1>7, <1>8

LEMMA StoreImplements ==
    ASSUME IInv, Connected \/ RemoveOld \/ Upsert \/ UpsertFails
    PROVE  [Book!Next]_(Book!vars)
<1> DEFINE put == Upserted(store, Entered)
<1>0. /\ dialog \in Dialogs /\ store \in Seq(Profile) /\ Unique(store)
      /\ BookOf(store) \in Book!Books /\ dialog.val \in Val
  BY BookTypes DEF IInv, TypeOK, NamesUnique, Dialogs
<1>1. dialog.name \in Name =>
         /\ put \in Seq(Profile) /\ Unique(put)
         /\ BookOf(put) = [BookOf(store) EXCEPT ![dialog.name] = dialog.val]
         /\ BookOf(put) \in Book!Books
  BY <1>0, EnteredIs, UpsertIs, BookIs, BookTypes DEF IInv, Book!Books
<1>2. CASE Connected
  <2>1. /\ dialog.name \in Name /\ dialog.kind = "add" /\ dialog.step = "busy"
        /\ store' = put /\ SaveOk(put) /\ dialog' = Closed
    BY <1>0, <1>2 DEF Connected, Dialogs, IInv, DialogInv
  <2>2. /\ BookNow = BookOf(store) /\ BookNow' = BookOf(put)
        /\ OpenNow = NoName /\ OpenNow' = NoName
    BY <2>1, ClosedIs DEF BookNow, OpenNow, BookOf, Names
  <2>3. Book!Save
    BY <1>1, <2>1, <2>2, SaveIsSave DEF Book!Save
  <2>4. Book!Add(dialog.name, dialog.val)
    BY <1>1, <2>1, <2>2, <2>3 DEF Book!Add
  <2> QED BY <1>0, <2>1, <2>4 DEF Book!Next
<1>3. CASE RemoveOld
  <2> DEFINE cut == Removed(store, dialog.original)
  <2>1. /\ dialog.step = "remove" /\ dialog.kind = "edit"
        /\ dialog.original \in Name /\ dialog.name \in Name
        /\ dialog.original # dialog.name
        /\ dialog' = [dialog EXCEPT !.step = "upsert"]
        /\ store' = cut
        /\ SaveOk(cut) \/ UNCHANGED disk
    BY <1>3 DEF RemoveOld, SaveFails, IInv, DialogInv
  <2>2. /\ cut \in Seq(Profile) /\ Unique(cut)
        /\ BookOf(cut) = [BookOf(store) EXCEPT ![dialog.original] = NoVal]
    BY <1>0, <2>1, RemoveIs
  <2>3. /\ dialog'.step = "upsert" /\ dialog'.kind = "edit"
        /\ dialog'.name = dialog.name /\ dialog'.val = dialog.val
        /\ dialog'.original = dialog.original
    BY <1>0, <2>1 DEF Dialogs
  <2>4. BookOf(Upserted(cut, Entered)) = [BookOf(cut) EXCEPT ![dialog.name] = dialog.val]
    <3>1. Entered \in Profile /\ Entered.name = dialog.name /\ Entered.val = dialog.val
      BY <2>1, EnteredIs DEF IInv
    <3> HIDE DEF cut
    <3>2. /\ cut \in Seq(Profile) /\ Unique(cut)
      BY <2>2
    <3>3. BookOf(Upserted(cut, Entered)) = [BookOf(cut) EXCEPT ![Entered.name] = Entered.val]
      BY <3>1, <3>2, UpsertIs
    <3> QED BY <3>1, <3>3
  <2>5. /\ BookNow = BookOf(store) /\ BookNow' = BookOf(Upserted(cut, Entered))
        /\ OpenNow = dialog.original /\ OpenNow' = OpenNow /\ OpenNow # NoName
    <3>1. Entered' = Entered
      BY <2>3 DEF Entered
    <3>2. BookNow' = BookOf(Upserted(cut, Entered))
      BY <2>1, <2>3, <3>1, Primes DEF BookNow
    <3> QED BY <2>1, <2>3, <3>2, ProfilesAssumption DEF BookNow, OpenNow
  <2>6. BookNow' = [BookNow EXCEPT ![OpenNow] = NoVal, ![dialog.name] = dialog.val]
    BY <1>0, <2>2, <2>4, <2>5 DEF Book!Books
  <2>7. BookNow' \in Book!Books
    BY <1>0, <2>1, <2>5, <2>6 DEF Book!Books
  <2>8. \A n \in Name : BookOf(cut)[n] \in {BookNow[n], BookNow'[n]}
    BY <1>0, <2>1, <2>2, <2>5, <2>6 DEF Book!Books
  <2>9. Book!Save
    BY <2>1, <2>2, <2>7, <2>8, SaveIsSave DEF Book!Save
  <2>10. Book!Edit(dialog.name, dialog.val)
    BY <2>5, <2>6, <2>9 DEF Book!Edit
  <2> QED BY <1>0, <2>1, <2>10 DEF Book!Next
<1>4. ASSUME Upsert \/ UpsertFails
      PROVE  /\ dialog.step = "upsert" /\ dialog.name \in Name /\ dialog.kind = "edit"
             /\ store' = put /\ dialog'.step = "open"
             /\ BookNow = BookOf(put) /\ BookNow' = BookNow
  <2>1. /\ dialog.step = "upsert" /\ dialog.name \in Name /\ dialog.kind = "edit"
        /\ store' = put /\ dialog'.step = "open"
    BY <1>0, <1>4, ClosedIs DEF Upsert, UpsertFails, IInv, DialogInv, Dialogs
  <2>2. BookNow = BookOf(put) /\ BookNow' = BookOf(put)
    BY <2>1 DEF BookNow, BookOf, Names
  <2> QED BY <2>1, <2>2
<1>5. CASE Upsert
  <2>1. OpenNow' = NoName /\ SaveOk(put)
    BY <1>4, <1>5, ClosedIs DEF Upsert, OpenNow
  <2>2. Book!Save
    BY <1>1, <1>4, <1>5, <2>1, SaveIsSave DEF Book!Save
  <2>3. Book!Close
    BY <1>4, <1>5, <2>1, <2>2 DEF Book!Close
  <2> QED BY <2>3 DEF Book!Next
<1>6. CASE UpsertFails
  <2>1. BookOf(disk)' = BookOf(disk)
    BY <1>6, Unchanged DEF UpsertFails, SaveFails
  <2>2. OpenNow' = OpenNow
    BY <1>0, <1>6 DEF UpsertFails, OpenNow, Dialogs
  <2> QED BY <1>4, <1>6, <2>1, <2>2 DEF Book!vars
<1> QED BY <1>2, <1>3, <1>5, <1>6

LEMMA RestartImplements == ASSUME IInv, Restart PROVE Book!Restart
<1>1. /\ dialog' = Closed /\ disk' = disk
      /\ store' = disk \/ store' = <<>>
  BY DEF Restart
<1>2. BookNow' = BookOf(store)' /\ OpenNow' = NoName
  BY <1>1, ClosedIs DEF BookNow, OpenNow
<1>3. BookOf(disk)' = BookOf(disk)
  BY <1>1, Unchanged
<1>4. BookOf(store)' \in {BookOf(disk), BookOf(<<>>)}
  BY <1>1, Primes
<1>5. BookOf(<<>>) = Book!Empty
  BY DEF BookOf, Names, Book!Empty
<1> QED BY <1>2, <1>3, <1>4, <1>5 DEF Book!Restart

(* The store, the file and the dialogs implement the book of profiles:     *)
(* each of their steps is one of the book's or is none.                    *)
THEOREM ProfilesImplementBook == Spec => BookSpec
<1>1. IInv /\ Init => Book!Init
  <2> SUFFICES ASSUME IInv, Init PROVE Book!Init
    OBVIOUS
  <2>1. store = disk /\ dialog = Closed
    BY DEF Init
  <2> QED BY <2>1, BookTypes, ClosedIs DEF Book!Init, BookNow, OpenNow
<1>2. IInv /\ [Next]_vars => [Book!Next]_(Book!vars)
  <2> SUFFICES ASSUME IInv, [Next]_vars PROVE [Book!Next]_(Book!vars)
    OBVIOUS
  <2>1. CASE UNCHANGED vars \/ OnConnected
    <3>1. store' = store /\ disk' = disk /\ dialog' = dialog /\ Entered' = Entered
      BY <2>1 DEF vars, OnConnected, Entered
    <3> QED BY <3>1, Primes DEF Book!vars, BookNow, OpenNow
  <2>2. CASE Restart
    BY <2>2, RestartImplements DEF Book!Next
  <2> QED BY <2>1, <2>2, DialogImplements, StoreImplements DEF Next
<1> QED BY <1>1, <1>2, InitKeeps, Invariant, PTL DEF Spec, BookSpec, Book!Spec
=============================================================================
