------------------------- MODULE LanguagePageProofs -------------------------
(***************************************************************************)
(* What the page of TerraFormats keeps under every fault, for any number   *)
(* of copies, of kinds of faults, of priorities and of enabled packs.      *)
(***************************************************************************)
EXTENDS LanguagePage, SubsequenceProofs

(* A list as it may stand in memory or in config.json.                     *)
Listed(s) == s \in Seq(Setting) /\ Distinct(s)

----------------------------------------------------------------------------
(* The order of the page.                                                  *)

(* Before is a strict order in which any two places are related.           *)
LEMMA BeforeOrders ==
  ASSUME NEW s \in Seq(Setting), NEW i \in DOMAIN s, NEW j \in DOMAIN s, NEW k \in DOMAIN s
  PROVE  /\ ~Before(s, i, i)
         /\ Before(s, i, j) /\ Before(s, j, k) => Before(s, i, k)
         /\ i # j => Before(s, i, j) \/ Before(s, j, i)
<1>1. \A n \in DOMAIN s : s[n] \in Setting /\ n \in Int
  BY SeqElement
<1>2. PICK E : E = {n \in DOMAIN s : s[n].isEnabled}
  OBVIOUS
<1>3. PICK P, N : P = [n \in DOMAIN s |-> s[n].priority] /\ N = [n \in DOMAIN s |-> NameRank[s[n].path]]
  OBVIOUS
<1>4. \A n \in DOMAIN s : P[n] \in Int /\ N[n] \in Int /\ s[n].isEnabled \in BOOLEAN
  <2>1. \A n \in DOMAIN s : s[n].priority \in 0 .. MaxPriority /\ s[n].path \in Packs /\ s[n].isEnabled \in BOOLEAN
    BY <1>1 DEF Setting
  <2>2. \A n \in DOMAIN s : NameRank[s[n].path] \in Nat /\ MaxPriority \in Nat
    BY <2>1, PageAssumption
  <2>3. QED
    BY <1>3, <2>1, <2>2
<1>5. \A m, n \in DOMAIN s :
        Before(s, m, n) <=> \/ m \in E /\ n \notin E
                            \/ /\ m \in E <=> n \in E
                               /\ \/ P[m] > P[n]
                                  \/ P[m] = P[n] /\ N[m] < N[n]
                                  \/ P[m] = P[n] /\ N[m] = N[n] /\ m < n
  <2> SUFFICES ASSUME NEW m \in DOMAIN s, NEW n \in DOMAIN s
               PROVE  Before(s, m, n) <=> \/ m \in E /\ n \notin E
                                          \/ /\ m \in E <=> n \in E
                                             /\ \/ P[m] > P[n]
                                                \/ P[m] = P[n] /\ N[m] < N[n]
                                                \/ P[m] = P[n] /\ N[m] = N[n] /\ m < n
    OBVIOUS
  <2>1. (m \in E <=> s[m].isEnabled) /\ (n \in E <=> s[n].isEnabled)
    BY <1>2
  <2>2. (s[m].isEnabled = s[n].isEnabled) <=> (m \in E <=> n \in E)
    BY <1>4, <2>1, Zenon
  <2>3. P[m] = s[m].priority /\ P[n] = s[n].priority /\ N[m] = NameRank[s[m].path] /\ N[n] = NameRank[s[n].path]
    BY <1>3
  <2>4. QED
    BY <2>1, <2>2, <2>3, Zenon DEF Before
<1>6. QED
  BY <1>1, <1>4, <1>5

(* So the ranks number the places.                                         *)
LEMMA Ranks ==
  ASSUME NEW s \in Seq(Setting)
  PROVE  /\ \A i \in DOMAIN s : Rank(s, i) \in DOMAIN s
         /\ \A n \in DOMAIN s : \E i \in DOMAIN s : Rank(s, i) = n
         /\ \A i, j \in DOMAIN s : Before(s, i, j) => Rank(s, i) < Rank(s, j)
         /\ \A i, j \in DOMAIN s : Rank(s, i) = Rank(s, j) => i = j
<1> DEFINE D == DOMAIN s
           B(i) == {j \in D : Before(s, j, i)}
           r == [i \in D |-> Rank(s, i)]
<1>1. D = 1 .. Len(s) /\ Len(s) \in Nat
  OBVIOUS
<1>2. IsFiniteSet(D) /\ Cardinality(D) = Len(s)
  BY <1>1, FS_Interval
<1>3. ASSUME NEW i \in D
      PROVE  IsFiniteSet(B(i)) /\ Cardinality(B(i)) \in Nat /\ Rank(s, i) = Cardinality(B(i)) + 1 /\ i \notin B(i)
             /\ IsFiniteSet(B(i) \union {i}) /\ Cardinality(B(i) \union {i}) = Cardinality(B(i)) + 1
  <2>1. B(i) \in SUBSET D /\ i \notin B(i)
    BY BeforeOrders
  <2>2. IsFiniteSet(B(i)) /\ Cardinality(B(i)) \in Nat
    BY <1>2, <2>1, FS_Subset, FS_CardinalityType
  <2>3. IsFiniteSet(B(i) \union {i}) /\ Cardinality(B(i) \union {i}) = Cardinality(B(i)) + 1
    BY <2>1, <2>2, FS_AddElement
  <2>4. Rank(s, i) = Cardinality(B(i)) + 1
    BY <2>2 DEF Rank
  <2>5. QED
    BY <2>1, <2>2, <2>3, <2>4
<1>4. ASSUME NEW i \in D PROVE Rank(s, i) \in D
  <2>1. (B(i) \union {i}) \in SUBSET D
    OBVIOUS
  <2>2. Cardinality(B(i) \union {i}) <= Len(s)
    BY <1>2, <2>1, FS_Subset
  <2>3. PICK b : b = Cardinality(B(i))
    OBVIOUS
  <2>4. b \in Nat /\ Rank(s, i) = b + 1 /\ b + 1 <= Len(s)
    BY <1>3, <2>2, <2>3
  <2>5. QED
    BY <1>1, <2>4
<1>5. ASSUME NEW i \in D, NEW j \in D, Before(s, i, j) PROVE Rank(s, i) < Rank(s, j)
  <2>1. (B(i) \union {i}) \in SUBSET B(j)
    BY <1>5, BeforeOrders
  <2>2. Cardinality(B(i) \union {i}) <= Cardinality(B(j))
    BY <1>3, <2>1, FS_Subset
  <2>3. PICK a, b : a = Cardinality(B(i)) /\ b = Cardinality(B(j))
    OBVIOUS
  <2>4. a \in Nat /\ b \in Nat /\ Rank(s, i) = a + 1 /\ Rank(s, j) = b + 1 /\ a + 1 <= b
    BY <1>3, <2>2, <2>3
  <2>5. QED
    BY <2>4
<1>6. ASSUME NEW i \in D, NEW j \in D, Rank(s, i) = Rank(s, j) PROVE i = j
  <2>1. Rank(s, i) \in Int /\ Rank(s, j) \in Int
    BY <1>1, <1>4
  <2>2. ~Before(s, i, j) /\ ~Before(s, j, i)
    BY <1>5, <1>6, <2>1
  <2>3. QED
    BY <2>2, BeforeOrders
<1>7. r \in Injection(D, D)
  <2>1. r \in [D -> D] /\ DOMAIN r = D
    BY <1>4
  <2>2. \A i, j \in D : r[i] = r[j] => i = j
    BY <1>6
  <2>3. QED
    BY <2>1, <2>2 DEF Injection, IsInjective
<1>8. r \in Surjection(D, D)
  BY <1>2, <1>7, FS_Injection
<1>9. \A n \in D : \E i \in D : Rank(s, i) = n
  BY <1>8 DEF Surjection
<1>10. QED
  BY <1>4, <1>5, <1>6, <1>9

(* sortedWith loses nothing and lists nothing twice.                       *)
LEMMA SortedKeeps ==
  ASSUME NEW s, Listed(s)
  PROVE  Listed(Sorted(s)) /\ ToSet(Sorted(s)) = ToSet(s)
<1> DEFINE D == DOMAIN s
<1>1. s \in Seq(Setting) /\ Distinct(s)
  BY DEF Listed
<1>2. PICK t : t = Sorted(s)
  OBVIOUS
<1>3. PICK f : f = [n \in D |-> CHOOSE i \in D : Rank(s, i) = n]
  OBVIOUS
<1>4. \A n \in D : f[n] \in D /\ Rank(s, f[n]) = n
  BY <1>1, <1>3, Ranks
<1>5. \A i \in D : f[Rank(s, i)] = i /\ Rank(s, i) \in D
  BY <1>1, <1>4, Ranks
<1>6. DOMAIN t = D /\ \A n \in D : t[n] = s[f[n]]
  BY <1>2, <1>3 DEF Sorted
<1>7. t \in Seq(Setting)
  <2>1. D = 1 .. Len(s) /\ Len(s) \in Nat /\ \A n \in D : s[f[n]] \in Setting
    BY <1>1, <1>4, SeqElement
  <2>2. t = [n \in 1 .. Len(s) |-> s[f[n]]]
    BY <1>2, <1>3, <2>1 DEF Sorted
  <2>3. QED
    BY <2>1, <2>2
<1>8. Distinct(t)
  <2> SUFFICES ASSUME NEW m \in DOMAIN t, NEW n \in DOMAIN t, t[m].path = t[n].path PROVE m = n
    BY DEF Distinct
  <2>1. f[m] = f[n]
    BY <1>1, <1>4, <1>6 DEF Distinct
  <2>2. Rank(s, f[m]) = m /\ Rank(s, f[n]) = n
    BY <1>4, <1>6
  <2>3. QED
    BY <2>1, <2>2
<1>9. ToSet(t) = ToSet(s)
  BY <1>4, <1>5, <1>6 DEF ToSet
<1>10. QED
  BY <1>2, <1>7, <1>8, <1>9 DEF Listed

----------------------------------------------------------------------------
(* Lists and the packs they list.                                          *)

(* Paths is the set of the paths of a list's entries.                      *)
LEMMA PathsOf ==
  ASSUME NEW s
  PROVE  Paths(s) = {e.path : e \in ToSet(s)}
BY DEF Paths, ToSet

(* A filtered list lists nothing twice and nothing else.                   *)
LEMMA Filtered ==
  ASSUME NEW s, Listed(s), NEW I \in SUBSET (DOMAIN s)
  PROVE  /\ Listed(Subsequence(s, I))
         /\ ToSet(Subsequence(s, I)) = {s[i] : i \in I}
<1> DEFINE t == Subsequence(s, I)
<1>1. s \in Seq(Setting) /\ Distinct(s)
  BY DEF Listed
<1>2. /\ t \in Seq(Setting) /\ DOMAIN t = 1 .. Cardinality(I) /\ Cardinality(I) \in Nat
      /\ ToSet(t) = {s[i] : i \in I}
      /\ \A n \in DOMAIN t : Place(I, n) \in I /\ t[n] = s[Place(I, n)]
      /\ \A m, n \in DOMAIN t : m < n => Place(I, m) < Place(I, n)
  BY <1>1, SubsequenceElements
<1> HIDE DEF t
<1>3. \A n \in DOMAIN t : Place(I, n) \in DOMAIN s /\ Place(I, n) \in Int /\ n \in Int
  BY <1>1, <1>2
<1>4. Distinct(t)
  <2> SUFFICES ASSUME NEW m \in DOMAIN t, NEW n \in DOMAIN t, t[m].path = t[n].path PROVE m = n
    BY DEF Distinct
  <2>1. Place(I, m) = Place(I, n)
    BY <1>1, <1>2, <1>3 DEF Distinct
  <2>2. ~(m < n) /\ ~(n < m) /\ m \in Int /\ n \in Int
    BY <1>2, <1>3, <2>1
  <2>3. QED
    BY <2>2
<1>5. QED
  BY <1>2, <1>4 DEF t, Listed

(* At most MaxEnabled of a list are enabled.                               *)
Capped(s) == Cardinality(EnabledIn(s)) <= MaxEnabled

EnabledPaths(s) == {s[i].path : i \in EnabledIn(s)}

(* They can be counted by their names.                                     *)
LEMMA CountPaths ==
  ASSUME NEW s, Listed(s)
  PROVE  /\ IsFiniteSet(EnabledPaths(s)) /\ Cardinality(EnabledPaths(s)) \in Nat
         /\ Cardinality(EnabledIn(s)) = Cardinality(EnabledPaths(s))
<1> DEFINE I == EnabledIn(s)
           T == EnabledPaths(s)
           f == [i \in I |-> s[i].path]
<1>1. s \in Seq(Setting) /\ Distinct(s) /\ I \in SUBSET (DOMAIN s)
  BY DEF Listed, EnabledIn
<1>2. DOMAIN s = 1 .. Len(s) /\ Len(s) \in Nat
  BY <1>1
<1>3. IsFiniteSet(DOMAIN s)
  BY <1>2, FS_Interval
<1>4. IsFiniteSet(I)
  BY <1>1, <1>3, FS_Subset
<1>5. f \in Bijection(I, T)
  <2>1. f \in [I -> T] /\ DOMAIN f = I /\ \A t \in T : \E i \in I : f[i] = t
    BY DEF EnabledPaths
  <2>2. \A i, j \in I : f[i] = f[j] => i = j
    BY <1>1 DEF Distinct
  <2>3. QED
    BY <2>1, <2>2 DEF Bijection, Injection, Surjection, IsInjective
<1>6. ExistsBijection(I, T)
  BY <1>5 DEF ExistsBijection
<1>7. IsFiniteSet(T) /\ Cardinality(T) = Cardinality(I)
  BY <1>4, <1>6, FS_Bijection
<1>8. QED
  BY <1>7, FS_CardinalityType

(* A list with no other packs enabled has as few of them.                  *)
LEMMA CapKept ==
  ASSUME NEW s, Listed(s), Capped(s), NEW t, Listed(t), EnabledPaths(t) \subseteq EnabledPaths(s)
  PROVE  Capped(t)
<1>1. Cardinality(EnabledPaths(t)) <= Cardinality(EnabledPaths(s))
  BY CountPaths, FS_Subset
<1>2. QED
  BY <1>1, CountPaths, PageAssumption DEF Capped

(* One more can be enabled where one is missing.                           *)
LEMMA CapOneMore ==
  ASSUME NEW s, Listed(s), ~(Cardinality(EnabledIn(s)) >= MaxEnabled),
         NEW t, Listed(t), NEW p, EnabledPaths(t) \subseteq EnabledPaths(s) \union {p}
  PROVE  Capped(t)
<1>1. PICK S, T : S = EnabledPaths(s) /\ T = EnabledPaths(t)
  OBVIOUS
<1>2. IsFiniteSet(S) /\ Cardinality(S) \in Nat /\ Cardinality(S) = Cardinality(EnabledIn(s)) /\ T \in SUBSET (S \union {p})
  BY <1>1, CountPaths
<1>3. IsFiniteSet(S \union {p}) /\ Cardinality(S \union {p}) <= Cardinality(S) + 1 /\ Cardinality(S \union {p}) \in Nat
  BY <1>2, FS_AddElement, FS_CardinalityType
<1>4. Cardinality(T) <= Cardinality(S \union {p}) /\ Cardinality(T) \in Nat /\ Cardinality(EnabledIn(t)) = Cardinality(T)
  BY <1>1, <1>2, <1>3, CountPaths, FS_Subset
<1>5. QED
  BY <1>2, <1>3, <1>4, PageAssumption DEF Capped

----------------------------------------------------------------------------
(* The invariant.                                                          *)

(* An entry with zips z, of which c were copied.                           *)
Fits(e, z, c) == e.path \in 1 .. c /\ z[e.path] \in {"absent"} \union PageReads

ListOK(s, z, c) == Listed(s) /\ Capped(s) /\ \A e \in ToSet(s) : Fits(e, z, c)

Types ==
  /\ zips \in [Packs -> AllContents \union {"absent"}]
  /\ configFile \in {"absent", "torn", "whole"}
  /\ errorMessage \in {"none", "load", "save", "install", "limit"}
  /\ DOMAIN cards \subseteq Packs
  /\ \A p \in DOMAIN cards : cards[p] \in [isEnabled : BOOLEAN, priority : 0 .. MaxPriority]
  /\ pc \in {"idle", "copy", "open", "write", "saved", "compose"}
  /\ picked \in AllContents /\ target \in Packs /\ thenLoad \in BOOLEAN
  /\ clock \in 0 .. MaxInstalls /\ installed \subseteq Packs /\ faults \subseteq Faults

ListsOK == ListOK(config, zips, clock) /\ ListOK(packInfos, zips, clock) /\ ListOK(toSave, zips, clock)

Saving == pc \in {"open", "write", "saved"}

(* What has not failed.                                                    *)
SavesEnd   == No({"open", "write"})
SavesWhole == No({"write", "tear"})
SavesDone  == No({"open", "write", "tear"})
CopiesOnly == No(Faults \ {"copy"})
NoneFailed == No(Faults)

(* The zip being copied is listed nowhere yet; what is in memory can be    *)
(* read, but for a pack being deleted.                                     *)
Zips ==
  /\ \A p \in Packs : p > clock => zips[p] = "absent"
  /\ pc = "copy" => clock \in Packs /\ clock \notin Paths(config) /\ clock \notin Paths(packInfos) /\ zips[clock] = "empty"
  /\ pc \in {"idle", "copy"} => toSave = <<>>
  /\ ~Saving \/ thenLoad => \A e \in ToSet(packInfos) : Readable(e.path)
  /\ \A e \in ToSet(toSave) : Readable(e.path)

(* Unless a save failed, what was to be saved was, and config.json is torn *)
(* only while it is written.                                               *)
Written ==
  /\ pc = "saved" /\ SavesEnd => configFile = "whole" /\ config = toSave
  /\ configFile = "torn" /\ SavesWhole => pc = "write"

(* The entries of config.json whose zip is there.                          *)
Entries == {e \in ToSet(config) : zips[e.path] # "absent"}

Shown ==
  SavesDone /\ (pc \in {"idle", "copy"} \/ (pc = "compose" /\ packInfos # <<>>)) => ToSet(packInfos) = Entries

(* The cards c that are drawn say of their packs what s does.              *)
Agree(s, c) == \A e \in ToSet(s) : e.path \in DOMAIN c => c[e.path] = Remembered(e)

(* Where the next list of the page may come from, the cards agree with it. *)
CardsAgree ==
  /\ pc \in {"idle", "copy"} => DOMAIN cards \subseteq Paths(packInfos)
  /\ SavesEnd =>
       /\ ~Saving => Agree(packInfos, cards)
       /\ Saving => Agree(toSave, cards)
       /\ pc = "compose" /\ packInfos = <<>> => Agree(config, cards)

(* An installed pack is on its way into config.json or there.              *)
Installs ==
  /\ \A p \in installed : Readable(p)
  /\ Saving /\ thenLoad => target \in Paths(toSave)
  /\ SavesDone =>
       /\ pc # "write" => installed \subseteq Paths(config)
       /\ Saving => installed \subseteq Paths(toSave)

(* What config.json says, or is about to say, and the pack that is on its  *)
(* way there.                                                              *)
Current == IF Saving THEN toSave ELSE config
Arriving == IF Saving /\ thenLoad THEN {target} ELSE {}

(* No other pack is listed; and only a failed copy leaves a zip that can   *)
(* be read and is not.                                                     *)
NoOthers ==
  /\ CopiesOnly => Paths(Current) \subseteq installed \union Arriving
  /\ NoneFailed => {p \in Packs : Readable(p)} \subseteq Paths(Current)

IInv == Types /\ ListsOK /\ Zips /\ Written /\ Shown /\ CardsAgree /\ Installs /\ NoOthers

----------------------------------------------------------------------------
(* Lists on disk and in memory.                                            *)

(* The empty list is in order, on any disk and with any cards.             *)
LEMMA EmptyList ==
  ASSUME NEW z, NEW c, NEW d
  PROVE  ListOK(<<>>, z, c) /\ Agree(<<>>, d) /\ ToSet(<<>>) = {} /\ Paths(<<>>) = {} /\ Listed(<<>>)
<1>1. <<>> \in Seq(Setting) /\ DOMAIN <<>> = {}
  OBVIOUS
<1>2. EnabledIn(<<>>) = {}
  BY <1>1 DEF EnabledIn
<1>3. Capped(<<>>)
  BY <1>2, FS_EmptySet, PageAssumption DEF Capped
<1>4. QED
  BY <1>1, <1>3 DEF ListOK, Listed, Distinct, Agree, ToSet, Paths

(* Elements of a list that is in order.                                    *)
LEMMA ListElement ==
  ASSUME NEW s, NEW z, NEW c \in Nat, ListOK(s, z, c), NEW e \in ToSet(s)
  PROVE  e \in Setting /\ e.path \in 1 .. c /\ e.path \in Nat /\ e.path \in Paths(s) /\ e.path \in Packs
<1>1. PICK i \in DOMAIN s : e = s[i]
  BY DEF ToSet
<1>2. e \in Setting
  BY <1>1, SeqElement DEF ListOK, Listed
<1>3. e.path \in Packs
  BY <1>2 DEF Setting
<1>4. QED
  BY <1>2, <1>3, PathsOf DEF ListOK, Fits

(* A list that is in order names packs copied so far.                      *)
LEMMA PathsListed ==
  ASSUME NEW s, NEW z, NEW c \in Nat, ListOK(s, z, c)
  PROVE  Paths(s) \subseteq 1 .. c /\ Paths(s) \subseteq Packs
BY ListElement, PathsOf

(* An entry is the only one of its pack.                                   *)
LEMMA OneEntry ==
  ASSUME NEW s, Distinct(s), NEW d \in ToSet(s), NEW e \in ToSet(s), d.path = e.path
  PROVE  d = e
BY DEF Distinct, ToSet

(* SettingOf finds the entry of a pack.                                    *)
LEMMA SettingOfEntry ==
  ASSUME NEW s, Distinct(s), NEW e \in ToSet(s)
  PROVE  SettingOf(s, e.path) = e
<1>1. PICK i \in DOMAIN s : e = s[i]
  BY DEF ToSet
<1>2. \A j \in DOMAIN s : s[j].path = e.path <=> j = i
  BY <1>1 DEF Distinct
<1>3. (CHOOSE j \in DOMAIN s : s[j].path = e.path) = i
  BY <1>2
<1>4. QED
  BY <1>1, <1>3 DEF SettingOf

(* EnabledPaths is the set of the paths of the enabled entries.            *)
LEMMA EnabledPathsOf ==
  ASSUME NEW s
  PROVE  EnabledPaths(s) = {e.path : e \in {e \in ToSet(s) : e.isEnabled}}
BY DEF EnabledPaths, EnabledIn, ToSet

(* A list stays in order while the zips it lists stay or are deleted.      *)
LEMMA ListKept ==
  ASSUME NEW s, NEW z, NEW c \in Nat, ListOK(s, z, c), NEW y, NEW d \in Nat, c <= d,
         \A p \in Paths(s) : y[p] \in {z[p], "absent"}
  PROVE  ListOK(s, y, d)
<1> SUFFICES ASSUME NEW e \in ToSet(s) PROVE Fits(e, y, d)
  BY DEF ListOK
<1>1. Fits(e, z, c) /\ e.path \in Paths(s)
  BY PathsOf DEF ListOK
<1>2. y[e.path] = z[e.path] \/ y[e.path] = "absent"
  BY <1>1
<1>3. e.path \in 1 .. d
  BY <1>1 DEF Fits
<1>4. QED
  BY <1>1, <1>2, <1>3 DEF Fits

(* So does one that lists less.                                            *)
LEMMA ListOfSome ==
  ASSUME NEW s, NEW z, NEW c, ListOK(s, z, c), NEW t, Listed(t), ToSet(t) \subseteq ToSet(s)
  PROVE  ListOK(t, z, c) /\ Paths(t) \subseteq Paths(s)
<1>1. EnabledPaths(t) \subseteq EnabledPaths(s)
  BY EnabledPathsOf
<1>2. Capped(t)
  BY <1>1, CapKept DEF ListOK
<1>3. QED
  BY <1>2, PathsOf DEF ListOK

(* Present is config.json without the entries whose zip is gone.           *)
LEMMA PresentListed ==
  ASSUME NEW z, NEW c, ListOK(config, z, c)
  PROVE  Listed(Present) /\ ToSet(Present) = Entries
<1> DEFINE I == {i \in DOMAIN config : zips[config[i].path] # "absent"}
<1>1. I \in SUBSET (DOMAIN config) /\ Listed(config)
  BY DEF ListOK
<1>2. Listed(Present) /\ ToSet(Present) = {config[i] : i \in I}
  BY <1>1, Filtered DEF Present
<1>3. {config[i] : i \in I} = {e \in ToSet(config) : zips[e.path] # "absent"}
  BY DEF ToSet
<1>4. QED
  BY <1>2, <1>3 DEF Entries

(* All of it can be read, so loadPackInfos shows all of it.                *)
LEMMA LoadShows ==
  ASSUME ListsOK, LoadPackInfos, clock \in Nat
  PROVE  /\ ListOK(packInfos', zips, clock)
         /\ errorMessage' \in {"none", "load"}
         /\ configFile = "torn" => packInfos' = packInfos
         /\ configFile # "torn" =>
              /\ ToSet(packInfos') = Entries /\ ToSet(packInfos') \subseteq ToSet(config)
              /\ \A e \in ToSet(packInfos') : Readable(e.path)
<1>1. CASE configFile = "torn"
  BY <1>1 DEF LoadPackInfos, ListsOK
<1>2. CASE configFile # "torn"
  <2>1. /\ packInfos' = Sorted(ReadableOf(Present))
        /\ errorMessage' \in {"none", "load"}
    BY <1>2 DEF LoadPackInfos
  <2>2. PICK s : s = Present
    OBVIOUS
  <2>3. Listed(s) /\ ToSet(s) = {e \in ToSet(config) : zips[e.path] # "absent"}
    BY <2>2, PresentListed DEF ListsOK, Entries
  <2>4. PICK r : r = ReadableOf(s)
    OBVIOUS
  <2>5. Listed(r) /\ ToSet(r) = {e \in ToSet(s) : Readable(e.path)}
    <3>1. {i \in DOMAIN s : Readable(s[i].path)} \in SUBSET (DOMAIN s)
      OBVIOUS
    <3>2. Listed(r) /\ ToSet(r) = {s[i] : i \in {i \in DOMAIN s : Readable(s[i].path)}}
      BY <2>3, <2>4, <3>1, Filtered DEF ReadableOf
    <3>3. QED
      BY <3>2 DEF ToSet
  <2>6. Listed(packInfos') /\ ToSet(packInfos') = ToSet(r)
    BY <2>1, <2>2, <2>4, <2>5, SortedKeeps
  <2>7. \A e \in ToSet(s) : Readable(e.path)
    BY <2>3 DEF ListsOK, ListOK, Fits, Readable, PageReads
  <2>8. ToSet(packInfos') = ToSet(s)
    BY <2>5, <2>6, <2>7
  <2>9. ListOK(packInfos', zips, clock)
    BY <2>3, <2>6, <2>8, ListOfSome DEF ListsOK
  <2>10. QED
    BY <1>2, <2>1, <2>3, <2>7, <2>8, <2>9 DEF Entries
<1>3. QED
  BY <1>1, <1>2

(* The empty page.                                                         *)
LEMMA InitInv ==
  Init => IInv
<1> SUFFICES ASSUME Init PROVE IInv
  OBVIOUS
<1>1. ListsOK /\ Agree(<<>>, cards) /\ ToSet(<<>>) = {} /\ Paths(<<>>) = {}
  BY EmptyList DEF Init, ListsOK
<1>2. zips = [p \in Packs |-> "absent"] /\ DOMAIN cards = {} /\ 1 \in Packs /\ 0 \in 0 .. MaxInstalls
  BY PageAssumption DEF Init, Packs
<1>3. Types
  BY <1>2 DEF Init, Types, AllContents
<1>4. \A p \in Packs : ~Readable(p)
  BY <1>2 DEF Readable, PageReads
<1>5. Zips
  BY <1>1, <1>2 DEF Init, Zips
<1>6. Written /\ Shown
  BY DEF Init, Written, Shown
<1>7. CardsAgree
  BY <1>1 DEF Init, CardsAgree, Saving
<1>8. Installs /\ NoOthers
  BY <1>1, <1>4 DEF Init, Installs, NoOthers, Current, Saving
<1>9. QED
  BY <1>1, <1>3, <1>5, <1>6, <1>7, <1>8 DEF IInv

----------------------------------------------------------------------------
(* The steps.                                                              *)

(* Faults are not forgotten.                                               *)
LEMMA FaultsGrow ==
  ASSUME faults \subseteq faults'
  PROVE  /\ SavesEnd' => SavesEnd
         /\ SavesWhole' => SavesWhole
         /\ SavesDone' => SavesDone
         /\ CopiesOnly' => CopiesOnly
         /\ NoneFailed' => NoneFailed
BY DEF SavesEnd, SavesWhole, SavesDone, CopiesOnly, NoneFailed, No

(* What each kind of fault puts an end to.                                 *)
LEMMA Faulty ==
  ASSUME Types
  PROVE  /\ UNCHANGED faults => faults \subseteq faults' /\ faults' \subseteq Faults
         /\ \A kind \in Faults : Fault(kind) => faults \subseteq faults' /\ faults' \subseteq Faults /\ ~NoneFailed'
         /\ Fault("open") => ~SavesEnd' /\ ~SavesDone' /\ ~CopiesOnly'
         /\ Fault("write") => ~SavesEnd' /\ ~SavesDone' /\ ~CopiesOnly' /\ ~SavesWhole'
         /\ Fault("tear") => ~SavesDone' /\ ~CopiesOnly' /\ ~SavesWhole'
         /\ Fault("crash") => ~CopiesOnly'
         /\ Fault("delete") => ~CopiesOnly'
         /\ SavesDone => SavesEnd /\ SavesWhole
         /\ CopiesOnly => SavesDone
         /\ NoneFailed => CopiesOnly
<1>1. \A kind : Fault(kind) => faults' = faults \union {kind}
  BY DEF Fault
<1>2. faults \subseteq {"copy", "delete", "open", "write", "crash", "tear"}
  BY DEF Types, Faults
<1>3. /\ SavesEnd' <=> "open" \notin faults' /\ "write" \notin faults'
      /\ SavesWhole' <=> "write" \notin faults' /\ "tear" \notin faults'
      /\ SavesDone' <=> "open" \notin faults' /\ "write" \notin faults' /\ "tear" \notin faults'
  BY DEF SavesEnd, SavesWhole, SavesDone, No
<1>4. ASSUME NEW kind \in {"delete", "open", "write", "crash", "tear"}, Fault(kind) PROVE ~CopiesOnly'
  BY <1>1, <1>4 DEF CopiesOnly, No, Faults
<1>5. /\ Fault("open") => ~SavesEnd' /\ ~SavesDone'
      /\ Fault("write") => ~SavesEnd' /\ ~SavesDone' /\ ~SavesWhole'
      /\ Fault("tear") => ~SavesDone' /\ ~SavesWhole'
  BY <1>1, <1>3
<1>6. (SavesDone => SavesEnd /\ SavesWhole) /\ (CopiesOnly => SavesDone) /\ (NoneFailed => CopiesOnly)
  BY DEF SavesEnd, SavesWhole, SavesDone, CopiesOnly, NoneFailed, No, Faults
<1>7. \A kind \in Faults : Fault(kind) => faults \subseteq faults' /\ faults' \subseteq Faults /\ ~NoneFailed'
  BY <1>1 DEF Types, NoneFailed, No
<1>8. UNCHANGED faults => faults \subseteq faults' /\ faults' \subseteq Faults
  BY DEF Types
<1>9. QED
  BY <1>4, <1>5, <1>6, <1>7, <1>8

(* A step of an installation that touches no list and leaves the zips that *)
(* can be read; only if something failed there is one more of them.        *)
LEMMA QuietInv ==
  ASSUME IInv, pc \in {"idle", "copy"}, pc' \in {"copy", "compose"}, Types',
         clock' \in Nat, clock <= clock', faults \subseteq faults',
         \A p \in Packs : zips[p] \in PageReads => zips'[p] \in PageReads,
         NoneFailed' => \A p \in Packs : zips'[p] \in PageReads => zips[p] \in PageReads,
         \A p \in Paths(config) \union Paths(packInfos) : zips'[p] \in {zips[p], "absent"},
         \A p \in Packs : p > clock' => zips'[p] = "absent",
         pc' = "copy" => clock' \in Packs /\ clock' \notin Paths(config) /\ clock' \notin Paths(packInfos) /\ zips'[clock'] = "empty",
         UNCHANGED <<configFile, config, packInfos, cards, toSave, target, thenLoad, installed>>
  PROVE  IInv'
<1>1. (CopiesOnly' => CopiesOnly) /\ (NoneFailed' => NoneFailed)
  BY FaultsGrow
<1>2. clock \in Nat /\ toSave = <<>> /\ toSave' = <<>> /\ ~Saving /\ ~Saving'
  BY PageAssumption DEF IInv, Types, Zips, Saving
<1>3. ListsOK'
  <2>1. ListOK(config, zips', clock') /\ ListOK(packInfos, zips', clock')
    BY <1>2, ListKept DEF IInv, ListsOK
  <2>2. ListOK(toSave', zips', clock')
    BY <1>2, EmptyList
  <2>3. QED
    BY <2>1, <2>2 DEF ListsOK
<1>4. \A e \in ToSet(packInfos) : e.path \in Packs /\ Readable(e.path)
  BY <1>2, ListElement DEF IInv, ListsOK, Zips
<1>5. Zips'
  <2>1. \A e \in ToSet(packInfos') : Readable(e.path)'
    BY <1>4 DEF Readable
  <2>2. \A e \in ToSet(toSave') : Readable(e.path)'
    BY <1>2, EmptyList
  <2>3. QED
    BY <1>2, <2>1, <2>2 DEF Zips
<1>6. Written'
  BY FaultsGrow DEF IInv, Written
<1>7. Shown'
  <2>1. \A e \in ToSet(config) : zips'[e.path] # "absent" <=> zips[e.path] # "absent"
    <3> SUFFICES ASSUME NEW e \in ToSet(config) PROVE zips'[e.path] # "absent" <=> zips[e.path] # "absent"
      OBVIOUS
    <3>1. e.path \in Packs /\ e.path \in Paths(config) /\ zips[e.path] \in {"absent"} \union PageReads
      BY <1>2, ListElement DEF IInv, ListsOK, ListOK, Fits
    <3>2. QED
      BY <3>1 DEF PageReads
  <2>2. Entries' = Entries
    BY <2>1 DEF Entries
  <2>3. QED
    BY <2>2, FaultsGrow DEF IInv, Shown
<1>8. CardsAgree'
  <2>1. packInfos = <<>> => Agree(config, cards)
    <3> SUFFICES ASSUME packInfos = <<>> PROVE DOMAIN cards = {}
      BY DEF Agree
    <3>1. DOMAIN cards \subseteq Paths(packInfos)
      BY DEF IInv, CardsAgree
    <3>2. QED
      BY <3>1, EmptyList
  <2>2. QED
    BY <1>2, <2>1, FaultsGrow DEF IInv, CardsAgree
<1>9. Installs'
  <2>1. \A p \in installed' : Readable(p)'
    BY DEF IInv, Installs, Types, Readable
  <2>2. pc # "write"
    OBVIOUS
  <2>3. QED
    BY <1>2, <2>1, <2>2, FaultsGrow DEF IInv, Installs
<1>10. NoOthers'
  <2>1. NoneFailed' => {p \in Packs : Readable(p)}' \subseteq {p \in Packs : Readable(p)}
    BY DEF Readable
  <2>2. Paths(Current)' = Paths(Current) /\ Arriving' = Arriving
    BY <1>2 DEF Paths, Current, Arriving
  <2>3. NoOthers /\ UNCHANGED installed
    BY DEF IInv
  <2>4. CopiesOnly' => (Paths(Current) \subseteq installed \union Arriving)'
    BY <1>1, <2>2, <2>3 DEF NoOthers
  <2>5. NoneFailed' => ({p \in Packs : Readable(p)} \subseteq Paths(Current))'
    BY <1>1, <2>1, <2>2, <2>3 DEF NoOthers
  <2>6. QED
    BY <2>4, <2>5 DEF NoOthers
<1>11. QED
  BY <1>3, <1>5, <1>6, <1>7, <1>8, <1>9, <1>10 DEF IInv

(* The files that CleanUp leaves.                                          *)
LEMMA Cleaned ==
  ASSUME NEW files \in [Packs -> AllContents \union {"absent"}]
  PROVE  /\ CleanUp(files) \in [Packs -> AllContents \union {"absent"}]
         /\ \A p \in Packs : files[p] # "empty" => CleanUp(files)[p] = files[p]
         /\ \A p \in Packs : files[p] = "empty" => CleanUp(files)[p] = "absent"
BY DEF CleanUp

(* The new zip has a name of its own.                                      *)
LEMMA InstallPackInv ==
  ASSUME IInv, NEW content \in Contents, InstallPack(content)
  PROVE  IInv'
<1>0. /\ clock \in Nat /\ clock' \in Nat /\ clock' = clock + 1 /\ clock <= clock' /\ clock' \in Packs
      /\ pc = "idle" /\ picked' \in AllContents /\ clock' \in 0 .. MaxInstalls
      /\ UNCHANGED <<configFile, config, packInfos, cards, toSave, target, thenLoad, installed>>
  BY PageAssumption DEF IInv, Types, InstallPack, Packs
<1>1. \A p \in Packs : p \in Nat
  BY DEF Packs
<1>2. zips[clock'] = "absent" /\ \A p \in Packs : p > clock' => zips[p] = "absent" /\ p # clock'
  BY <1>0, <1>1 DEF IInv, Zips
<1>3. /\ Paths(config) \subseteq 1 .. clock /\ Paths(packInfos) \subseteq 1 .. clock
      /\ Paths(config) \subseteq Packs /\ Paths(packInfos) \subseteq Packs
  BY <1>0, PathsListed DEF IInv, ListsOK
<1>4. clock' \notin Paths(config) /\ clock' \notin Paths(packInfos)
  BY <1>0, <1>3
<1>5. \A p \in Paths(config) \union Paths(packInfos) : zips[p] # "empty"
  <2>1. \A s : ListOK(s, zips, clock) => \A p \in Paths(s) : zips[p] # "empty"
    BY PathsOf DEF ListOK, Fits, PageReads
  <2>2. QED
    BY <2>1 DEF IInv, ListsOK
<1>6. zips \in [Packs -> AllContents \union {"absent"}]
  BY DEF IInv, Types
<1>7. CASE /\ zips' = [zips EXCEPT ![clock + 1] = "empty"]
           /\ errorMessage' = "none"
           /\ pc' = "copy"
           /\ UNCHANGED faults
  <2>1. zips'[clock'] = "empty" /\ \A p \in Packs : p # clock' => zips'[p] = zips[p]
    BY <1>0, <1>6, <1>7
  <2>2. zips' \in [Packs -> AllContents \union {"absent"}]
    BY <1>0, <1>6, <1>7 DEF AllContents
  <2>3. Types'
    BY <1>0, <1>7, <2>2 DEF IInv, Types
  <2>4. \A p \in Packs : zips'[p] \in PageReads <=> zips[p] \in PageReads
    BY <1>2, <2>1 DEF PageReads
  <2>5. \A p \in Paths(config) \union Paths(packInfos) : zips'[p] \in {zips[p], "absent"}
    BY <1>3, <1>4, <2>1
  <2>6. \A p \in Packs : p > clock' => zips'[p] = "absent"
    BY <1>2, <2>1
  <2>7. pc \in {"idle", "copy"} /\ pc' \in {"copy", "compose"} /\ faults \subseteq faults'
    BY <1>0, <1>7
  <2>8. QED
    BY <1>0, <1>4, <2>1, <2>3, <2>4, <2>5, <2>6, <2>7, QuietInv
<1>8. CASE /\ Fault("copy")
           /\ zips' = CleanUp(zips)
           /\ errorMessage' = "install"
           /\ pc' = "compose"
  <2>1. /\ zips' \in [Packs -> AllContents \union {"absent"}]
        /\ \A p \in Packs : zips[p] # "empty" => zips'[p] = zips[p]
        /\ \A p \in Packs : zips[p] = "empty" => zips'[p] = "absent"
    BY <1>6, <1>8, Cleaned
  <2>2. faults \subseteq faults' /\ faults' \subseteq Faults
    BY <1>8, Faulty DEF IInv, Faults
  <2>3. Types'
    BY <1>0, <1>8, <2>1, <2>2 DEF IInv, Types
  <2>4. \A p \in Packs : zips'[p] \in PageReads <=> zips[p] \in PageReads
    BY <2>1 DEF PageReads
  <2>5. \A p \in Paths(config) \union Paths(packInfos) : zips'[p] \in {zips[p], "absent"}
    BY <1>3, <2>1
  <2>6. \A p \in Packs : p > clock' => zips'[p] = "absent"
    BY <1>2, <2>1
  <2>7. pc \in {"idle", "copy"} /\ pc' \in {"copy", "compose"} /\ pc' # "copy"
    BY <1>0, <1>8
  <2>8. QED
    BY <1>0, <2>2, <2>3, <2>4, <2>5, <2>6, <2>7, QuietInv
<1>9. QED
  BY <1>7, <1>8 DEF InstallPack

(* A zip whose installation ends early is listed nowhere; if it can be     *)
(* read, something failed.                                                 *)
LEMMA NotCopiedInv ==
  ASSUME IInv, pc = "copy", NEW content \in AllContents, NotCopied(content),
         NoneFailed' => content \notin PageReads,
         faults \subseteq faults', faults' \subseteq Faults,
         UNCHANGED <<configFile, config, packInfos, cards, picked, clock, installed>>
  PROVE  IInv'
<1>0. /\ clock \in Nat /\ clock' \in Nat /\ clock <= clock' /\ clock \in Packs
      /\ clock \notin Paths(config) /\ clock \notin Paths(packInfos) /\ zips[clock] = "empty"
      /\ pc' = "compose" /\ errorMessage' = "install" /\ UNCHANGED <<toSave, target, thenLoad>>
      /\ zips \in [Packs -> AllContents \union {"absent"}]
  BY PageAssumption DEF IInv, Types, Zips, NotCopied
<1>1. PICK files : files = [zips EXCEPT ![clock] = content]
  OBVIOUS
<1>2. /\ files \in [Packs -> AllContents \union {"absent"}] /\ files[clock] = content
      /\ \A p \in Packs : p # clock => files[p] = zips[p]
  BY <1>0, <1>1
<1>3. /\ zips' \in [Packs -> AllContents \union {"absent"}]
      /\ \A p \in Packs : files[p] # "empty" => zips'[p] = files[p]
      /\ \A p \in Packs : files[p] = "empty" => zips'[p] = "absent"
  <2>1. zips' = CleanUp(files)
    BY <1>1 DEF NotCopied
  <2>2. QED
    BY <1>2, <2>1, Cleaned
<1>4. Types'
  BY <1>0, <1>3 DEF IInv, Types
<1>5. /\ \A p \in Packs : zips[p] \in PageReads => zips'[p] \in PageReads
      /\ NoneFailed' => \A p \in Packs : zips'[p] \in PageReads => zips[p] \in PageReads
  <2>1. "empty" \notin PageReads /\ "absent" \notin PageReads
    BY DEF PageReads
  <2>2. QED
    BY <1>0, <1>2, <1>3, <2>1
<1>6. \A p \in Paths(config) \union Paths(packInfos) : zips'[p] \in {zips[p], "absent"}
  <2>1. Paths(config) \union Paths(packInfos) \subseteq Packs
    BY <1>0, PathsListed DEF IInv, ListsOK
  <2>2. QED
    BY <1>0, <1>2, <1>3, <2>1
<1>7. \A p \in Packs : p > clock' => zips'[p] = "absent"
  <2>1. \A p \in Packs : p \in Nat
    BY DEF Packs
  <2>2. \A p \in Packs : p > clock' => zips[p] = "absent" /\ p # clock
    BY <1>0, <2>1 DEF IInv, Zips
  <2>3. QED
    BY <1>2, <1>3, <2>2
<1>8. QED
  BY <1>0, <1>4, <1>5, <1>6, <1>7, QuietInv

(* Of a page at rest: the installed packs are shown.                       *)
LEMMA InstalledShown ==
  ASSUME IInv, pc \in {"idle", "copy"}
  PROVE  /\ SavesDone => installed \subseteq Paths(packInfos)
         /\ CopiesOnly => Paths(packInfos) \subseteq installed
         /\ NoneFailed => {p \in Packs : Readable(p)} \subseteq Paths(packInfos)
<1>1. ~Saving /\ pc # "write" /\ clock \in Nat
  BY PageAssumption DEF Saving, IInv, Types
<1>2. SavesDone => ToSet(packInfos) = Entries
  BY DEF IInv, Shown
<1>3. ASSUME SavesDone, NEW p \in installed PROVE p \in Paths(packInfos)
  <2>1. p \in Paths(config) /\ Readable(p)
    BY <1>1, <1>3 DEF IInv, Installs
  <2>2. PICK e \in ToSet(config) : e.path = p
    BY <2>1, PathsOf
  <2>3. e \in Entries
    BY <2>1, <2>2 DEF Entries, Readable, PageReads
  <2>4. QED
    BY <1>2, <1>3, <2>2, <2>3, PathsOf
<1>4. ASSUME CopiesOnly PROVE Paths(packInfos) \subseteq installed
  <2>1. Entries \subseteq ToSet(config) /\ SavesDone
    BY <1>4, Faulty DEF IInv, Entries
  <2>2. Paths(config) \subseteq installed
    BY <1>1, <1>4 DEF IInv, NoOthers, Current, Arriving
  <2>3. QED
    BY <1>2, <2>1, <2>2, PathsOf
<1>5. ASSUME NoneFailed, NEW p \in Packs, Readable(p) PROVE p \in Paths(packInfos)
  <2>1. SavesDone
    BY <1>5, Faulty DEF IInv
  <2>2. p \in Paths(config)
    BY <1>1, <1>5 DEF IInv, NoOthers, Current
  <2>3. PICK e \in ToSet(config) : e.path = p
    BY <2>2, PathsOf
  <2>4. e \in Entries
    BY <1>5, <2>3 DEF Entries, Readable, PageReads
  <2>5. QED
    BY <1>2, <2>1, <2>3, <2>4, PathsOf
<1>6. QED
  BY <1>3, <1>4, <1>5

(* What was copied and can be read is added to the list to save.           *)
LEMMA CopiedInv ==
  ASSUME IInv, pc = "copy", NEW content \in PageReads, Copied(content),
         UNCHANGED <<configFile, config, packInfos, cards, picked, clock, installed, faults>>
  PROVE  IInv'
<1>0. /\ clock \in Nat /\ clock \in Packs
      /\ clock \notin Paths(config) /\ clock \notin Paths(packInfos) /\ zips[clock] = "empty"
      /\ pc' = "open" /\ target' = clock /\ thenLoad' = TRUE /\ UNCHANGED errorMessage
      /\ toSave' = Append(packInfos, NewPack(clock))
      /\ zips \in [Packs -> AllContents \union {"absent"}]
  BY PageAssumption DEF IInv, Types, Zips, Copied, SaveConfig, WithNew
<1>1. /\ zips' \in [Packs -> AllContents \union {"absent"}] /\ zips'[clock] = content
      /\ \A p \in Packs : p # clock => zips'[p] = zips[p]
  <2>1. zips' = [zips EXCEPT ![clock] = content]
    BY DEF Copied
  <2>2. QED
    BY <1>0, <2>1 DEF AllContents, PageReads
<1>2. Types'
  BY <1>0, <1>1 DEF IInv, Types
<1>3. PICK new : new = NewPack(clock)
  OBVIOUS
<1>4. new \in Setting /\ new.path = clock /\ ~new.isEnabled /\ new.isEnabled \in BOOLEAN
  BY <1>0, <1>3, PageAssumption DEF Setting, NewPack
<1>5. Listed(packInfos) /\ packInfos \in Seq(Setting) /\ Distinct(packInfos)
  BY DEF IInv, ListsOK, ListOK, Listed
<1>6. /\ toSave' \in Seq(Setting)
      /\ Len(packInfos) \in Nat /\ DOMAIN packInfos = 1 .. Len(packInfos)
      /\ DOMAIN toSave' = 1 .. Len(packInfos) + 1
      /\ \A i \in 1 .. Len(packInfos) + 1 : toSave'[i] = IF i = Len(packInfos) + 1 THEN new ELSE packInfos[i]
  BY <1>0, <1>3, <1>4, <1>5, SeqAppend
<1>7. ToSet(toSave') = ToSet(packInfos) \union {new}
  <2>1. toSave'[Len(packInfos) + 1] = new /\ \A i \in DOMAIN packInfos : toSave'[i] = packInfos[i] /\ i \in DOMAIN toSave'
    BY <1>6
  <2>2. \A i \in DOMAIN toSave' : toSave'[i] = new \/ (i \in DOMAIN packInfos /\ toSave'[i] = packInfos[i])
    BY <1>6
  <2>3. Len(packInfos) + 1 \in DOMAIN toSave'
    BY <1>6
  <2>4. QED
    BY <2>1, <2>2, <2>3 DEF ToSet
<1>8. Paths(toSave') = Paths(packInfos) \union {clock}
  BY <1>4, <1>7, PathsOf
<1>9. Distinct(toSave')
  <2>1. \A i \in DOMAIN packInfos : packInfos[i].path # clock
    BY <1>0 DEF Paths
  <2>2. QED
    BY <1>4, <1>5, <1>6, <2>1 DEF Distinct
<1>10. Listed(toSave') /\ Capped(toSave')
  <2>1. Listed(toSave')
    BY <1>6, <1>9 DEF Listed
  <2>2. EnabledPaths(toSave') \subseteq EnabledPaths(packInfos)
    BY <1>4, <1>7, EnabledPathsOf
  <2>3. QED
    BY <1>5, <2>1, <2>2, CapKept DEF IInv, ListsOK, ListOK
<1>11. ListsOK'
  <2>1. \A p \in Paths(config) \union Paths(packInfos) : zips'[p] = zips[p]
    BY <1>0, <1>1, PathsListed DEF IInv, ListsOK
  <2>2. ListOK(config, zips', clock) /\ ListOK(packInfos, zips', clock)
    BY <1>0, <2>1, ListKept DEF IInv, ListsOK
  <2>3. Fits(new, zips', clock)
    BY <1>0, <1>1, <1>4 DEF Fits, Packs
  <2>4. \A e \in ToSet(toSave') : Fits(e, zips', clock)
    BY <1>7, <2>2, <2>3 DEF ListOK
  <2>5. ListOK(toSave', zips', clock)
    BY <1>10, <2>4 DEF ListOK
  <2>6. QED
    BY <2>2, <2>5 DEF ListsOK
<1>12. \A e \in ToSet(packInfos) : e.path \in Packs /\ e.path # clock /\ Readable(e.path) /\ Readable(e.path)'
  <2>1. \A e \in ToSet(packInfos) : e.path \in Packs /\ e.path # clock /\ Readable(e.path)
    BY <1>0, ListElement DEF IInv, ListsOK, Zips, Saving
  <2>2. QED
    BY <1>1, <2>1 DEF Readable
<1>13. Zips'
  <2>1. \A e \in ToSet(toSave') : Readable(e.path)'
    BY <1>1, <1>4, <1>7, <1>12 DEF Readable
  <2>2. \A p \in Packs : p > clock => p # clock
    BY <1>0
  <2>3. \A p \in Packs : p > clock => zips'[p] = "absent"
    BY <1>1, <2>2 DEF IInv, Zips
  <2>4. QED
    BY <1>0, <1>12, <2>1, <2>3 DEF Zips
<1>14. Written' /\ Shown'
  BY <1>0, FaultsGrow DEF IInv, Written, Shown
<1>15. CardsAgree'
  <2>1. clock \notin DOMAIN cards /\ (SavesEnd => Agree(packInfos, cards))
    BY <1>0 DEF IInv, CardsAgree, Saving
  <2>2. SavesEnd => Agree(toSave', cards)
    BY <1>4, <1>7, <2>1 DEF Agree
  <2>3. QED
    BY <1>0, <2>2, FaultsGrow DEF CardsAgree, Saving
<1>16. Installs'
  <2>1. \A p \in installed : p \in Packs /\ p # clock /\ Readable(p)
    BY <1>0 DEF IInv, Installs, Types, Readable, PageReads
  <2>2. \A p \in installed' : Readable(p)'
    BY <1>1, <2>1 DEF Readable
  <2>3. target' \in Paths(toSave')
    BY <1>0, <1>8
  <2>4. SavesDone => installed \subseteq Paths(config) /\ installed \subseteq Paths(toSave')
    BY <1>8, InstalledShown DEF IInv, Installs
  <2>5. Paths(config)' = Paths(config) /\ Paths(toSave)' = Paths(toSave')
    BY DEF Paths
  <2>6. QED
    BY <1>0, <2>2, <2>3, <2>4, <2>5, FaultsGrow DEF Installs
<1>17. NoOthers'
  <2>1. {p \in Packs : Readable(p)}' \subseteq {p \in Packs : Readable(p)} \union {clock}
    BY <1>1 DEF Readable
  <2>2. CopiesOnly => Paths(toSave') \subseteq installed \union {clock}
    BY <1>8, InstalledShown
  <2>3. NoneFailed => {p \in Packs : Readable(p)}' \subseteq Paths(toSave')
    BY <1>8, <2>1, InstalledShown
  <2>4. Paths(Current)' = Paths(toSave') /\ Arriving' = {clock}
    BY <1>0 DEF Saving, Paths, Current, Arriving
  <2>5. QED
    BY <2>2, <2>3, <2>4, FaultsGrow DEF NoOthers
<1>18. QED
  BY <1>2, <1>11, <1>13, <1>14, <1>15, <1>16, <1>17 DEF IInv

(* A part of a file is itself a kind of file.                              *)
LEMMA PartsKnown ==
  ASSUME NEW content \in AllContents
  PROVE  Parts(content) \subseteq AllContents
BY DEF Parts, AllContents

(* The copy and the reading of what was copied.                            *)
LEMMA CopyPackInv ==
  ASSUME IInv, CopyPack
  PROVE  IInv'
<1>0. /\ pc = "copy" /\ picked \in AllContents
      /\ UNCHANGED <<configFile, config, packInfos, cards, picked, clock, installed>>
  BY DEF CopyPack, IInv, Types
<1>1. CASE picked \in PageReads /\ Copied(picked) /\ UNCHANGED faults
  BY <1>0, <1>1, CopiedInv
<1>2. CASE picked \notin PageReads /\ NotCopied(picked) /\ UNCHANGED faults
  BY <1>0, <1>2, Faulty, NotCopiedInv DEF IInv
<1>3. CASE Fault("copy") /\ \E part \in Parts(picked) : NotCopied(part)
  <2>1. PICK part \in Parts(picked) : NotCopied(part)
    BY <1>3
  <2>2. part \in AllContents
    BY <1>0, PartsKnown
  <2>3. faults \subseteq faults' /\ faults' \subseteq Faults /\ ~NoneFailed'
    BY <1>3, Faulty DEF IInv, Faults
  <2>4. QED
    BY <1>0, <2>1, <2>2, <2>3, NotCopiedInv
<1>4. QED
  BY <1>1, <1>2, <1>3 DEF CopyPack

(* A deleted pack leaves the list to save, and its zip the disk if that    *)
(* succeeds.                                                               *)
LEMMA DeletePackInv ==
  ASSUME IInv, NEW p \in Packs, DeletePack(p)
  PROVE  IInv'
<1>0. /\ pc = "idle" /\ p \in DOMAIN cards /\ pc' = "open" /\ thenLoad' = FALSE /\ toSave' = Others(p) /\ target' = p
      /\ installed' = installed \ {p} /\ clock \in Nat
      /\ UNCHANGED <<configFile, config, packInfos, errorMessage, cards, picked, clock>>
  BY PageAssumption DEF DeletePack, SaveConfig, page, IInv, Types
<1>1. /\ \/ zips' = [zips EXCEPT ![p] = "absent"]
         \/ zips' = zips /\ ~CopiesOnly' /\ ~NoneFailed'
      /\ faults \subseteq faults' /\ faults' \subseteq Faults
  BY Faulty DEF DeletePack, IInv, Faults
<1>2. /\ zips' \in [Packs -> AllContents \union {"absent"}]
      /\ zips'[p] \in {zips[p], "absent"} /\ (NoneFailed' => zips'[p] = "absent")
      /\ \A q \in Packs : q # p => zips'[q] = zips[q]
  BY <1>1 DEF IInv, Types
<1>3. Types'
  BY <1>0, <1>1, <1>2 DEF IInv, Types
<1>4. Listed(toSave') /\ ToSet(toSave') = {e \in ToSet(packInfos) : e.path # p}
  <2>1. Listed(packInfos) /\ {i \in DOMAIN packInfos : packInfos[i].path # p} \in SUBSET (DOMAIN packInfos)
    BY DEF IInv, ListsOK, ListOK
  <2>2. /\ Listed(toSave')
        /\ ToSet(toSave') = {packInfos[i] : i \in {i \in DOMAIN packInfos : packInfos[i].path # p}}
    BY <1>0, <2>1, Filtered DEF Others
  <2>3. QED
    BY <2>2 DEF ToSet
<1>5. Paths(toSave') = Paths(packInfos) \ {p}
  BY <1>4, PathsOf
<1>6. ListsOK'
  <2>1. \A q \in Paths(config) \union Paths(packInfos) : zips'[q] \in {zips[q], "absent"}
    BY <1>0, <1>2, PathsListed DEF IInv, ListsOK
  <2>2. ListOK(config, zips', clock) /\ ListOK(packInfos, zips', clock)
    BY <1>0, <2>1, ListKept DEF IInv, ListsOK
  <2>3. ListOK(toSave', zips', clock)
    BY <1>4, <2>2, ListOfSome
  <2>4. QED
    BY <1>0, <2>2, <2>3 DEF ListsOK
<1>7. Zips'
  <2>1. \A q \in Packs : q > clock => zips'[q] = "absent"
    BY <1>2 DEF IInv, Zips
  <2>2. \A e \in ToSet(packInfos) : e.path \in Packs /\ Readable(e.path)
    BY <1>0, ListElement DEF IInv, ListsOK, Zips, Saving
  <2>3. \A e \in ToSet(toSave') : Readable(e.path)'
    BY <1>2, <1>4, <2>2 DEF Readable
  <2>4. QED
    BY <1>0, <2>1, <2>3 DEF Zips, Saving
<1>8. Written' /\ Shown'
  BY <1>0, <1>1, FaultsGrow DEF IInv, Written, Shown
<1>9. CardsAgree'
  <2>1. SavesEnd => Agree(packInfos, cards)
    BY <1>0 DEF IInv, CardsAgree, Saving
  <2>2. SavesEnd => Agree(toSave', cards)
    BY <1>4, <2>1 DEF Agree
  <2>3. QED
    BY <1>0, <1>1, <2>2, FaultsGrow DEF CardsAgree, Saving
<1>10. Installs'
  <2>1. \A q \in installed' : Readable(q)'
    BY <1>0, <1>2 DEF IInv, Installs, Types, Readable
  <2>2. SavesDone => installed' \subseteq Paths(config) /\ installed' \subseteq Paths(toSave')
    BY <1>0, <1>5, InstalledShown DEF IInv, Installs
  <2>3. Paths(config)' = Paths(config) /\ Paths(toSave)' = Paths(toSave')
    BY <1>0 DEF Paths
  <2>4. QED
    BY <1>0, <1>1, <2>1, <2>2, <2>3, FaultsGrow DEF Installs
<1>11. NoOthers'
  <2>1. NoneFailed' => {q \in Packs : Readable(q)}' \subseteq {q \in Packs : Readable(q)} \ {p}
    BY <1>2 DEF Readable, PageReads
  <2>2. CopiesOnly' => Paths(toSave') \subseteq installed'
    BY <1>0, <1>1, <1>5, FaultsGrow, InstalledShown
  <2>3. NoneFailed' => {q \in Packs : Readable(q)}' \subseteq Paths(toSave')
    BY <1>0, <1>1, <1>5, <2>1, FaultsGrow, InstalledShown
  <2>4. Paths(Current)' = Paths(toSave')
    BY <1>0 DEF Saving, Paths, Current
  <2>5. QED
    BY <2>2, <2>3, <2>4 DEF NoOthers
<1>12. QED
  BY <1>3, <1>6, <1>7, <1>8, <1>9, <1>10, <1>11 DEF IInv

(* t is s, but for what it says of pack p.                                 *)
ChangedAt(s, t, p) ==
  /\ t \in Seq(Setting) /\ DOMAIN t = DOMAIN s
  /\ \A i \in DOMAIN s : t[i].path = s[i].path /\ (s[i].path # p => t[i] = s[i])

(* Such a change keeps the order of a list and enables at most p.          *)
LEMMA ChangedLists ==
  ASSUME NEW s, Listed(s), NEW t, NEW p, ChangedAt(s, t, p)
  PROVE  /\ Listed(t) /\ Paths(t) = Paths(s)
         /\ \A e \in ToSet(t) : \E d \in ToSet(s) : d.path = e.path /\ (e.path # p => d = e)
         /\ EnabledPaths(t) \subseteq EnabledPaths(s) \union {p}
<1>1. Listed(t)
  BY DEF Listed, Distinct, ChangedAt
<1>2. \A e \in ToSet(t) : \E d \in ToSet(s) : d.path = e.path /\ (e.path # p => d = e)
  BY DEF ToSet, ChangedAt
<1>3. Paths(t) = Paths(s)
  BY DEF Paths, ChangedAt
<1>4. EnabledPaths(t) \subseteq EnabledPaths(s) \union {p}
  <2>1. \A e \in ToSet(t) : e.isEnabled /\ e.path # p => \E d \in ToSet(s) : d.isEnabled /\ d.path = e.path
    BY <1>2
  <2>2. QED
    BY <2>1, EnabledPathsOf
<1>5. QED
  BY <1>1, <1>2, <1>3, <1>4

(* A card and the entry of its pack are changed together, and the list is  *)
(* to be saved.                                                            *)
LEMMA ChangeInv ==
  ASSUME IInv, pc = "idle", NEW p \in DOMAIN cards, NEW t, ChangedAt(packInfos, t, p), Capped(t),
         NEW r \in [isEnabled : BOOLEAN, priority : 0 .. MaxPriority], cards' = [cards EXCEPT ![p] = r],
         SavesEnd => \A e \in ToSet(t) : e.path = p => Remembered(e) = r,
         SaveConfig(t, p, TRUE),
         UNCHANGED <<zips, configFile, config, packInfos, errorMessage, picked, clock, installed, faults>>
  PROVE  IInv'
<1>0. /\ pc' = "open" /\ toSave' = t /\ target' = p /\ thenLoad' = TRUE
      /\ p \in Packs /\ clock \in Nat /\ ~Saving /\ Saving'
  BY PageAssumption DEF SaveConfig, IInv, Types, Saving
<1>1. DOMAIN cards' = DOMAIN cards /\ cards'[p] = r /\ \A q \in DOMAIN cards : q # p => cards'[q] = cards[q]
  OBVIOUS
<1>2. Types'
  BY <1>0, <1>1 DEF IInv, Types
<1>3. /\ Listed(t) /\ Paths(t) = Paths(packInfos)
      /\ \A e \in ToSet(t) : \E d \in ToSet(packInfos) : d.path = e.path /\ (e.path # p => d = e)
  BY ChangedLists DEF IInv, ListsOK, ListOK
<1>4. ListsOK'
  <2>1. \A e \in ToSet(t) : Fits(e, zips, clock)
    BY <1>3 DEF IInv, ListsOK, ListOK, Fits
  <2>2. ListOK(t, zips, clock)
    BY <1>3, <2>1 DEF ListOK
  <2>3. QED
    BY <1>0, <2>2 DEF IInv, ListsOK
<1>5. \A q \in Packs : Readable(q)' <=> Readable(q)
  BY DEF Readable
<1>6. Zips'
  <2>1. \A e \in ToSet(packInfos) : e.path \in Packs /\ Readable(e.path) /\ Readable(e.path)'
    BY <1>0, ListElement DEF IInv, ListsOK, Zips, Readable
  <2>2. \A e \in ToSet(t) : Readable(e.path)'
    BY <1>3, <2>1
  <2>3. QED
    BY <1>0, <2>1, <2>2 DEF IInv, Zips
<1>7. Written' /\ Shown'
  BY <1>0, FaultsGrow DEF IInv, Written, Shown
<1>8. CardsAgree'
  <2>1. ASSUME SavesEnd PROVE Agree(t, cards')
    <3> SUFFICES ASSUME NEW e \in ToSet(t), e.path \in DOMAIN cards' PROVE cards'[e.path] = Remembered(e)
      BY DEF Agree
    <3>1. PICK d \in ToSet(packInfos) : d.path = e.path /\ (e.path # p => d = e)
      BY <1>3
    <3>2. cards[d.path] = Remembered(d)
      BY <1>0, <1>1, <2>1, <3>1 DEF IInv, CardsAgree, Agree
    <3>3. CASE e.path = p
      BY <1>1, <2>1, <3>3
    <3>4. CASE e.path # p
      BY <1>1, <3>1, <3>2, <3>4
    <3>5. QED
      BY <3>3, <3>4
  <2>2. QED
    BY <1>0, <2>1, FaultsGrow DEF CardsAgree
<1>9. Installs'
  <2>1. \A q \in installed' : Readable(q)'
    BY <1>5 DEF IInv, Installs, Types
  <2>2. p \in Paths(packInfos)
    BY DEF IInv, CardsAgree
  <2>3. SavesDone => installed \subseteq Paths(config) /\ installed \subseteq Paths(t)
    BY <1>3, InstalledShown DEF IInv, Installs
  <2>4. Paths(config)' = Paths(config) /\ Paths(toSave)' = Paths(t)
    BY <1>0 DEF Paths
  <2>5. QED
    BY <1>0, <1>3, <2>1, <2>2, <2>3, <2>4, FaultsGrow DEF Installs
<1>10. NoOthers'
  <2>1. {q \in Packs : Readable(q)}' = {q \in Packs : Readable(q)}
    BY DEF Readable
  <2>2. /\ CopiesOnly => Paths(t) \subseteq installed
        /\ NoneFailed => {q \in Packs : Readable(q)} \subseteq Paths(t)
    BY <1>3, InstalledShown
  <2>3. Paths(Current)' = Paths(t)
    BY <1>0 DEF Saving, Paths, Current
  <2>4. QED
    BY <2>1, <2>2, <2>3, FaultsGrow DEF NoOthers
<1>11. QED
  BY <1>2, <1>4, <1>6, <1>7, <1>8, <1>9, <1>10 DEF IInv

(* The entries of a list in memory.                                        *)
LEMMA Shows ==
  ASSUME IInv
  PROVE  /\ Listed(packInfos) /\ Capped(packInfos) /\ packInfos \in Seq(Setting)
         /\ DOMAIN packInfos = 1 .. Len(packInfos) /\ Len(packInfos) \in Nat
         /\ \A i \in DOMAIN packInfos :
              /\ packInfos[i] \in Setting
              /\ packInfos[i] = [path |-> packInfos[i].path, isEnabled |-> packInfos[i].isEnabled, priority |-> packInfos[i].priority]
<1>1. Listed(packInfos) /\ Capped(packInfos) /\ packInfos \in Seq(Setting)
  BY DEF IInv, ListsOK, ListOK, Listed
<1>2. \A i \in DOMAIN packInfos : packInfos[i] \in Setting
  BY <1>1, SeqElement
<1>3. \A e \in Setting : e = [path |-> e.path, isEnabled |-> e.isEnabled, priority |-> e.priority]
  BY DEF Setting
<1>4. QED
  BY <1>1, <1>2, <1>3

(* togglePack enables a pack only while fewer than MaxEnabled are.         *)
LEMMA SwitchInv ==
  ASSUME IInv, NEW p \in Packs, Switch(p)
  PROVE  IInv'
<1>0. /\ pc = "idle" /\ p \in DOMAIN cards /\ cards' = [cards EXCEPT ![p].isEnabled = ~@]
      /\ ~(EnabledCount >= MaxEnabled /\ ~cards[p].isEnabled) /\ TogglePack(p, ~cards[p].isEnabled)
      /\ UNCHANGED <<zips, configFile, config, packInfos, picked, clock, installed, faults>>
  BY DEF Switch, disk
<1>1. cards[p] \in [isEnabled : BOOLEAN, priority : 0 .. MaxPriority]
  BY <1>0 DEF IInv, Types
<1>2. PICK b \in BOOLEAN : b = ~cards[p].isEnabled
  OBVIOUS
<1>3. PICK r : r = [cards[p] EXCEPT !.isEnabled = b]
  OBVIOUS
<1>4. /\ r \in [isEnabled : BOOLEAN, priority : 0 .. MaxPriority]
      /\ r = [isEnabled |-> b, priority |-> cards[p].priority]
  BY <1>1, <1>2, <1>3
<1>5. cards' = [cards EXCEPT ![p] = r]
  BY <1>0, <1>2, <1>3
<1>6. PICK t : t = WithEnabled(p, b)
  OBVIOUS
<1>7. /\ SaveConfig(t, p, TRUE) /\ UNCHANGED errorMessage
      /\ b => ~(Cardinality(EnabledIn(packInfos)) >= MaxEnabled)
  <2>1. b => ~(EnabledCount >= MaxEnabled)
    BY <1>0, <1>2, Zenon
  <2>2. TogglePack(p, b)
    BY <1>0, <1>2
  <2>3. SaveConfig(t, p, TRUE) /\ UNCHANGED errorMessage
    BY <1>6, <2>1, <2>2, Zenon DEF TogglePack
  <2>4. EnabledCount = Cardinality(EnabledIn(packInfos))
    BY DEF EnabledCount, EnabledIn
  <2>5. QED
    BY <2>1, <2>3, <2>4
<1>8. /\ DOMAIN t = DOMAIN packInfos
      /\ \A i \in DOMAIN packInfos :
           t[i] = IF packInfos[i].path = p THEN [packInfos[i] EXCEPT !.isEnabled = b] ELSE packInfos[i]
  BY <1>6 DEF WithEnabled
<1>9. \A i \in DOMAIN packInfos :
        /\ t[i] \in Setting /\ t[i].path = packInfos[i].path /\ t[i].priority = packInfos[i].priority
        /\ packInfos[i].path # p => t[i] = packInfos[i]
        /\ packInfos[i].path = p => t[i].isEnabled = b
  <2> SUFFICES ASSUME NEW i \in DOMAIN packInfos
               PROVE  /\ t[i] \in Setting /\ t[i].path = packInfos[i].path /\ t[i].priority = packInfos[i].priority
                      /\ packInfos[i].path # p => t[i] = packInfos[i]
                      /\ packInfos[i].path = p => t[i].isEnabled = b
    OBVIOUS
  <2>1. packInfos[i] \in Setting
    BY Shows
  <2>2. CASE packInfos[i].path = p
    <3>1. t[i] = [packInfos[i] EXCEPT !.isEnabled = b]
      BY <1>8, <2>2
    <3>2. QED
      BY <2>1, <2>2, <3>1 DEF Setting
  <2>3. CASE packInfos[i].path # p
    BY <1>8, <2>1, <2>3
  <2>4. QED
    BY <2>2, <2>3
<1>10. ChangedAt(packInfos, t, p)
  <2>1. t \in Seq(Setting)
    <3>1. t = [i \in 1 .. Len(packInfos) |-> t[i]]
      BY <1>6, <1>8, Shows DEF WithEnabled
    <3>2. \A i \in 1 .. Len(packInfos) : t[i] \in Setting
      BY <1>9, Shows
    <3>3. Len(packInfos) \in Nat
      BY Shows
    <3>4. QED
      BY <3>1, <3>2, <3>3
  <2>2. QED
    BY <1>8, <1>9, <2>1 DEF ChangedAt
<1>11. Capped(t)
  <2>1. Listed(t) /\ EnabledPaths(t) \subseteq EnabledPaths(packInfos) \union {p}
    BY <1>10, ChangedLists, Shows
  <2>2. CASE b
    BY <1>7, <2>1, <2>2, CapOneMore, Shows
  <2>3. CASE ~b
    <3>1. \A i \in DOMAIN t : t[i].isEnabled => t[i] = packInfos[i]
      BY <1>8, <1>9, <2>3, Zenon
    <3>2. EnabledPaths(t) \subseteq EnabledPaths(packInfos)
      BY <1>8, <3>1 DEF EnabledPaths, EnabledIn
    <3>3. QED
      BY <2>1, <3>2, CapKept, Shows
  <2>4. QED
    BY <2>2, <2>3
<1>12. SavesEnd => \A e \in ToSet(t) : e.path = p => Remembered(e) = r
  <2> SUFFICES ASSUME SavesEnd, NEW i \in DOMAIN t, t[i].path = p PROVE Remembered(t[i]) = r
    BY DEF ToSet
  <2>1. packInfos[i] \in ToSet(packInfos) /\ packInfos[i].path = p
    BY <1>8, <1>9 DEF ToSet
  <2>2. cards[p] = Remembered(packInfos[i])
    BY <1>0, <2>1 DEF IInv, CardsAgree, Saving, Agree
  <2>3. t[i].priority = cards[p].priority /\ t[i].isEnabled = b
    BY <1>8, <1>9, <2>1, <2>2 DEF Remembered
  <2>4. QED
    BY <1>4, <2>3 DEF Remembered
<1>13. QED
  BY <1>0, <1>4, <1>5, <1>7, <1>10, <1>11, <1>12, ChangeInv

(* updatePriority enables nothing.                                         *)
LEMMA UpdatePriorityInv ==
  ASSUME IInv, NEW p \in Packs, NEW step \in {-1, 1}, UpdatePriority(p, step)
  PROVE  IInv'
<1>1. PICK new : new = cards[p].priority + step
  OBVIOUS
<1>2. /\ pc = "idle" /\ p \in DOMAIN cards /\ new \in 0 .. MaxPriority
      /\ cards' = [cards EXCEPT ![p].priority = new]
      /\ SaveConfig(WithPriority(p, new), p, TRUE)
      /\ UNCHANGED <<zips, configFile, config, packInfos, errorMessage, picked, clock, installed, faults>>
  BY <1>1 DEF UpdatePriority, disk
<1>3. cards[p] \in [isEnabled : BOOLEAN, priority : 0 .. MaxPriority]
  BY <1>2 DEF IInv, Types
<1>4. PICK r : r = [cards[p] EXCEPT !.priority = new]
  OBVIOUS
<1>5. /\ r \in [isEnabled : BOOLEAN, priority : 0 .. MaxPriority]
      /\ r = [isEnabled |-> cards[p].isEnabled, priority |-> new]
  BY <1>2, <1>3, <1>4
<1>6. cards' = [cards EXCEPT ![p] = r]
  BY <1>2, <1>4
<1>7. PICK t : t = WithPriority(p, new)
  OBVIOUS
<1>8. /\ DOMAIN t = DOMAIN packInfos
      /\ \A i \in DOMAIN packInfos :
           t[i] = IF packInfos[i].path = p THEN [packInfos[i] EXCEPT !.priority = new] ELSE packInfos[i]
  BY <1>7 DEF WithPriority
<1>9. \A i \in DOMAIN packInfos :
        /\ t[i] \in Setting /\ t[i].path = packInfos[i].path /\ t[i].isEnabled = packInfos[i].isEnabled
        /\ packInfos[i].path # p => t[i] = packInfos[i]
        /\ packInfos[i].path = p => t[i].priority = new
  <2> SUFFICES ASSUME NEW i \in DOMAIN packInfos
               PROVE  /\ t[i] \in Setting /\ t[i].path = packInfos[i].path /\ t[i].isEnabled = packInfos[i].isEnabled
                      /\ packInfos[i].path # p => t[i] = packInfos[i]
                      /\ packInfos[i].path = p => t[i].priority = new
    OBVIOUS
  <2>1. packInfos[i] \in Setting
    BY Shows
  <2>2. CASE packInfos[i].path = p
    <3>1. t[i] = [packInfos[i] EXCEPT !.priority = new]
      BY <1>8, <2>2
    <3>2. QED
      BY <1>2, <2>1, <2>2, <3>1 DEF Setting
  <2>3. CASE packInfos[i].path # p
    BY <1>8, <2>1, <2>3
  <2>4. QED
    BY <2>2, <2>3
<1>10. ChangedAt(packInfos, t, p)
  <2>1. t \in Seq(Setting)
    <3>1. t = [i \in 1 .. Len(packInfos) |-> t[i]]
      BY <1>7, <1>8, Shows DEF WithPriority
    <3>2. \A i \in 1 .. Len(packInfos) : t[i] \in Setting
      BY <1>9, Shows
    <3>3. Len(packInfos) \in Nat
      BY Shows
    <3>4. QED
      BY <3>1, <3>2, <3>3
  <2>2. QED
    BY <1>8, <1>9, <2>1 DEF ChangedAt
<1>11. Capped(t)
  <2>1. Listed(t)
    BY <1>10, ChangedLists, Shows
  <2>2. EnabledPaths(t) \subseteq EnabledPaths(packInfos)
    BY <1>8, <1>9 DEF EnabledPaths, EnabledIn
  <2>3. QED
    BY <2>1, <2>2, CapKept, Shows
<1>12. SavesEnd => \A e \in ToSet(t) : e.path = p => Remembered(e) = r
  <2> SUFFICES ASSUME SavesEnd, NEW i \in DOMAIN t, t[i].path = p PROVE Remembered(t[i]) = r
    BY DEF ToSet
  <2>1. packInfos[i] \in ToSet(packInfos) /\ packInfos[i].path = p
    BY <1>8, <1>9 DEF ToSet
  <2>2. cards[p] = Remembered(packInfos[i])
    BY <1>2, <2>1 DEF IInv, CardsAgree, Saving, Agree
  <2>3. t[i].isEnabled = cards[p].isEnabled /\ t[i].priority = new
    BY <1>8, <1>9, <2>1, <2>2 DEF Remembered
  <2>4. QED
    BY <1>5, <2>3 DEF Remembered
<1>13. QED
  BY <1>2, <1>5, <1>6, <1>7, <1>10, <1>11, <1>12, ChangeInv

(* config.json is emptied, or cannot be opened.                            *)
LEMMA SaveOpenInv ==
  ASSUME IInv, SaveOpen
  PROVE  IInv'
<1>0. /\ pc = "open" /\ pc' \in {"write", "saved"} /\ Saving /\ Saving'
      /\ UNCHANGED <<zips, packInfos, cards, picked, toSave, target, thenLoad, clock, installed>>
      /\ \/ pc' = "write" /\ configFile' = "torn" /\ config' = <<>> /\ errorMessage' = errorMessage
         \/ /\ pc' = "saved" /\ errorMessage' = "save" /\ config' = config /\ configFile' = configFile
            /\ ~SavesEnd' /\ ~SavesDone' /\ ~CopiesOnly'
      /\ faults \subseteq faults' /\ faults' \subseteq Faults
  BY Faulty DEF SaveOpen, Saving, IInv, Faults
<1>1. Types'
  BY <1>0 DEF IInv, Types
<1>2. ListsOK'
  BY <1>0, EmptyList DEF IInv, ListsOK
<1>3. \A p : Readable(p)' <=> Readable(p)
  BY <1>0 DEF Readable
<1>4. Zips'
  BY <1>0, <1>3 DEF IInv, Zips
<1>5. Written' /\ Shown'
  BY <1>0, FaultsGrow DEF IInv, Written, Shown
<1>6. CardsAgree'
  BY <1>0, FaultsGrow DEF IInv, CardsAgree
<1>7. Installs'
  <2>1. Paths(toSave)' = Paths(toSave)
    BY <1>0 DEF Paths
  <2>2. pc' = "saved" => ~SavesDone'
    BY <1>0
  <2>3. QED
    BY <1>0, <1>3, <2>1, <2>2, FaultsGrow DEF IInv, Installs
<1>8. NoOthers'
  <2>1. {p \in Packs : Readable(p)}' = {p \in Packs : Readable(p)}
    BY <1>0 DEF Readable
  <2>2. Paths(Current)' = Paths(Current) /\ Arriving' = Arriving
    BY <1>0 DEF Paths, Current, Arriving
  <2>3. QED
    BY <1>0, <2>1, <2>2, FaultsGrow DEF IInv, NoOthers
<1>9. QED
  BY <1>1, <1>2, <1>4, <1>5, <1>6, <1>7, <1>8 DEF IInv

(* What is written is the list to save, or nothing.                        *)
LEMMA SaveWriteInv ==
  ASSUME IInv, SaveWrite
  PROVE  IInv'
<1>0. /\ pc = "write" /\ pc' = "saved" /\ Saving /\ Saving'
      /\ UNCHANGED <<zips, packInfos, cards, picked, toSave, target, thenLoad, clock, installed>>
      /\ \/ configFile' = "whole" /\ config' = toSave /\ errorMessage' = errorMessage
         \/ /\ errorMessage' = "save" /\ config' = config /\ configFile' = configFile
            /\ ~SavesEnd' /\ ~SavesWhole' /\ ~SavesDone' /\ ~CopiesOnly'
      /\ faults \subseteq faults' /\ faults' \subseteq Faults
  BY Faulty DEF SaveWrite, Saving, IInv, Faults
<1>1. Types'
  BY <1>0 DEF IInv, Types
<1>2. ListsOK'
  BY <1>0 DEF IInv, ListsOK
<1>3. \A p : Readable(p)' <=> Readable(p)
  BY <1>0 DEF Readable
<1>4. Zips'
  BY <1>0, <1>3 DEF IInv, Zips
<1>5. Written' /\ Shown'
  BY <1>0, FaultsGrow DEF IInv, Written, Shown
<1>6. CardsAgree'
  BY <1>0, FaultsGrow DEF IInv, CardsAgree
<1>7. Installs'
  <2>1. Paths(toSave)' = Paths(toSave) /\ (SavesDone' => Paths(config)' = Paths(toSave))
    BY <1>0 DEF Paths
  <2>2. QED
    BY <1>0, <1>3, <2>1, FaultsGrow DEF IInv, Installs
<1>8. NoOthers'
  <2>1. {p \in Packs : Readable(p)}' = {p \in Packs : Readable(p)}
    BY <1>0 DEF Readable
  <2>2. Paths(Current)' = Paths(Current) /\ Arriving' = Arriving
    BY <1>0 DEF Paths, Current, Arriving
  <2>3. QED
    BY <1>0, <2>1, <2>2, FaultsGrow DEF IInv, NoOthers
<1>9. QED
  BY <1>1, <1>2, <1>4, <1>5, <1>6, <1>7, <1>8 DEF IInv

(* Cards that agree with a list agree with what is left of it.             *)
LEMMA AgreeKept ==
  ASSUME NEW s, NEW t, NEW c, Agree(s, c), ToSet(t) \subseteq ToSet(s)
  PROVE  Agree(t, c)
BY DEF Agree

(* The list that is shown next was saved, and loaded unless a pack was     *)
(* deleted.                                                                *)
LEMMA SavedInv ==
  ASSUME IInv, Saved
  PROVE  IInv'
<1>0. /\ pc = "saved" /\ pc' = "compose" /\ Saving /\ ~Saving' /\ clock \in Nat
      /\ UNCHANGED <<zips, configFile, config, cards, picked, toSave, target, thenLoad, clock, faults>>
      /\ installed' = IF thenLoad THEN installed \union {target} ELSE installed
  BY PageAssumption DEF Saved, disk, Saving, IInv, Types
<1>1. /\ SavesEnd => configFile = "whole" /\ config = toSave
      /\ SavesDone => SavesEnd /\ SavesWhole
      /\ CopiesOnly => SavesDone
      /\ NoneFailed => SavesDone
  BY <1>0, Faulty DEF IInv, Written
<1>2. \A p : Readable(p)' <=> Readable(p)
  BY <1>0 DEF Readable
<1>3. /\ (SavesEnd' <=> SavesEnd) /\ (SavesWhole' <=> SavesWhole)
      /\ (SavesDone' <=> SavesDone) /\ (CopiesOnly' <=> CopiesOnly) /\ (NoneFailed' <=> NoneFailed)
  BY <1>0 DEF SavesEnd, SavesWhole, SavesDone, CopiesOnly, NoneFailed, No
<1>4. /\ ListOK(packInfos', zips, clock)
      /\ errorMessage' \in {"none", "load", "save", "install", "limit"}
      /\ \A e \in ToSet(packInfos') : Readable(e.path)
      /\ SavesDone => ToSet(packInfos') = Entries
      /\ SavesEnd => ToSet(packInfos') \subseteq ToSet(config)
  <2>1. CASE thenLoad
    <3>1. LoadPackInfos
      BY <2>1 DEF Saved
    <3>2. /\ ListOK(packInfos', zips, clock)
          /\ errorMessage' \in {"none", "load"}
          /\ configFile = "torn" => packInfos' = packInfos
          /\ configFile # "torn" =>
               /\ ToSet(packInfos') = Entries /\ ToSet(packInfos') \subseteq ToSet(config)
               /\ \A e \in ToSet(packInfos') : Readable(e.path)
      BY <1>0, <3>1, LoadShows DEF IInv
    <3>3. \A e \in ToSet(packInfos) : Readable(e.path)
      BY <2>1 DEF IInv, Zips
    <3>4. QED
      BY <1>1, <3>2, <3>3
  <2>2. CASE ~thenLoad
    <3>1. packInfos' = toSave /\ errorMessage' = errorMessage
      BY <2>2 DEF Saved, Kept
    <3>2. \A e \in ToSet(toSave) : Readable(e.path)
      BY DEF IInv, Zips
    <3>3. SavesDone => Entries = ToSet(toSave)
      BY <1>1, <3>2 DEF Entries, Readable, PageReads
    <3>4. QED
      BY <1>1, <3>1, <3>2, <3>3 DEF IInv, ListsOK, Types
  <2>3. QED
    BY <2>1, <2>2
<1>5. Types'
  BY <1>0, <1>4 DEF IInv, Types
<1>6. ListsOK'
  BY <1>0, <1>4 DEF IInv, ListsOK
<1>7. Zips'
  BY <1>0, <1>2, <1>4 DEF IInv, Zips
<1>8. Written' /\ Shown'
  <2>1. Entries' = Entries
    BY <1>0 DEF Entries
  <2>2. configFile = "torn" => ~SavesWhole
    BY <1>0 DEF IInv, Written
  <2>3. QED
    BY <1>0, <1>3, <1>4, <2>1, <2>2 DEF Written, Shown
<1>9. CardsAgree'
  <2>1. SavesEnd => Agree(config, cards)
    BY <1>0, <1>1 DEF IInv, CardsAgree
  <2>2. SavesEnd => Agree(packInfos', cards)
    BY <1>4, <2>1, AgreeKept
  <2>3. QED
    BY <1>0, <1>3, <2>1, <2>2 DEF CardsAgree
<1>10. Installs'
  <2>1. thenLoad => target \in Paths(toSave) /\ Readable(target)
    BY <1>0, PathsOf DEF IInv, Installs, Zips
  <2>2. \A p \in installed' : Readable(p)'
    BY <1>0, <1>2, <2>1 DEF IInv, Installs
  <2>3. SavesDone => installed' \subseteq Paths(config)
    BY <1>0, <1>1, <2>1 DEF IInv, Installs
  <2>4. Paths(config)' = Paths(config)
    BY <1>0 DEF Paths
  <2>5. QED
    BY <1>0, <1>3, <2>2, <2>3, <2>4 DEF Installs
<1>11. NoOthers'
  <2>1. {p \in Packs : Readable(p)}' = {p \in Packs : Readable(p)}
    BY <1>0 DEF Readable
  <2>2. /\ CopiesOnly => Paths(config) \subseteq installed'
        /\ NoneFailed => {p \in Packs : Readable(p)} \subseteq Paths(config)
    BY <1>0, <1>1 DEF IInv, NoOthers, Current, Arriving
  <2>3. Paths(Current)' = Paths(config)
    BY <1>0 DEF Paths, Current
  <2>4. QED
    BY <1>3, <2>1, <2>2, <2>3 DEF NoOthers
<1>12. QED
  BY <1>5, <1>6, <1>7, <1>8, <1>9, <1>10, <1>11 DEF IInv

(* A card drawn from an entry has a switch and a priority in range.        *)
LEMMA RememberedTyped ==
  ASSUME NEW e \in Setting
  PROVE  Remembered(e) \in [isEnabled : BOOLEAN, priority : 0 .. MaxPriority]
BY DEF Remembered, Setting

(* A card is drawn with what the list says, or agreed with it before.      *)
LEMMA ComposeInv ==
  ASSUME IInv, Compose
  PROVE  IInv'
<1>0. /\ pc = "compose" /\ pc' = "idle" /\ picked' = "empty" /\ toSave' = <<>> /\ target' = 1 /\ thenLoad' = FALSE
      /\ ~Saving /\ ~Saving' /\ clock \in Nat /\ 1 \in Packs
      /\ UNCHANGED <<zips, configFile, config, clock, installed, faults>>
  BY PageAssumption DEF Compose, disk, Saving, IInv, Types, Packs
<1>1. \A p : Readable(p)' <=> Readable(p)
  BY <1>0 DEF Readable
<1>2. /\ (SavesEnd' <=> SavesEnd) /\ (SavesWhole' <=> SavesWhole)
      /\ (SavesDone' <=> SavesDone) /\ (CopiesOnly' <=> CopiesOnly) /\ (NoneFailed' <=> NoneFailed)
  BY <1>0 DEF SavesEnd, SavesWhole, SavesDone, CopiesOnly, NoneFailed, No
<1>3. (SavesDone => SavesWhole) /\ (configFile = "torn" => ~SavesWhole)
  BY <1>0, Faulty DEF IInv, Written
<1>4. /\ ListOK(packInfos', zips, clock)
      /\ errorMessage' \in {"none", "load", "save", "install", "limit"}
      /\ \A e \in ToSet(packInfos') : Readable(e.path)
      /\ SavesDone => ToSet(packInfos') = Entries
      /\ SavesEnd => Agree(packInfos', cards)
  <2>1. \A e \in ToSet(packInfos) : Readable(e.path)
    BY <1>0 DEF IInv, Zips
  <2>2. SavesEnd => Agree(packInfos, cards) /\ (packInfos = <<>> => Agree(config, cards))
    BY <1>0 DEF IInv, CardsAgree
  <2>3. CASE packInfos = <<>>
    <3>1. LoadPackInfos
      BY <2>3 DEF Compose
    <3>2. /\ ListOK(packInfos', zips, clock)
          /\ errorMessage' \in {"none", "load"}
          /\ configFile = "torn" => packInfos' = packInfos
          /\ configFile # "torn" =>
               /\ ToSet(packInfos') = Entries /\ ToSet(packInfos') \subseteq ToSet(config)
               /\ \A e \in ToSet(packInfos') : Readable(e.path)
      BY <1>0, <3>1, LoadShows DEF IInv
    <3>3. configFile # "torn" /\ SavesEnd => Agree(packInfos', cards)
      BY <2>2, <2>3, <3>2, AgreeKept
    <3>4. QED
      BY <1>3, <2>1, <2>2, <3>2, <3>3
  <2>4. CASE packInfos # <<>>
    <3>1. packInfos' = packInfos /\ errorMessage' = errorMessage
      BY <2>4 DEF Compose
    <3>2. SavesDone => ToSet(packInfos) = Entries
      BY <1>0, <2>4 DEF IInv, Shown
    <3>3. QED
      BY <2>1, <2>2, <3>1, <3>2 DEF IInv, ListsOK, Types
  <2>5. QED
    BY <2>3, <2>4
<1>5. PICK D : D = IF errorMessage' = "none" THEN Paths(packInfos') ELSE {}
  OBVIOUS
<1>6. DOMAIN cards' = D /\ \A p \in D : cards'[p] = IF p \in DOMAIN cards THEN cards[p] ELSE Remembered(SettingOf(packInfos', p))
  BY <1>5 DEF Compose
<1>7. D \subseteq Paths(packInfos') /\ D \subseteq Packs /\ Distinct(packInfos')
  BY <1>0, <1>4, <1>5, PathsListed DEF ListOK, Listed
<1>8. \A e \in ToSet(packInfos') : e \in Setting /\ SettingOf(packInfos', e.path) = e
  BY <1>0, <1>4, <1>7, ListElement, SettingOfEntry
<1>9. Types'
  <2>1. ASSUME NEW p \in D PROVE cards'[p] \in [isEnabled : BOOLEAN, priority : 0 .. MaxPriority]
    <3>1. CASE p \in DOMAIN cards
      BY <1>6, <2>1, <3>1 DEF IInv, Types
    <3>2. CASE p \notin DOMAIN cards
      <4>1. PICK e \in ToSet(packInfos') : e.path = p
        BY <1>7, PathsOf
      <4>2. cards'[p] = Remembered(e) /\ e \in Setting
        BY <1>6, <1>8, <3>2, <4>1
      <4>3. QED
        BY <4>2, RememberedTyped
    <3>3. QED
      BY <3>1, <3>2
  <2>2. "empty" \in AllContents
    BY DEF AllContents
  <2>3. QED
    BY <1>0, <1>4, <1>6, <1>7, <2>1, <2>2 DEF IInv, Types
<1>10. ListsOK'
  BY <1>0, <1>4, EmptyList DEF IInv, ListsOK
<1>11. Zips'
  <2>1. \A e \in ToSet(toSave') : Readable(e.path)'
    BY <1>0, EmptyList
  <2>2. QED
    BY <1>0, <1>1, <1>4, <2>1 DEF IInv, Zips
<1>12. Written' /\ Shown'
  <2>1. Entries' = Entries
    BY <1>0 DEF Entries
  <2>2. QED
    BY <1>0, <1>2, <1>3, <1>4, <2>1 DEF Written, Shown
<1>13. CardsAgree'
  <2>1. ASSUME SavesEnd PROVE Agree(packInfos', cards')
    <3> SUFFICES ASSUME NEW e \in ToSet(packInfos'), e.path \in DOMAIN cards' PROVE cards'[e.path] = Remembered(e)
      BY DEF Agree
    <3>1. CASE e.path \in DOMAIN cards
      BY <1>4, <1>6, <2>1, <3>1 DEF Agree
    <3>2. CASE e.path \notin DOMAIN cards
      BY <1>6, <1>8, <3>2
    <3>3. QED
      BY <3>1, <3>2
  <2>2. QED
    BY <1>0, <1>2, <1>6, <1>7, <2>1 DEF CardsAgree
<1>14. Installs'
  <2>1. Paths(config)' = Paths(config)
    BY <1>0 DEF Paths
  <2>2. QED
    BY <1>0, <1>1, <1>2, <2>1 DEF IInv, Installs
<1>15. NoOthers'
  <2>1. {p \in Packs : Readable(p)}' = {p \in Packs : Readable(p)}
    BY <1>0 DEF Readable
  <2>2. Paths(Current)' = Paths(Current) /\ Arriving' = Arriving
    BY <1>0 DEF Paths, Current, Arriving
  <2>3. QED
    BY <1>0, <1>2, <2>1, <2>2 DEF IInv, NoOthers
<1>16. QED
  BY <1>9, <1>10, <1>11, <1>12, <1>13, <1>14, <1>15 DEF IInv

(* A card drawn anew says what the list says.                              *)
LEMMA ScrollInv ==
  ASSUME IInv, NEW p \in Packs, Scroll(p)
  PROVE  IInv'
<1>0. /\ pc = "idle" /\ p \in DOMAIN cards /\ ~Saving
      /\ cards' = [cards EXCEPT ![p] = Remembered(SettingOf(packInfos, p))]
      /\ UNCHANGED <<zips, configFile, config, packInfos, errorMessage>>
      /\ UNCHANGED <<pc, picked, toSave, target, thenLoad, clock, installed, faults>>
  BY DEF Scroll, disk, handler, Saving
<1>1. PICK e \in ToSet(packInfos) : e.path = p
  BY <1>0, PathsOf DEF IInv, CardsAgree
<1>2. SettingOf(packInfos, p) = e /\ e \in Setting
  <2>1. Distinct(packInfos) /\ clock \in Nat
    BY PageAssumption DEF IInv, ListsOK, ListOK, Listed, Types
  <2>2. QED
    BY <1>1, <2>1, SettingOfEntry, ListElement DEF IInv, ListsOK
<1>3. /\ DOMAIN cards' = DOMAIN cards /\ cards'[p] = Remembered(e)
      /\ \A q \in DOMAIN cards : q # p => cards'[q] = cards[q]
  BY <1>0, <1>2
<1>4. Types'
  <2>1. Remembered(e) \in [isEnabled : BOOLEAN, priority : 0 .. MaxPriority]
    BY <1>2, RememberedTyped
  <2>2. QED
    BY <1>0, <1>3, <2>1 DEF IInv, Types
<1>5. ListsOK' /\ Written' /\ Saving' = Saving
  BY <1>0 DEF IInv, ListsOK, Written, SavesEnd, SavesWhole, No, Saving
<1>6. Zips'
  BY <1>0 DEF IInv, Zips, Readable, Saving
<1>7. Shown'
  BY <1>0 DEF IInv, Shown, SavesDone, No, Entries
<1>8. CardsAgree'
  <2>1. SavesEnd => Agree(packInfos, cards')
    <3> SUFFICES ASSUME SavesEnd, NEW d \in ToSet(packInfos), d.path \in DOMAIN cards' PROVE cards'[d.path] = Remembered(d)
      BY DEF Agree
    <3>1. CASE d.path = p
      <4>1. d = e
        BY <1>1, <3>1, OneEntry DEF IInv, ListsOK, ListOK, Listed
      <4>2. QED
        BY <1>3, <3>1, <4>1
    <3>2. CASE d.path # p
      BY <1>0, <1>3, <3>2 DEF IInv, CardsAgree, Agree
    <3>3. QED
      BY <3>1, <3>2
  <2>2. SavesEnd' <=> SavesEnd
    BY <1>0 DEF SavesEnd, No
  <2>3. QED
    BY <1>0, <1>3, <1>5, <2>1, <2>2 DEF IInv, CardsAgree
<1>9. Installs' /\ NoOthers'
  BY <1>0 DEF IInv, Installs, NoOthers, SavesDone, CopiesOnly, NoneFailed, No, Readable, Saving, Paths,
              Current, Arriving
<1>10. QED
  BY <1>4, <1>5, <1>6, <1>7, <1>8, <1>9 DEF IInv

(* A page that starts again has forgotten everything, and what was being   *)
(* copied may be read, though it is listed nowhere.                        *)
LEMMA RestartInv ==
  ASSUME IInv, Restart
  PROVE  IInv'
<1>0. /\ pc' = "compose" /\ picked' = "empty" /\ toSave' = <<>> /\ target' = 1 /\ thenLoad' = FALSE
      /\ packInfos' = <<>> /\ errorMessage' = "none" /\ cards' = <<>>
      /\ UNCHANGED <<configFile, config, clock, installed>>
      /\ pc # "compose" /\ ~Saving' /\ 1 \in Packs /\ clock \in Nat
      /\ zips' \in IF pc = "copy" THEN {[zips EXCEPT ![clock] = part] : part \in Parts(picked)} ELSE {zips}
      /\ CASE pc = "idle"  -> UNCHANGED faults
           [] pc = "write" -> Fault("tear")
           [] OTHER        -> Fault("crash")
  BY PageAssumption DEF Restart, disk, Saving, Packs, IInv, Types
<1>1. /\ faults \subseteq faults' /\ faults' \subseteq Faults
      /\ pc = "write" => ~SavesDone' /\ ~SavesWhole'
      /\ pc # "idle" => ~CopiesOnly' /\ ~NoneFailed'
  <2>1. CASE pc = "idle"
    BY <1>0, <2>1, Faulty DEF IInv
  <2>2. CASE pc = "write"
    BY <1>0, <2>2, Faulty DEF IInv, Faults
  <2>3. CASE pc \notin {"idle", "write"}
    BY <1>0, <2>3, Faulty DEF IInv, Faults
  <2>4. QED
    BY <2>1, <2>2, <2>3
<1>2. DOMAIN cards' = {} /\ "empty" \in AllContents
  BY <1>0 DEF AllContents
<1>3. /\ zips' \in [Packs -> AllContents \union {"absent"}]
      /\ \A p \in Packs : zips'[p] = zips[p] \/ (pc = "copy" /\ p = clock)
  <2>1. CASE pc = "copy"
    <3>1. PICK part \in Parts(picked) : zips' = [zips EXCEPT ![clock] = part]
      BY <1>0, <2>1
    <3>2. part \in AllContents
      BY <3>1, PartsKnown DEF IInv, Types
    <3>3. QED
      BY <2>1, <3>1, <3>2 DEF IInv, Types
  <2>2. CASE pc # "copy"
    BY <1>0, <2>2 DEF IInv, Types
  <2>3. QED
    BY <2>1, <2>2
<1>4. Types'
  BY <1>0, <1>1, <1>2, <1>3 DEF IInv, Types
<1>5. \A p \in Paths(config) : zips'[p] = zips[p]
  <2>1. Paths(config) \subseteq Packs /\ (pc = "copy" => clock \notin Paths(config))
    BY <1>0, PathsListed DEF IInv, ListsOK, Zips
  <2>2. QED
    BY <1>3, <2>1
<1>6. ListsOK'
  <2>1. ListOK(config, zips', clock)
    BY <1>0, <1>5, ListKept DEF IInv, ListsOK
  <2>2. QED
    BY <1>0, <2>1, EmptyList DEF ListsOK
<1>7. Zips'
  <2>1. ToSet(packInfos') = {} /\ ToSet(toSave') = {}
    BY <1>0, EmptyList
  <2>2. \A p \in Packs : p > clock => p # clock
    BY <1>0
  <2>3. \A p \in Packs : p > clock => zips'[p] = "absent"
    BY <1>3, <2>2 DEF IInv, Zips
  <2>4. QED
    BY <1>0, <2>1, <2>3 DEF Zips
<1>8. Written' /\ Shown'
  BY <1>0, <1>1, FaultsGrow DEF IInv, Written, Shown
<1>9. CardsAgree'
  BY <1>0, <1>2 DEF CardsAgree, Agree
<1>10. Installs'
  <2>1. Paths(config)' = Paths(config)
    BY <1>0 DEF Paths
  <2>2. pc = "copy" => ~Readable(clock)
    BY DEF IInv, Zips, Readable, PageReads
  <2>3. \A p \in installed' : Readable(p)'
    BY <1>0, <1>3, <2>2 DEF IInv, Installs, Types, Readable
  <2>4. QED
    BY <1>0, <1>1, <2>1, <2>3, FaultsGrow DEF IInv, Installs
<1>11. NoOthers'
  <2>1. pc = "idle" => {p \in Packs : Readable(p)}' = {p \in Packs : Readable(p)}
    BY <1>3 DEF Readable
  <2>2. pc = "idle" => Paths(Current)' = Paths(Current) /\ Arriving' = Arriving
    BY <1>0 DEF Paths, Current, Arriving, Saving
  <2>3. QED
    BY <1>0, <1>1, <2>1, <2>2, FaultsGrow DEF IInv, NoOthers
<1>12. QED
  BY <1>4, <1>6, <1>7, <1>8, <1>9, <1>10, <1>11 DEF IInv

(* So the invariant outlives every step.                                   *)
LEMMA NextInv ==
  IInv /\ [Next]_vars => IInv'
<1> SUFFICES ASSUME IInv, [Next]_vars PROVE IInv'
  OBVIOUS
<1>1. CASE UNCHANGED vars
  <2>0. /\ UNCHANGED <<zips, configFile, config, packInfos, errorMessage, cards>>
        /\ UNCHANGED <<pc, picked, toSave, target, thenLoad, clock, installed, faults>>
    BY <1>1 DEF vars, disk, page, handler
  <2>1. Types' /\ ListsOK'
    BY <2>0 DEF IInv, Types, ListsOK
  <2>2. Zips' /\ Written'
    BY <2>0 DEF IInv, Zips, Written, Readable, SavesEnd, SavesWhole, No, Saving
  <2>3. Shown' /\ CardsAgree'
    BY <2>0 DEF IInv, Shown, CardsAgree, SavesDone, SavesEnd, No, Entries, Saving
  <2>4. Installs' /\ NoOthers'
    BY <2>0 DEF IInv, Installs, NoOthers, SavesDone, CopiesOnly, NoneFailed, No, Readable, Saving, Paths,
                Current, Arriving
  <2>5. QED
    BY <2>1, <2>2, <2>3, <2>4 DEF IInv
<1>2. CASE \E content \in Contents : InstallPack(content)
  BY <1>2, InstallPackInv
<1>3. CASE CopyPack
  BY <1>3, CopyPackInv
<1>4. CASE \E p \in Packs : DeletePack(p)
  BY <1>4, DeletePackInv
<1>5. CASE \E p \in Packs : Switch(p)
  BY <1>5, SwitchInv
<1>6. CASE \E p \in Packs, step \in {-1, 1} : UpdatePriority(p, step)
  BY <1>6, UpdatePriorityInv
<1>7. CASE SaveOpen
  BY <1>7, SaveOpenInv
<1>8. CASE SaveWrite
  BY <1>8, SaveWriteInv
<1>9. CASE Saved
  BY <1>9, SavedInv
<1>10. CASE Compose
  BY <1>10, ComposeInv
<1>11. CASE \E p \in Packs : Scroll(p)
  BY <1>11, ScrollInv
<1>12. CASE Restart
  BY <1>12, RestartInv
<1>13. QED
  BY <1>1, <1>2, <1>3, <1>4, <1>5, <1>6, <1>7, <1>8, <1>9, <1>10, <1>11, <1>12 DEF Next

----------------------------------------------------------------------------
(* What follows.                                                           *)

(* Whatever fails and wherever the process ends, lists, cards and disk are *)
(* related as IInv says.                                                   *)
THEOREM Invariance == Spec => []IInv
<1>1. IInv /\ [Next]_vars => IInv'
  BY NextInv
<1>2. QED
  BY <1>1, InitInv, PTL DEF Spec

(* Every variable stays in its range, and no pack is listed twice.         *)
THEOREM TypeCorrect == Spec => []TypeOK
<1>1. IInv => TypeOK
  BY DEF IInv, Types, ListsOK, ListOK, Listed, TypeOK
<1>2. QED
  BY <1>1, Invariance, PTL

(* Never more than MaxEnabled packs are enabled, whatever fails.           *)
THEOREM CapHolds == Spec => []EnabledCap
<1>1. IInv => EnabledCap
  BY DEF IInv, ListsOK, ListOK, Capped, EnabledCap
<1>2. QED
  BY <1>1, Invariance, PTL

(* As long as no save failed, the list the page shows is what config.json  *)
(* says of the zips that are there.                                        *)
THEOREM MemoryIsDisk == Spec => []ShownIsSaved
<1>1. IInv => ShownIsSaved
  BY PresentListed DEF IInv, ListsOK, Shown, SavesDone, ShownIsSaved
<1>2. QED
  BY <1>1, Invariance, PTL

(* As long as no save failed, each card shows what is stored for its pack. *)
THEOREM CardsRight == Spec => []CardsTrue
<1>1. IInv => CardsTrue
  <2> SUFFICES ASSUME IInv, pc = "idle", SavesEnd, NEW p \in DOMAIN cards
               PROVE  cards[p] = Remembered(SettingOf(packInfos, p))
    BY DEF CardsTrue, SavesEnd
  <2>1. PICK e \in ToSet(packInfos) : e.path = p
    BY PathsOf DEF IInv, CardsAgree
  <2>2. cards[p] = Remembered(e)
    BY <2>1 DEF IInv, CardsAgree, Saving, Agree
  <2>3. SettingOf(packInfos, p) = e
    BY <2>1, SettingOfEntry DEF IInv, ListsOK, ListOK, Listed
  <2>4. QED
    BY <2>2, <2>3
<1>2. QED
  BY <1>1, Invariance, PTL

(* A pack whose installation came to its end stays listed in config.json   *)
(* until it is deleted, unless a save failed or a crash tore the file.     *)
THEOREM InstalledStay == Spec => []InstalledListed
<1>1. IInv => InstalledListed
  BY DEF IInv, Installs, SavesDone, InstalledListed
<1>2. QED
  BY <1>1, Invariance, PTL

(* As long as nothing but copies failed, config.json lists exactly the     *)
(* packs whose installation came to its end and that were not deleted, and *)
(* the page can read each; as long as nothing failed at all, those are the *)
(* zips it can read.                                                       *)
THEOREM NothingAstray == Spec => []NoOrphans
<1>1. ASSUME IInv, pc = "idle", CopiesOnly
      PROVE  /\ Paths(config) = installed
             /\ installed \subseteq {p \in Packs : Readable(p)}
             /\ "copy" \notin faults => installed = {p \in Packs : Readable(p)}
  <2>1. ~Saving /\ SavesDone
    BY <1>1, Faulty DEF IInv, Saving
  <2>2. Paths(config) = installed
    BY <1>1, <2>1 DEF IInv, Installs, NoOthers, Current, Arriving
  <2>3. installed \subseteq {p \in Packs : Readable(p)}
    BY <1>1 DEF IInv, Installs, Types
  <2>4. "copy" \notin faults => NoneFailed
    BY <1>1 DEF IInv, Types, CopiesOnly, NoneFailed, No
  <2>5. NoneFailed => {p \in Packs : Readable(p)} \subseteq Paths(config)
    BY <1>1, <2>1 DEF IInv, NoOthers, Current
  <2>6. QED
    BY <2>2, <2>3, <2>4, <2>5
<1>2. IInv => NoOrphans
  BY <1>1 DEF CopiesOnly, NoOrphans
<1>3. QED
  BY <1>2, Invariance, PTL
=============================================================================
