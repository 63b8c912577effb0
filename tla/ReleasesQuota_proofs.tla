------------------------ MODULE ReleasesQuota_proofs ------------------------
(***************************************************************************)
(* What the quota of kept releases means, for every quota, number of       *)
(* deployments and number of faults: after a deployment the host is        *)
(* bounded by it, and a recent release outlives the clean-up and is there  *)
(* when the deployment fails.  The argument counts: each deployment since  *)
(* the release went through has left one folder at most that sorts behind  *)
(* it, and listToDelete takes folders from the front.                      *)
(***************************************************************************)
EXTENDS Releases_proofs, Functions

\* The folders that sort behind a release, releases.json and the link left out.
Above(r) == {n \in Names : n > r} \cup PendingNames

\* The host has a folder behind a release for each deployment since at the most,
\* and one less while a deployment has not made its own.
HostInv ==
    /\ OnHost \cap Names \subseteq 1 .. name
    /\ \A r \in Names : completed[r] # 0 =>
        /\ r <= name
        /\ Cardinality(OnHost \cap Above(r)) <= deploys - completed[r]
        /\ pc = "creating" => Cardinality(OnHost \cap Above(r)) < deploys - completed[r]

\* So has the session that may roll back to it, until the clean-up is over.
FolderInv ==
    /\ pc \in {"creating", "announcing"} =>
        folders \subseteq OnHost \cup {JsonFile, LinkEntry} /\ cache \subseteq OnHost
    /\ pc \in {"announcing", "building", "moving"} => Pending(name) \in OnHost \cap folders
    /\ pc \in {"building", "moving"} /\ target # NoName =>
        folders \subseteq OnHost \cup {JsonFile, LinkEntry}
    /\ pc \in {"unlinking", "linking", "sweeping", "trimming"} =>
        /\ current = name /\ name \in folders
        /\ Recent(target) =>
            Cardinality(folders \cap Above(target)) <= deploys - completed[target]

\* Where a deployment that fails goes back to.
RestoreInv ==
    dropped = {} =>
        /\ pc \in {"creating", "announcing"} =>
            before = IF current \in OnHost THEN current ELSE NoName
        /\ pc \in Deploying \ {"creating", "announcing"} => target = before
        /\ pc \in RollingBack /\ outcome = "failed" => target = before
        /\ pc \in {"unlinking back", "linking back"} => current = target
        /\ pc = "rolled back" => link = target
        /\ RollbackRestores

\* What the session knows covers what the host has.
BoundedInv ==
    dropped = {} =>
        /\ pc \in Deploying => OnHost \subseteq folders
        /\ pc \in {"trimming", "saving", "starting"} => OnHost \cap PendingNames = {}
        /\ pc \in {"saving", "starting"} => Cardinality(folders) <= KeepX

QuotaInv == HostInv /\ FolderInv /\ TargetSurvives /\ RestoreInv /\ BoundedInv

-----------------------------------------------------------------------------
(* Counting *)

\* Folders are finitely many numbers.
LEMMA FolderFacts ==
    ASSUME NEW F, F \subseteq Folders
    PROVE  F \subseteq Int /\ IsFiniteSet(F) /\ Cardinality(F) \in Nat
<1>1. IsFiniteSet(0 .. 2 * MaxDeploys + 2)
  BY ReleasesAssumption, FS_Interval DEF ReleasesAssumption
<1>2. Folders \subseteq 0 .. 2 * MaxDeploys + 2
  BY ReleasesAssumption
  DEF ReleasesAssumption, Folders, Names, PendingNames, Pending, JsonFile, LinkEntry
<1>3. IsFiniteSet(F)
  BY <1>1, <1>2, FS_Subset
<1>4. QED
  BY <1>2, <1>3, FS_CardinalityType

\* There are k members with less than k members before them.
LEMMA RankCount ==
    ASSUME NEW F, F \subseteq Int, IsFiniteSet(F), NEW k \in 0 .. Cardinality(F)
    PROVE  Cardinality({f \in F : Cardinality({g \in F : g < f}) < k}) = k
<1>. DEFINE n == Cardinality(F)
            Below(f) == {g \in F : g < f}
            First == {f \in F : Cardinality(Below(f)) < k}
            rank == [f \in F |-> Cardinality(Below(f))]
            place == [f \in First |-> rank[f]]
<1>1. n \in Nat
  BY FS_CardinalityType
<1>2. ASSUME NEW f \in F
      PROVE  IsFiniteSet(Below(f)) /\ Cardinality(Below(f)) \in 0 .. n - 1
  <2>1. Below(f) \subseteq F \ {f}
    OBVIOUS
  <2>2. IsFiniteSet(F \ {f}) /\ Cardinality(F \ {f}) = n - 1
    BY FS_RemoveElement
  <2>3. IsFiniteSet(Below(f)) /\ Cardinality(Below(f)) <= n - 1
    BY <2>1, <2>2, FS_Subset
  <2>4. Cardinality(Below(f)) \in Nat
    BY <2>3, FS_CardinalityType
  <2>5. QED
    BY <1>1, <2>3, <2>4
<1>. HIDE DEF n
<1>3. ASSUME NEW f \in F, NEW g \in F, f < g
      PROVE  Cardinality(Below(f)) < Cardinality(Below(g))
  <2>1. f \in Int /\ g \in Int /\ F \subseteq Int
    OBVIOUS
  <2>2. Below(f) \cup {f} \subseteq Below(g) /\ f \notin Below(f)
    <3>1. \A h \in F : h < f => h < g
      BY <1>3, <2>1
    <3>2. ~(f < f)
      BY <2>1
    <3>3. QED
      BY <1>3, <3>1, <3>2
  <2>. HIDE DEF Below
  <2>3. Cardinality(Below(f) \cup {f}) = Cardinality(Below(f)) + 1
    BY <1>2, <2>2, FS_AddElement
  <2>4. Cardinality(Below(f) \cup {f}) <= Cardinality(Below(g))
    BY <1>2, <2>2, FS_Subset
  <2>5. Cardinality(Below(f)) \in Int /\ Cardinality(Below(g)) \in Int
    BY <1>2
  <2>6. QED
    BY <2>3, <2>4, <2>5
<1>. HIDE DEF Below
<1>4. \A f \in F : rank[f] = Cardinality(Below(f)) /\ rank[f] \in 0 .. n - 1
  BY <1>2
<1>5. \A f, g \in F : rank[f] = rank[g] => f = g
  <2>1. SUFFICES ASSUME NEW f \in F, NEW g \in F, rank[f] = rank[g], f # g PROVE FALSE
    OBVIOUS
  <2>2. f < g \/ g < f
    BY <2>1
  <2>3. QED
    BY <1>3, <1>4, <2>1, <2>2
<1>6. rank \in Injection(F, 0 .. n - 1)
  BY <1>4, <1>5 DEF Injection, IsInjective
<1>7. IsFiniteSet(0 .. n - 1) /\ Cardinality(0 .. n - 1) = n
  <2>1. 0 \in Int /\ n - 1 \in Int /\ (IF 0 > n - 1 THEN 0 ELSE (n - 1) - 0 + 1) = n
    BY <1>1
  <2>2. QED
    BY <2>1, FS_Interval
<1>8. rank \in Surjection(F, 0 .. n - 1)
  BY <1>6, <1>7, FS_Injection DEF n
<1>9. \A i \in 0 .. n - 1 : \E f \in F : rank[f] = i
  BY <1>8 DEF Surjection
<1>10. First = {f \in F : rank[f] < k}
  BY <1>4
<1>. HIDE DEF rank, First
<1>k. k \in 0 .. n
  BY DEF n
<1>p. place \in [First -> 0 .. k - 1]
  <2>1. \A f \in First : rank[f] \in 0 .. k - 1
    BY <1>1, <1>4, <1>10, <1>k
  <2>2. QED
    BY <2>1
<1>11. place \in Injection(First, 0 .. k - 1)
  BY <1>5, <1>10, <1>p DEF Injection, IsInjective
<1>12. place \in Surjection(First, 0 .. k - 1)
  <2>1. ASSUME NEW i \in 0 .. k - 1 PROVE \E f \in First : place[f] = i
    <3>1. i \in 0 .. n - 1 /\ i < k
      BY <1>1, <1>k
    <3>2. PICK f \in F : rank[f] = i
      BY <1>9, <3>1
    <3>3. QED
      BY <1>10, <3>1, <3>2
  <2>2. QED
    BY <1>p, <2>1 DEF Surjection
<1>13. ExistsBijection(First, 0 .. k - 1)
  BY <1>11, <1>12 DEF ExistsBijection, Bijection
<1>14. IsFiniteSet(First)
  BY <1>10, FS_Subset
<1>15. Cardinality(0 .. k - 1) = Cardinality(First)
  BY <1>13, <1>14, FS_Bijection
<1>16. Cardinality(0 .. k - 1) = k
  <2>1. 0 \in Int /\ k - 1 \in Int /\ (IF 0 > k - 1 THEN 0 ELSE (k - 1) - 0 + 1) = k
    BY <1>1, <1>k
  <2>2. QED
    BY <2>1, FS_Interval
<1>17. QED
  BY <1>15, <1>16 DEF First, Below

\* listToDelete takes so many folders that no more than the quota are left.
LEMMA QuotaKept ==
    ASSUME folders \subseteq Folders
    PROVE  Cardinality(folders \ ListToDelete) <= KeepX
<1>. DEFINE n == Cardinality(folders)
            toIndex == n - KeepX
            First == {f \in folders : Rank(f) < toIndex}
            More == {f \in folders : Rank(f) < toIndex + 1}
<1>1. folders \subseteq Int /\ IsFiniteSet(folders) /\ n \in Nat
  BY FolderFacts
<1>2. KeepX \in Nat /\ KeepX > 1
  BY ReleasesAssumption DEF ReleasesAssumption
<1>3. \A f : Rank(f) \in Nat
  <2>1. \A f : IsFiniteSet({g \in folders : g < f})
    BY <1>1, FS_Subset
  <2>2. QED
    BY <2>1, FS_CardinalityType DEF Rank
<1>4. ListToDelete = IF current \in First
                       THEN (First \ {current}) \cup {f \in folders : Rank(f) = toIndex}
                       ELSE First
  BY DEF ListToDelete
<1>5. CASE toIndex <= 0
  <2>1. First = {}
    BY <1>1, <1>2, <1>3, <1>5
  <2>2. folders \ ListToDelete = folders
    BY <1>4, <2>1
  <2>3. QED
    BY <1>1, <1>2, <1>5, <2>2
<1>6. CASE toIndex > 0
  <2>1. toIndex \in 0 .. n /\ toIndex + 1 \in 0 .. n
    BY <1>1, <1>2, <1>6
  <2>2. Cardinality(First) = toIndex /\ Cardinality(More) = toIndex + 1
    <3>. HIDE DEF toIndex
    <3>1. QED
      BY <1>1, <2>1, RankCount DEF Rank
  <2>3. IsFiniteSet(First) /\ IsFiniteSet(More)
    BY <1>1, FS_Subset
  <2>4. Cardinality(ListToDelete) = toIndex /\ IsFiniteSet(ListToDelete)
    <3>1. CASE current \in First
      <4>1. current \in More /\ current \notin {f \in folders : Rank(f) = toIndex}
        BY <1>1, <1>2, <1>3, <3>1
      <4>2. \A f \in folders : Rank(f) < toIndex + 1 <=> Rank(f) < toIndex \/ Rank(f) = toIndex
        BY <1>1, <1>2, <1>3
      <4>3. ListToDelete = More \ {current}
        BY <1>4, <3>1, <4>1, <4>2
      <4>4. toIndex \in Int
        BY <1>1, <1>2
      <4>. HIDE DEF More, First, toIndex
      <4>5. Cardinality(More \ {current}) = (toIndex + 1) - 1 /\ IsFiniteSet(More \ {current})
        BY <2>2, <2>3, <4>1, FS_RemoveElement
      <4>6. QED
        BY <4>3, <4>4, <4>5
    <3>2. CASE current \notin First
      BY <1>4, <2>2, <2>3, <3>2
    <3>3. QED
      BY <3>1, <3>2
  <2>5. ListToDelete \subseteq folders
    BY ListFacts
  <2>6. Cardinality(folders \ ListToDelete) = n - Cardinality(folders \cap ListToDelete)
    BY <1>1, FS_Difference
  <2>7. folders \cap ListToDelete = ListToDelete
    BY <2>5
  <2>8. QED
    BY <1>1, <1>2, <2>4, <2>6, <2>7
<1>7. QED
  BY <1>1, <1>2, <1>5, <1>6

\* It spares a release with less than the quota of folders behind it, if the
\* current one is not before it and the link is not counted.
LEMMA Spared ==
    ASSUME folders \subseteq Folders, LinkEntry \notin folders, NEW r \in Names, current \in Names, r <= current,
           Cardinality(folders \cap Above(r)) <= KeepX - 2
    PROVE  r \notin ListToDelete
<1>. DEFINE n == Cardinality(folders)
            toIndex == n - KeepX
            Behind == {g \in folders : g > r}
            Below(f) == {g \in folders : g < f}
<1>1. folders \subseteq Int /\ IsFiniteSet(folders) /\ n \in Nat
  BY FolderFacts
<1>2. KeepX \in Nat /\ KeepX > 1
  BY ReleasesAssumption DEF ReleasesAssumption
<1>3. r \in Int /\ current \in Int
  BY DEF Names
<1>4. Cardinality(Behind) \in Nat /\ Cardinality(Behind) <= KeepX - 1 /\ IsFiniteSet(Behind)
  <2>1. Behind \subseteq (folders \cap Above(r)) \cup {JsonFile}
    BY DEF Folders, Above
  <2>2. IsFiniteSet(folders \cap Above(r)) /\ Cardinality(folders \cap Above(r)) \in Nat
    BY <1>1, FS_Intersection, FS_CardinalityType
  <2>3. /\ IsFiniteSet((folders \cap Above(r)) \cup {JsonFile})
        /\ Cardinality((folders \cap Above(r)) \cup {JsonFile})
            <= Cardinality(folders \cap Above(r)) + 1
    <3>. DEFINE F == folders \cap Above(r)
    <3>1. IsFiniteSet(F) /\ Cardinality(F) \in Nat
      BY <2>2
    <3>. HIDE DEF F
    <3>2. /\ IsFiniteSet(F \cup {JsonFile})
          /\ Cardinality(F \cup {JsonFile})
                = IF JsonFile \in F THEN Cardinality(F) ELSE Cardinality(F) + 1
      BY <3>1, FS_AddElement
    <3>3. Cardinality(F \cup {JsonFile}) <= Cardinality(F) + 1
      BY <3>1, <3>2
    <3>4. QED
      BY <3>2, <3>3 DEF F
  <2>4. IsFiniteSet(Behind) /\ Cardinality(Behind)
            <= Cardinality((folders \cap Above(r)) \cup {JsonFile})
    BY <2>1, <2>3, FS_Subset
  <2>5. /\ Cardinality(Behind) \in Nat
        /\ Cardinality((folders \cap Above(r)) \cup {JsonFile}) \in Nat
    BY <2>3, <2>4, FS_CardinalityType
  <2>6. QED
    BY <1>2, <2>2, <2>3, <2>4, <2>5
<1>5. SUFFICES ASSUME r \in folders PROVE r \notin ListToDelete
  BY ListFacts
<1>6. Rank(r) >= toIndex /\ Rank(r) \in Nat
  <2>1. folders \ Below(r) = Behind \cup {r}
    <3>1. \A g \in folders : ~(g < r) <=> g > r \/ g = r
      BY <1>1, <1>3
    <3>2. QED
      BY <1>5, <3>1
  <2>2. Cardinality(Behind \cup {r}) <= Cardinality(Behind) + 1
    <3>. HIDE DEF Behind
    <3>1. Cardinality(Behind \cup {r})
            = IF r \in Behind THEN Cardinality(Behind) ELSE Cardinality(Behind) + 1
      BY <1>4, FS_AddElement
    <3>2. QED
      BY <1>4, <3>1
  <2>3. Cardinality(folders \ Below(r)) = n - Cardinality(folders \cap Below(r))
    BY <1>1, FS_Difference
  <2>4. folders \cap Below(r) = Below(r)
    OBVIOUS
  <2>5. IsFiniteSet(Below(r)) /\ Cardinality(Below(r)) \in Nat
    BY <1>1, FS_Subset, FS_CardinalityType
  <2>6. Rank(r) = Cardinality(Below(r))
    BY DEF Rank
  <2>7. Cardinality(Behind \cup {r}) \in Nat
    BY <1>4, FS_AddElement, FS_CardinalityType
  <2>. HIDE DEF Below, Behind, n
  <2>8. n - Cardinality(Below(r)) <= KeepX
    <3>1. Cardinality(Behind \cup {r}) = n - Cardinality(Below(r))
      BY <2>1, <2>3, <2>4
    <3>2. Cardinality(Behind \cup {r}) <= KeepX
      BY <1>2, <1>4, <2>2, <2>7
    <3>3. QED
      BY <3>1, <3>2
  <2>9. QED
    BY <1>1, <1>2, <2>5, <2>6, <2>8
<1>7. Rank(current) >= Rank(r) /\ Rank(current) \in Nat
  <2>1. Below(r) \subseteq Below(current)
    <3>1. \A g \in folders : g < r => g < current
      BY <1>1, <1>3
    <3>2. QED
      BY <3>1
  <2>2. IsFiniteSet(Below(current)) /\ Cardinality(Below(current)) \in Nat
    BY <1>1, FS_Subset, FS_CardinalityType
  <2>3. Cardinality(Below(r)) <= Cardinality(Below(current))
    BY <2>1, <2>2, FS_Subset
  <2>4. QED
    BY <1>6, <2>2, <2>3 DEF Rank
<1>8. ~(Rank(r) < toIndex) /\ ~(Rank(current) < toIndex)
  BY <1>1, <1>2, <1>6, <1>7
<1>9. QED
  BY <1>8 DEF ListToDelete

-----------------------------------------------------------------------------
(* The steps *)

\* What is on the host, and behind a release of it, is finite.
LEMMA HostFacts ==
    ASSUME NEW r, NEW H, H \subseteq Names \cup PendingNames
    PROVE  IsFiniteSet(H \cap Above(r)) /\ Cardinality(H \cap Above(r)) \in Nat
<1>1. H \cap Above(r) \subseteq Folders
  BY DEF Folders
<1>2. QED
  BY <1>1, FolderFacts

\* A step that adds nothing to the host and completes nothing keeps the numbers.
LEMMA HostKept ==
    ASSUME TypeOK, HostInv, OnHost' \subseteq OnHost, name' = name, completed' = completed,
           deploys' = deploys, pc' = "creating" => pc = "creating"
    PROVE  HostInv'
<1>1. OnHost' \cap Names \subseteq 1 .. name'
  BY DEF HostInv
<1>2. ASSUME NEW r \in Names, completed[r] # 0
      PROVE  /\ r <= name'
             /\ Cardinality(OnHost' \cap Above(r)) <= deploys' - completed'[r]
             /\ pc' = "creating" => Cardinality(OnHost' \cap Above(r)) < deploys' - completed'[r]
  <2>. DEFINE a == Cardinality(OnHost \cap Above(r))
              b == Cardinality(OnHost' \cap Above(r))
  <2>1. OnHost \subseteq Names \cup PendingNames
    BY DEF OnHost
  <2>2. OnHost' \cap Above(r) \subseteq OnHost \cap Above(r)
    OBVIOUS
  <2>3. IsFiniteSet(OnHost \cap Above(r)) /\ a \in Nat
    BY <2>1, HostFacts
  <2>4. b <= a /\ b \in Nat
    BY <2>2, <2>3, FS_Subset, FS_CardinalityType
  <2>5. /\ r <= name /\ a <= deploys - completed[r]
        /\ pc = "creating" => a < deploys - completed[r]
    BY <1>2 DEF HostInv
  <2>. HIDE DEF a, b
  <2>6. deploys - completed[r] \in Int
    BY ReleasesAssumption DEF ReleasesAssumption, TypeOK
  <2>7. b <= deploys - completed[r] /\ (pc = "creating" => b < deploys - completed[r])
    BY <2>3, <2>4, <2>5, <2>6
  <2>8. QED
    BY <2>5, <2>7 DEF b
<1>3. QED
  BY <1>1, <1>2 DEF HostInv, Above

\* Sets that grow by one member, or have one put in the place of another.
LEMMA GrowsByOne ==
    ASSUME NEW S, IsFiniteSet(S), NEW x, NEW T, T \subseteq S \cup {x}
    PROVE  Cardinality(T) <= Cardinality(S) + 1
<1>1. IsFiniteSet(S \cup {x}) /\ Cardinality(S \cup {x}) <= Cardinality(S) + 1
      /\ Cardinality(S \cup {x}) \in Nat /\ Cardinality(S) \in Nat
  BY FS_AddElement, FS_CardinalityType
<1>2. IsFiniteSet(T) /\ Cardinality(T) <= Cardinality(S \cup {x})
  BY <1>1, FS_Subset
<1>3. Cardinality(T) \in Nat
  BY <1>2, FS_CardinalityType
<1>4. QED
  BY <1>1, <1>2, <1>3

LEMMA Exchanged ==
    ASSUME NEW S, IsFiniteSet(S), NEW x \in S, NEW y, NEW T, T \subseteq (S \ {x}) \cup {y}
    PROVE  Cardinality(T) <= Cardinality(S)
<1>1. IsFiniteSet(S \ {x}) /\ Cardinality(S \ {x}) = Cardinality(S) - 1
  BY FS_RemoveElement
<1>2. Cardinality(T) <= Cardinality(S \ {x}) + 1
  BY <1>1, GrowsByOne
<1>3. Cardinality(S) \in Nat
  BY FS_CardinalityType
<1>4. QED
  BY <1>1, <1>2, <1>3

LEMMA HostStep == IInv /\ QuotaInv /\ [Next]_vars => HostInv'
<1>1. SUFFICES ASSUME IInv, QuotaInv, [Next]_vars PROVE HostInv'
  OBVIOUS
<1>a. TypeOK /\ HostInv /\ FolderInv /\ BoundedInv /\ StepInv
  BY <1>1 DEF IInv, QuotaInv
<1>b. /\ name \in Nat /\ deploys \in Nat
      /\ \A r \in Names : completed[r] \in Nat
  BY <1>a, ReleasesAssumption DEF ReleasesAssumption, TypeOK
<1>c. \A r : IsFiniteSet(OnHost \cap Above(r)) /\ Cardinality(OnHost \cap Above(r)) \in Nat
  <2>1. OnHost \subseteq Names \cup PendingNames
    BY DEF OnHost
  <2>2. QED
    BY <2>1, HostFacts
<1>d. /\ dirs \in [Names \cup PendingNames -> {Absent, Empty} \cup 1 .. MaxDeploys]
      /\ OnHost = {f \in Names \cup PendingNames : dirs[f] # Absent}
      /\ OnHost' = {f \in Names \cup PendingNames : dirs'[f] # Absent}
  BY <1>a DEF TypeOK, OnHost
<1>e. \A r : Cardinality(OnHost' \cap Above(r)) \in Nat
  <2>1. OnHost' \subseteq Names \cup PendingNames
    BY <1>d
  <2>2. QED
    BY <2>1, HostFacts
<1>. USE DEF Goto, hostVars, nameVars, historyVars, sessionVars
<1>2. CASE UNCHANGED vars
  BY <1>a, <1>d, <1>2, HostKept DEF vars, hostVars, sessionVars, nameVars, historyVars, faultVars
<1>3. CASE BeginDeployment
  <2>1. deploys' = deploys + 1 /\ name' \in {name, name + 1} /\ dirs' = dirs
        /\ completed' = completed /\ pc' = "creating" /\ pc = "idle"
    BY <1>3 DEF BeginDeployment, BeginSession
  <2>2. OnHost' = OnHost
    BY <1>d, <2>1
  <2>3. OnHost' \cap Names \subseteq 1 .. name'
    BY <1>a, <1>b, <2>1, <2>2 DEF HostInv
  <2>4. ASSUME NEW r \in Names, completed'[r] # 0
        PROVE  /\ r <= name'
               /\ Cardinality(OnHost' \cap Above(r)) < deploys' - completed'[r]
    <3>1. r <= name /\ Cardinality(OnHost \cap Above(r)) <= deploys - completed[r]
      BY <1>a, <1>b, <1>c, <2>1, <2>4 DEF HostInv
    <3>2. r \in Int /\ Cardinality(OnHost \cap Above(r)) \in Nat /\ completed[r] \in Int
      BY <1>c, <1>b, <2>4 DEF Names
    <3>3. QED
      BY <1>b, <2>1, <2>2, <3>1, <3>2
  <2>5. ASSUME NEW r \in Names, completed'[r] # 0
        PROVE  Cardinality(OnHost' \cap Above(r)) <= deploys' - completed'[r]
    <3>1. Cardinality(OnHost' \cap Above(r)) < deploys' - completed'[r]
      BY <2>4, <2>5
    <3>2. Cardinality(OnHost' \cap Above(r)) \in Int /\ deploys' - completed'[r] \in Int
      BY <1>b, <1>e, <2>1, <2>5
    <3>3. QED
      BY <3>1, <3>2
  <2>6. QED
    BY <2>1, <2>3, <2>4, <2>5 DEF HostInv, Above
<1>4. ASSUME NEW r \in Names, BeginRollback(r) PROVE HostInv'
  BY <1>a, <1>d, <1>4, HostKept DEF BeginRollback, BeginSession
<1>5. CASE ForgetName
  BY <1>a, <1>d, <1>5, HostKept DEF ForgetName
<1>6. CASE MakePending
  <2>1. pc = "creating" /\ pc' # "creating" /\ name' = name /\ completed' = completed
        /\ deploys' = deploys
    BY <1>6 DEF MakePending
  <2>2. OnHost' \subseteq OnHost \cup {Pending(name)}
    BY <1>d, <1>6 DEF MakePending
  <2>3. name \in Names /\ Pending(name) \notin Names
    BY <1>a, <2>1, NameInNames, NameFacts DEF StepInv, Deploying
  <2>4. OnHost' \cap Names \subseteq 1 .. name'
    BY <1>a, <2>1, <2>2, <2>3 DEF HostInv
  <2>5. ASSUME NEW r \in Names, completed[r] # 0
        PROVE  /\ r <= name
               /\ Cardinality(OnHost' \cap Above(r)) <= deploys - completed[r]
    <3>1. r <= name /\ Cardinality(OnHost \cap Above(r)) < deploys - completed[r]
      BY <1>a, <2>1, <2>5 DEF HostInv
    <3>2. OnHost' \cap Above(r) \subseteq (OnHost \cap Above(r)) \cup {Pending(name)}
      BY <2>2
    <3>3. IsFiniteSet(OnHost \cap Above(r)) /\ Cardinality(OnHost \cap Above(r)) \in Nat
      BY <1>c
    <3>4. Cardinality(OnHost' \cap Above(r)) <= Cardinality(OnHost \cap Above(r)) + 1
      BY <3>2, <3>3, GrowsByOne
    <3>5. Cardinality(OnHost' \cap Above(r)) \in Nat
      BY <1>e
    <3>6. QED
      BY <1>b, <2>5, <3>1, <3>3, <3>4, <3>5
  <2>6. QED
    BY <1>e, <2>1, <2>4, <2>5 DEF HostInv, Above
<1>7. CASE MakePendingFails
  BY <1>a, <1>d, <1>7, HostKept DEF MakePendingFails
<1>8. CASE SavePending
  BY <1>a, <1>d, <1>8, HostKept DEF SavePending, Remember
<1>9. CASE Build
  <2>1. Pending(name) \in OnHost
    BY <1>a, <1>9 DEF Build, FolderInv
  <2>2. OnHost' \subseteq OnHost
    BY <1>d, <1>9, <2>1 DEF Build
  <2>3. QED
    BY <1>a, <1>d, <1>9, <2>2, HostKept DEF Build
<1>10. CASE BuildFails
  <2>1. Pending(name) \in OnHost
    BY <1>a, <1>10 DEF BuildFails, FolderInv
  <2>2. OnHost' \subseteq OnHost
    BY <1>d, <1>10, <2>1 DEF BuildFails
  <2>3. QED
    BY <1>a, <1>d, <1>10, <2>2, HostKept DEF BuildFails
<1>11. CASE Move
  <2>1. pc = "moving" /\ pc' # "creating" /\ name' = name /\ completed' = completed
        /\ deploys' = deploys
    BY <1>11 DEF Move
  <2>2. name \in Names /\ Pending(name) \in PendingNames /\ Pending(name) # name
    BY <1>a, <2>1, NameInNames, NameFacts DEF StepInv, Deploying
  <2>3. Pending(name) \in OnHost
    BY <1>a, <2>1 DEF FolderInv
  <2>4. OnHost' \subseteq OnHost \/ OnHost' \subseteq (OnHost \ {Pending(name)}) \cup {name}
    BY <1>d, <1>11, <2>2 DEF Move
  <2>5. OnHost' \cap Names \subseteq 1 .. name'
    BY <1>a, <1>b, <2>1, <2>2, <2>4 DEF HostInv, Names
  <2>6. ASSUME NEW r \in Names, completed[r] # 0
        PROVE  /\ r <= name
               /\ Cardinality(OnHost' \cap Above(r)) <= deploys - completed[r]
    <3>1. r <= name /\ Cardinality(OnHost \cap Above(r)) <= deploys - completed[r]
      BY <1>a, <1>b, <1>c, <2>1, <2>6 DEF HostInv
    <3>2. Pending(name) \in OnHost \cap Above(r)
      BY <2>2, <2>3 DEF Above
    <3>3. \/ OnHost' \cap Above(r) \subseteq OnHost \cap Above(r)
          \/ OnHost' \cap Above(r) \subseteq ((OnHost \cap Above(r)) \ {Pending(name)}) \cup {name}
      BY <2>4
    <3>4. IsFiniteSet(OnHost \cap Above(r)) /\ Cardinality(OnHost \cap Above(r)) \in Nat
      BY <1>c
    <3>5. Cardinality(OnHost' \cap Above(r)) <= Cardinality(OnHost \cap Above(r))
      BY <3>2, <3>3, <3>4, FS_Subset, Exchanged
    <3>6. Cardinality(OnHost' \cap Above(r)) \in Nat
      BY <1>e
    <3>7. QED
      BY <1>b, <2>6, <3>1, <3>4, <3>5, <3>6
  <2>7. QED
    BY <1>e, <2>1, <2>5, <2>6 DEF HostInv, Above
<1>12. CASE Unlink("unlinking", "linking")
  BY <1>a, <1>d, <1>12, HostKept DEF Unlink
<1>13. CASE Link("linking", "sweeping")
  BY <1>a, <1>d, <1>13, HostKept DEF Link, Remember
<1>14. CASE SwitchFails("unlinking", "sweeping")
  BY <1>a, <1>d, <1>14, HostKept DEF SwitchFails, Remember
<1>15. CASE Sweep
  BY <1>a, <1>d, <1>15, HostKept DEF Sweep, Without
<1>16. CASE Trim
  BY <1>a, <1>d, <1>16, HostKept DEF Trim, RemoveListed, Without
<1>17. CASE Save
  BY <1>a, <1>d, <1>17, HostKept DEF Save
<1>18. CASE Start
  <2>1. pc = "starting" /\ pc' = "idle" /\ name' = name /\ deploys' = deploys /\ OnHost' = OnHost
    BY <1>d, <1>18 DEF Start, Finish
  <2>2. CASE dropped # {}
    BY <1>a, <1>d, <1>18, <2>1, <2>2, HostKept DEF Start
  <2>3. CASE dropped = {}
    <3>1. name \in Names
      BY <1>a, <2>1, NameInNames DEF StepInv, Deploying
    <3>2. \A r \in Names : completed'[r] = IF r = name THEN deploys ELSE completed[r]
      BY <1>a, <1>18, <2>3 DEF Start, TypeOK
    <3>3. OnHost \cap Above(name) = {}
      <4>1. OnHost \cap PendingNames = {}
        BY <1>a, <2>1, <2>3 DEF BoundedInv
      <4>2. OnHost \cap {n \in Names : n > name} = {}
        BY <1>a, <1>b DEF HostInv, Names
      <4>3. QED
        BY <4>1, <4>2 DEF Above
    <3>4. ASSUME NEW r \in Names, completed'[r] # 0
          PROVE  r <= name /\ Cardinality(OnHost \cap Above(r)) <= deploys - completed'[r]
      <4>1. CASE r = name
        <5>1. completed'[r] = deploys /\ r \in Int
          BY <1>b, <3>1, <3>2, <4>1 DEF Names
        <5>2. Cardinality(OnHost \cap Above(r)) = 0
          BY <3>3, <4>1, FS_EmptySet
        <5>3. QED
          BY <1>b, <4>1, <5>1, <5>2
      <4>2. CASE r # name
        <5>1. completed'[r] = completed[r] /\ completed[r] # 0
          BY <3>2, <3>4, <4>2
        <5>2. QED
          BY <1>a, <1>b, <1>c, <2>1, <5>1 DEF HostInv
      <4>3. QED
        BY <4>1, <4>2
    <3>5. QED
      <4>1. OnHost' \cap Names \subseteq 1 .. name'
        BY <1>a, <2>1 DEF HostInv
      <4>2. QED
        BY <1>c, <2>1, <3>4, <4>1 DEF HostInv, Above
  <2>4. QED
    BY <2>2, <2>3
<1>19. CASE StartFails
  BY <1>a, <1>d, <1>19, HostKept DEF StartFails
<1>20. CASE Mark
  BY <1>a, <1>d, <1>20, HostKept DEF Mark, Remember
<1>21. CASE Choose
  BY <1>a, <1>d, <1>21, HostKept DEF Choose, Remember
<1>22. CASE ChooseNone
  BY <1>a, <1>d, <1>22, HostKept DEF ChooseNone, Finish, Result
<1>23. CASE ChooseThrows
  BY <1>a, <1>d, <1>23, HostKept DEF ChooseThrows, Finish
<1>24. CASE Unlink("unlinking back", "linking back")
  BY <1>a, <1>d, <1>24, HostKept DEF Unlink
<1>25. CASE Link("linking back", "rolled back")
  BY <1>a, <1>d, <1>25, HostKept DEF Link, Remember
<1>26. CASE SwitchFails("unlinking back", "rolled back")
  BY <1>a, <1>d, <1>26, HostKept DEF SwitchFails, Remember
<1>27. CASE EndRollback
  BY <1>a, <1>d, <1>27, HostKept DEF EndRollback, Finish, Result
<1>28. CASE Crash
  BY <1>a, <1>d, <1>28, HostKept DEF Crash, Finish
<1>29. QED
  BY <1>1, <1>2, <1>3, <1>4, <1>5, <1>6, <1>7, <1>8, <1>9, <1>10, <1>11, <1>12, <1>13,
     <1>14, <1>15, <1>16, <1>17, <1>18, <1>19, <1>20, <1>21, <1>22, <1>23, <1>24, <1>25, <1>26,
     <1>27, <1>28
  DEF Next, Activate, Rollback, Switch

LEMMA FolderStep == IInv /\ QuotaInv /\ [Next]_vars => FolderInv'
<1>1. SUFFICES ASSUME IInv, QuotaInv, [Next]_vars PROVE FolderInv'
  OBVIOUS
<1>a. TypeOK /\ HostInv /\ FolderInv /\ StepInv
  BY <1>1 DEF IInv, QuotaInv
<1>b. deploys \in Nat /\ \A r \in Names : completed[r] \in Nat
  BY <1>a, ReleasesAssumption DEF ReleasesAssumption, TypeOK
<1>d. /\ dirs \in [Names \cup PendingNames -> {Absent, Empty} \cup 1 .. MaxDeploys]
      /\ OnHost = {f \in Names \cup PendingNames : dirs[f] # Absent}
      /\ OnHost' = {f \in Names \cup PendingNames : dirs'[f] # Absent}
  BY <1>a DEF TypeOK, OnHost
<1>. USE DEF Goto, hostVars, nameVars, historyVars, sessionVars
<1>2. CASE UNCHANGED vars
  BY <1>a, <1>d, <1>2 DEF FolderInv, vars, hostVars, sessionVars, nameVars, historyVars, faultVars, Above, Recent
<1>3. CASE BeginDeployment
  <2>1. BeginSession("creating", {}) /\ pc' = "creating"
    BY <1>3 DEF BeginDeployment, BeginSession
  <2>2. folders' \subseteq OnHost \cup {JsonFile, LinkEntry} /\ cache' \subseteq OnHost
    BY <1>a, <2>1, BeginFacts
  <2>3. OnHost' = OnHost
    BY <1>d, <2>1 DEF BeginSession
  <2>4. QED
    BY <2>1, <2>2, <2>3 DEF FolderInv
<1>4. ASSUME NEW r \in Names, BeginRollback(r) PROVE FolderInv'
  BY <1>a, <1>d, <1>4 DEF FolderInv, BeginRollback, BeginSession
<1>5. CASE ForgetName
  BY <1>a, <1>d, <1>5 DEF FolderInv, ForgetName, Above, Recent
<1>6. CASE MakePending
  <2>1. name \in Names /\ Pending(name) \in PendingNames
    BY <1>a, <1>6, NameInNames, NameFacts DEF MakePending, StepInv, Deploying
  <2>2. OnHost \subseteq OnHost' /\ Pending(name) \in OnHost'
    BY <1>d, <1>6, <2>1 DEF MakePending, Empty, Absent
  <2>3. QED
    BY <1>a, <1>6, <2>2 DEF MakePending, FolderInv
<1>7. CASE MakePendingFails
  BY <1>a, <1>d, <1>7 DEF FolderInv, MakePendingFails
<1>8. CASE SavePending
  <2>1. OnHost' = OnHost /\ name' = name /\ pc = "announcing" /\ pc' = "building"
    BY <1>d, <1>8 DEF SavePending
  <2>2. target' # NoName => current \in OnHost
    BY <1>a, <1>8 DEF SavePending, IsPresent, FolderInv
  <2>3. QED
    BY <1>a, <1>8, <2>1, <2>2 DEF SavePending, Remember, FolderInv
<1>9. CASE Build
  <2>1. pc = "building" /\ name' = name /\ deploys # Absent
    BY <1>a, <1>9 DEF Build, TypeOK, Absent
  <2>2. name \in Names /\ Pending(name) \in PendingNames
    BY <1>a, <2>1, NameInNames, NameFacts DEF StepInv, Deploying
  <2>3. OnHost \subseteq OnHost'
    BY <1>d, <1>9, <2>1, <2>2 DEF Build
  <2>4. QED
    BY <1>a, <1>9, <2>1, <2>3 DEF Build, FolderInv
<1>10. CASE BuildFails
  <2>1. pc = "building" /\ name' = name /\ deploys # Absent
    BY <1>a, <1>10 DEF BuildFails, TypeOK, Absent
  <2>2. name \in Names /\ Pending(name) \in PendingNames
    BY <1>a, <2>1, NameInNames, NameFacts DEF StepInv, Deploying
  <2>3. OnHost \subseteq OnHost'
    BY <1>d, <1>10, <2>1, <2>2 DEF BuildFails
  <2>4. QED
    BY <1>a, <1>10, <2>1, <2>3 DEF BuildFails, FolderInv
<1>11. CASE Move
  <2>1. /\ pc = "moving" /\ pc' = "unlinking" /\ name' = name /\ current' = name
        /\ target' = target /\ completed' = completed /\ deploys' = deploys
        /\ folders' = (folders \ {Pending(name)}) \cup {name}
    BY <1>11 DEF Move
  <2>2. ASSUME Recent(target)
        PROVE  Cardinality(folders' \cap Above(target)) <= deploys - completed[target]
    <3>1. target \in Names /\ target # NoName /\ completed[target] # 0
      BY <1>a, <2>2 DEF Recent, TypeOK
    <3>2. name \in Names /\ Pending(name) \in PendingNames
      BY <1>a, <2>1, NameInNames, NameFacts DEF StepInv, Deploying
    <3>3. Pending(name) \in OnHost \cap Above(target)
      BY <1>a, <2>1, <3>2 DEF FolderInv, Above
    <3>4. JsonFile \notin Above(target) /\ LinkEntry \notin Above(target)
      BY NameFacts DEF Above
    <3>5. folders \subseteq OnHost \cup {JsonFile, LinkEntry}
      BY <1>a, <2>1, <3>1 DEF FolderInv
    <3>6. folders' \cap Above(target)
            \subseteq ((OnHost \cap Above(target)) \ {Pending(name)}) \cup {name}
      BY <2>1, <3>4, <3>5
    <3>7. IsFiniteSet(OnHost \cap Above(target)) /\ Cardinality(OnHost \cap Above(target)) \in Nat
      <4>1. OnHost \subseteq Names \cup PendingNames
        BY <1>d
      <4>2. QED
        BY <4>1, HostFacts
    <3>8. /\ Cardinality(folders' \cap Above(target)) <= Cardinality(OnHost \cap Above(target))
          /\ Cardinality(folders' \cap Above(target)) \in Nat
      <4>1. Cardinality(folders' \cap Above(target)) <= Cardinality(OnHost \cap Above(target))
        BY <3>3, <3>6, <3>7, Exchanged
      <4>2. folders' \cap Above(target) \subseteq Folders
        BY <1>a, <2>1, <3>2 DEF TypeOK, Folders
      <4>3. QED
        BY <4>1, <4>2, FolderFacts
    <3>9. Cardinality(OnHost \cap Above(target)) <= deploys - completed[target]
      BY <1>a, <3>1 DEF HostInv
    <3>10. deploys - completed[target] \in Int
      BY <1>b, <3>1
    <3>11. QED
      BY <3>7, <3>8, <3>9, <3>10
  <2>3. Recent(target)' <=> Recent(target)
    BY <2>1 DEF Recent
  <2>4. QED
    BY <2>1, <2>2, <2>3 DEF FolderInv, Above
<1>12. CASE Unlink("unlinking", "linking")
  <2>1. /\ pc \in {"unlinking", "linking", "sweeping"} /\ pc' \in {"linking", "sweeping", "trimming"}
        /\ UNCHANGED <<name, current, target, completed, deploys>>
    BY <1>12 DEF Unlink
  <2>2. folders' = folders
    BY <1>a, <1>12, <2>1 DEF Unlink, FolderInv
  <2>3. QED
    BY <1>a, <2>1, <2>2 DEF FolderInv, Above, Recent
<1>13. CASE Link("linking", "sweeping")
  <2>1. /\ pc \in {"unlinking", "linking", "sweeping"} /\ pc' \in {"linking", "sweeping", "trimming"}
        /\ UNCHANGED <<name, current, target, completed, deploys>>
    BY <1>13 DEF Link, Remember
  <2>2. folders' = folders
    BY <1>a, <1>13, <2>1 DEF Link, Remember, FolderInv
  <2>3. QED
    BY <1>a, <2>1, <2>2 DEF FolderInv, Above, Recent
<1>14. CASE SwitchFails("unlinking", "sweeping")
  <2>1. /\ pc \in {"unlinking", "linking", "sweeping"} /\ pc' \in {"linking", "sweeping", "trimming"}
        /\ UNCHANGED <<name, current, target, completed, deploys>>
    BY <1>14 DEF SwitchFails, Remember
  <2>2. folders' = folders
    BY <1>a, <1>14, <2>1 DEF SwitchFails, Remember, FolderInv
  <2>3. QED
    BY <1>a, <2>1, <2>2 DEF FolderInv, Above, Recent
<1>15. CASE Sweep
  <2>1. /\ pc \in {"unlinking", "linking", "sweeping"} /\ pc' \in {"linking", "sweeping", "trimming"}
        /\ UNCHANGED <<name, current, target, completed, deploys>>
    BY <1>15 DEF Sweep
  <2>2. folders' = folders
    BY <1>a, <1>15, <2>1 DEF Sweep, FolderInv
  <2>3. QED
    BY <1>a, <2>1, <2>2 DEF FolderInv, Above, Recent
<1>16. CASE Trim
  BY <1>a, <1>d, <1>16 DEF FolderInv, Trim, RemoveListed, Without
<1>17. CASE Save
  BY <1>a, <1>d, <1>17 DEF FolderInv, Save
<1>18. CASE Start
  BY <1>a, <1>d, <1>18 DEF FolderInv, Start, Finish
<1>19. CASE StartFails
  BY <1>a, <1>d, <1>19 DEF FolderInv, StartFails
<1>20. CASE Mark
  BY <1>a, <1>d, <1>20 DEF FolderInv, Mark, Remember
<1>21. CASE Choose
  BY <1>a, <1>d, <1>21 DEF FolderInv, Choose, Remember
<1>22. CASE ChooseNone
  BY <1>a, <1>d, <1>22 DEF FolderInv, ChooseNone, Finish, Result
<1>23. CASE ChooseThrows
  BY <1>a, <1>d, <1>23 DEF FolderInv, ChooseThrows, Finish
<1>24. CASE Unlink("unlinking back", "linking back")
  BY <1>a, <1>d, <1>24 DEF FolderInv, Unlink
<1>25. CASE Link("linking back", "rolled back")
  BY <1>a, <1>d, <1>25 DEF FolderInv, Link, Remember
<1>26. CASE SwitchFails("unlinking back", "rolled back")
  BY <1>a, <1>d, <1>26 DEF FolderInv, SwitchFails, Remember
<1>27. CASE EndRollback
  BY <1>a, <1>d, <1>27 DEF FolderInv, EndRollback, Finish, Result
<1>28. CASE Crash
  BY <1>a, <1>d, <1>28 DEF FolderInv, Crash, Finish
<1>29. QED
  BY <1>1, <1>2, <1>3, <1>4, <1>5, <1>6, <1>7, <1>8, <1>9, <1>10, <1>11, <1>12, <1>13,
     <1>14, <1>15, <1>16, <1>17, <1>18, <1>19, <1>20, <1>21, <1>22, <1>23, <1>24, <1>25, <1>26,
     <1>27, <1>28
  DEF Next, Activate, Rollback, Switch

LEMMA TargetStep == IInv /\ QuotaInv /\ [Next]_vars => TargetSurvives'
<1>1. SUFFICES ASSUME IInv, QuotaInv, [Next]_vars PROVE TargetSurvives'
  OBVIOUS
<1>a. TypeOK /\ HostInv /\ FolderInv /\ StepInv /\ LinkInv /\ TargetSurvives
  BY <1>1 DEF IInv, QuotaInv
<1>b. deploys \in Nat /\ \A r \in Names : completed[r] \in Nat
  BY <1>a, ReleasesAssumption DEF ReleasesAssumption, TypeOK
<1>d. /\ dirs \in [Names \cup PendingNames -> {Absent, Empty} \cup 1 .. MaxDeploys]
      /\ OnHost = {f \in Names \cup PendingNames : dirs[f] # Absent}
      /\ OnHost' = {f \in Names \cup PendingNames : dirs'[f] # Absent}
  BY <1>a DEF TypeOK, OnHost
<1>. USE DEF Goto, hostVars, nameVars, historyVars, sessionVars, TargetSurvives, Recent,
            Succeeds, Fails, faultVars
<1>2. CASE UNCHANGED vars
  BY <1>a, <1>d, <1>2 DEF vars, hostVars, sessionVars, nameVars, historyVars, faultVars
<1>3. CASE BeginDeployment
  BY <1>a, <1>d, <1>3 DEF BeginDeployment, BeginSession
<1>4. ASSUME NEW r \in Names, BeginRollback(r) PROVE TargetSurvives'
  BY <1>a, <1>d, <1>4 DEF BeginRollback, BeginSession
<1>5. CASE ForgetName
  BY <1>a, <1>d, <1>5 DEF ForgetName
<1>6. CASE MakePending
  <2>1. name \in Names /\ Pending(name) \in PendingNames
    BY <1>a, <1>6, NameInNames, NameFacts DEF MakePending, StepInv, Deploying
  <2>2. OnHost \subseteq OnHost'
    BY <1>d, <1>6, <2>1 DEF MakePending, Empty, Absent
  <2>3. QED
    BY <1>a, <1>6, <2>2 DEF MakePending
<1>7. CASE MakePendingFails
  BY <1>a, <1>d, <1>7 DEF MakePendingFails
<1>8. CASE SavePending
  <2>1. target' # NoName => target' \in OnHost
    BY <1>a, <1>8 DEF SavePending, IsPresent, FolderInv
  <2>2. QED
    BY <1>d, <1>8, <2>1 DEF SavePending
<1>9. CASE Build
  <2>1. pc = "building" /\ deploys # Absent
    BY <1>a, <1>9 DEF Build, TypeOK, Absent
  <2>2. name \in Names /\ Pending(name) \in PendingNames
    BY <1>a, <2>1, NameInNames, NameFacts DEF StepInv, Deploying
  <2>3. OnHost \subseteq OnHost'
    BY <1>d, <1>9, <2>1, <2>2 DEF Build
  <2>4. QED
    BY <1>a, <1>9, <2>3 DEF Build
<1>10. CASE BuildFails
  <2>1. pc = "building" /\ deploys # Absent
    BY <1>a, <1>10 DEF BuildFails, TypeOK, Absent
  <2>2. name \in Names /\ Pending(name) \in PendingNames
    BY <1>a, <2>1, NameInNames, NameFacts DEF StepInv, Deploying
  <2>3. OnHost \subseteq OnHost'
    BY <1>d, <1>10, <2>1, <2>2 DEF BuildFails
  <2>4. QED
    BY <1>a, <1>10, <2>3 DEF BuildFails
<1>11. CASE Move
  <2>1. pc = "moving"
    BY <1>11 DEF Move
  <2>2. name \in Names /\ Pending(name) \in PendingNames /\ Pending(name) \in OnHost
    BY <1>a, <2>1, NameInNames, NameFacts DEF StepInv, Deploying, FolderInv
  <2>3. OnHost \cap Names \subseteq OnHost'
    BY <1>d, <1>11, <2>2, NameFacts DEF Move
  <2>4. QED
    BY <1>a, <1>11, <2>3 DEF Move, TypeOK
<1>12. CASE Unlink("unlinking", "linking")
  BY <1>a, <1>d, <1>12 DEF Unlink
<1>13. CASE Link("linking", "sweeping")
  BY <1>a, <1>d, <1>13 DEF Link, Remember
<1>14. CASE SwitchFails("unlinking", "sweeping")
  BY <1>a, <1>d, <1>14 DEF SwitchFails, Remember
<1>15. CASE Sweep
  <2>1. OnHost \cap Names \subseteq OnHost'
    BY <1>d, <1>15, NameFacts DEF Sweep, Without
  <2>2. QED
    BY <1>a, <1>15, <2>1 DEF Sweep, TypeOK
<1>16. CASE Trim
  <2>1. /\ pc = "trimming" /\ UNCHANGED <<target, completed, deploys>>
        /\ "idle" \notin dropped' => "idle" \notin dropped
    BY <1>16 DEF Trim, RemoveListed
  <2>2. SUFFICES ASSUME Recent(target), "idle" \notin dropped PROVE target \in OnHost'
    BY <2>1 DEF TargetSurvives, Recent
  <2>3. target \in Names /\ target \in OnHost /\ completed[target] # 0
    BY <1>a, <2>2 DEF TypeOK, Recent, TargetSurvives
  <2>4. current \in Names /\ target <= current
    BY <1>a, <2>1, <2>3, NameInNames DEF FolderInv, HostInv, StepInv, Deploying
  <2>5. Cardinality(folders \cap Above(target)) <= KeepX - 2
    <3>1. Cardinality(folders \cap Above(target)) <= deploys - completed[target]
      BY <1>a, <2>1, <2>2 DEF FolderInv
    <3>2. deploys - completed[target] <= KeepX - 2
      BY <2>2 DEF Recent
    <3>3. folders \cap Above(target) \subseteq Folders
      BY <1>a DEF TypeOK
    <3>4. /\ Cardinality(folders \cap Above(target)) \in Int
          /\ deploys - completed[target] \in Int /\ KeepX - 2 \in Int
      BY <1>b, <2>3, <3>3, FolderFacts, ReleasesAssumption DEF ReleasesAssumption
    <3>5. QED
      BY <3>1, <3>2, <3>4
  <2>6. target \notin ListToDelete
    BY <1>a, <2>2, <2>3, <2>4, <2>5, Spared DEF TypeOK, LinkInv
  <2>7. QED
    BY <1>d, <1>16, <2>3, <2>6 DEF Trim, RemoveListed, Without
<1>17. CASE Save
  BY <1>a, <1>d, <1>17 DEF Save
<1>18. CASE Start
  BY <1>a, <1>d, <1>18 DEF Start, Finish
<1>19. CASE StartFails
  BY <1>a, <1>d, <1>19 DEF StartFails
<1>20. CASE Mark
  BY <1>a, <1>d, <1>20 DEF Mark, Remember
<1>21. CASE Choose
  BY <1>a, <1>d, <1>21 DEF Choose, Remember
<1>22. CASE ChooseNone
  BY <1>a, <1>d, <1>22 DEF ChooseNone, Finish, Result
<1>23. CASE ChooseThrows
  BY <1>a, <1>d, <1>23 DEF ChooseThrows, Finish
<1>24. CASE Unlink("unlinking back", "linking back")
  BY <1>a, <1>d, <1>24 DEF Unlink
<1>25. CASE Link("linking back", "rolled back")
  BY <1>a, <1>d, <1>25 DEF Link, Remember
<1>26. CASE SwitchFails("unlinking back", "rolled back")
  BY <1>a, <1>d, <1>26 DEF SwitchFails, Remember
<1>27. CASE EndRollback
  BY <1>a, <1>d, <1>27 DEF EndRollback, Finish, Result
<1>28. CASE Crash
  BY <1>a, <1>d, <1>28 DEF Crash, Finish
<1>29. QED
  BY <1>1, <1>2, <1>3, <1>4, <1>5, <1>6, <1>7, <1>8, <1>9, <1>10, <1>11, <1>12, <1>13,
     <1>14, <1>15, <1>16, <1>17, <1>18, <1>19, <1>20, <1>21, <1>22, <1>23, <1>24, <1>25, <1>26,
     <1>27, <1>28
  DEF Next, Activate, Rollback, Switch

LEMMA RestoreStep == IInv /\ QuotaInv /\ [Next]_vars => RestoreInv'
<1>1. SUFFICES ASSUME IInv, QuotaInv, [Next]_vars PROVE RestoreInv'
  OBVIOUS
<1>a. TypeOK /\ FolderInv /\ StepInv /\ SavedInv /\ TargetSurvives /\ RestoreInv
  BY <1>1 DEF IInv, QuotaInv
<1>c. pc \in Deploying => outcome = "none"
  BY <1>a DEF StepInv
<1>d. /\ dirs \in [Names \cup PendingNames -> {Absent, Empty} \cup 1 .. MaxDeploys]
      /\ OnHost = {f \in Names \cup PendingNames : dirs[f] # Absent}
      /\ OnHost' = {f \in Names \cup PendingNames : dirs'[f] # Absent}
  BY <1>a DEF TypeOK, OnHost
<1>. USE DroppedFacts
     DEF Goto, hostVars, nameVars, historyVars, sessionVars, Succeeds, faultVars, Deploying,
         RollingBack, RestoreInv, RollbackRestores
<1>2. CASE UNCHANGED vars
  BY <1>a, <1>c, <1>d, <1>2 DEF vars, hostVars, sessionVars, nameVars, historyVars, faultVars, Recent
<1>3. CASE BeginDeployment
  <2>1. BeginSession("creating", {}) /\ pc' = "creating" /\ outcome' = "none"
    BY <1>3 DEF BeginDeployment, BeginSession
  <2>2. before' = IF link \in OnHost THEN link ELSE NoName
    BY <2>1 DEF BeginSession
  <2>3. OnHost' = OnHost
    BY <1>d, <2>1 DEF BeginSession
  <2>4. dropped' = {} => current' = link
    BY <1>a, <2>1, BeginFacts
  <2>5. QED
    BY <2>1, <2>2, <2>3, <2>4
<1>4. ASSUME NEW r \in Names, BeginRollback(r) PROVE RestoreInv'
  BY <1>a, <1>c, <1>d, <1>4 DEF BeginRollback, BeginSession
<1>5. CASE ForgetName
  BY <1>a, <1>c, <1>d, <1>5 DEF ForgetName, Recent
<1>6. CASE MakePending
  <2>1. name \in Names /\ Pending(name) \in PendingNames
    BY <1>a, <1>6, NameInNames, NameFacts DEF MakePending, StepInv, Deploying
  <2>2. current \in OnHost' <=> current \in OnHost
    <3>1. current # Pending(name)
      BY <1>a, <2>1, NameFacts DEF TypeOK
    <3>2. QED
      BY <1>d, <1>6, <2>1, <3>1 DEF MakePending
  <2>3. QED
    BY <1>a, <1>6, <2>2 DEF MakePending
<1>7. CASE MakePendingFails
  BY <1>a, <1>c, <1>d, <1>7 DEF MakePendingFails
<1>8. CASE SavePending
  <2>1. target' = IF current \in OnHost THEN current ELSE NoName
    BY <1>a, <1>8 DEF SavePending, IsPresent, FolderInv
  <2>2. QED
    BY <1>a, <1>8, <2>1 DEF SavePending
<1>9. CASE Build
  BY <1>a, <1>c, <1>d, <1>9 DEF Build
<1>10. CASE BuildFails
  BY <1>a, <1>c, <1>d, <1>10 DEF BuildFails
<1>11. CASE Move
  BY <1>a, <1>c, <1>d, <1>11 DEF Move
<1>12. CASE Unlink("unlinking", "linking")
  BY <1>a, <1>c, <1>d, <1>12 DEF Unlink
<1>13. CASE Link("linking", "sweeping")
  BY <1>a, <1>c, <1>d, <1>13 DEF Link, Remember
<1>14. CASE SwitchFails("unlinking", "sweeping")
  BY <1>a, <1>c, <1>d, <1>14 DEF SwitchFails, Remember
<1>15. CASE Sweep
  BY <1>a, <1>c, <1>d, <1>15 DEF Sweep, Without
<1>16. CASE Trim
  BY <1>a, <1>c, <1>d, <1>16 DEF Trim, RemoveListed, Without
<1>17. CASE Save
  BY <1>a, <1>c, <1>d, <1>17 DEF Save
<1>18. CASE Start
  BY <1>a, <1>c, <1>d, <1>18 DEF Start, Finish
<1>19. CASE StartFails
  BY <1>a, <1>c, <1>d, <1>19 DEF StartFails
<1>20. CASE Mark
  BY <1>a, <1>c, <1>d, <1>20 DEF Mark, Remember
<1>21. CASE Choose
  BY <1>a, <1>c, <1>d, <1>21 DEF Choose, Remember
<1>22. CASE ChooseNone
  <2>1. dropped = {} /\ outcome' = "failed" => before = NoName
    BY <1>a, <1>22 DEF ChooseNone, Finish, Result
  <2>2. QED
    BY <1>22, <2>1 DEF ChooseNone, Finish, Recent
<1>23. CASE ChooseThrows
  <2>1. dropped = {} /\ Recent(before) => FALSE
    <3>1. SUFFICES ASSUME dropped = {}, Recent(before) PROVE FALSE
      OBVIOUS
    <3>2. pc = "choosing" /\ target \notin OnHost
      BY <1>23 DEF ChooseThrows, IsPresent
    <3>3. outcome = "failed"
      BY <1>a, <3>1, <3>2 DEF StepInv, SavedInv
    <3>4. target = before
      BY <1>a, <3>1, <3>2, <3>3
    <3>5. QED
      BY <1>a, <3>1, <3>2, <3>4 DEF TargetSurvives
  <2>2. QED
    BY <1>23, <2>1 DEF ChooseThrows, Finish, Recent
<1>24. CASE Unlink("unlinking back", "linking back")
  BY <1>a, <1>c, <1>d, <1>24 DEF Unlink
<1>25. CASE Link("linking back", "rolled back")
  BY <1>a, <1>c, <1>d, <1>25 DEF Link, Remember
<1>26. CASE SwitchFails("unlinking back", "rolled back")
  BY <1>a, <1>c, <1>d, <1>26 DEF SwitchFails, Remember
<1>27. CASE EndRollback
  <2>1. ASSUME dropped = {}, outcome' = "failed", Recent(before)
        PROVE  link = before /\ link \in OnHost
    <3>1. pc = "rolled back" /\ outcome = "failed"
      BY <1>27, <2>1 DEF EndRollback, Finish, Result
    <3>2. link = target /\ target = before
      BY <1>a, <2>1, <3>1
    <3>3. QED
      BY <1>a, <2>1, <3>2 DEF TargetSurvives
  <2>2. QED
    BY <1>d, <1>27, <2>1 DEF EndRollback, Finish, Recent
<1>28. CASE Crash
  BY <1>a, <1>c, <1>d, <1>28 DEF Crash, Finish
<1>29. QED
  BY <1>1, <1>2, <1>3, <1>4, <1>5, <1>6, <1>7, <1>8, <1>9, <1>10, <1>11, <1>12, <1>13,
     <1>14, <1>15, <1>16, <1>17, <1>18, <1>19, <1>20, <1>21, <1>22, <1>23, <1>24, <1>25, <1>26,
     <1>27, <1>28
  DEF Next, Activate, Rollback, Switch

LEMMA BoundedStep == IInv /\ QuotaInv /\ [Next]_vars => BoundedInv'
<1>1. SUFFICES ASSUME IInv, QuotaInv, [Next]_vars PROVE BoundedInv'
  OBVIOUS
<1>a. TypeOK /\ FolderInv /\ StepInv /\ BoundedInv
  BY <1>1 DEF IInv, QuotaInv
<1>d. /\ dirs \in [Names \cup PendingNames -> {Absent, Empty} \cup 1 .. MaxDeploys]
      /\ OnHost = {f \in Names \cup PendingNames : dirs[f] # Absent}
      /\ OnHost' = {f \in Names \cup PendingNames : dirs'[f] # Absent}
  BY <1>a DEF TypeOK, OnHost
<1>. USE DroppedFacts
     DEF Goto, hostVars, nameVars, historyVars, sessionVars, Succeeds, faultVars, Deploying,
         BoundedInv
<1>2. CASE UNCHANGED vars
  BY <1>a, <1>d, <1>2 DEF vars, hostVars, sessionVars, nameVars, historyVars, faultVars
<1>3. CASE BeginDeployment
  <2>1. BeginSession("creating", {}) /\ pc' = "creating"
    BY <1>3 DEF BeginDeployment, BeginSession
  <2>2. OnHost' = OnHost
    BY <1>d, <2>1 DEF BeginSession
  <2>3. OnHost \subseteq folders'
    BY <1>a, <2>1, BeginFacts
  <2>4. QED
    BY <2>1, <2>2, <2>3
<1>4. ASSUME NEW r \in Names, BeginRollback(r) PROVE BoundedInv'
  BY <1>a, <1>d, <1>4 DEF BeginRollback, BeginSession
<1>5. CASE ForgetName
  BY <1>a, <1>d, <1>5 DEF ForgetName
<1>6. CASE MakePending
  <2>1. OnHost' \subseteq OnHost \cup {Pending(name)}
    BY <1>d, <1>6 DEF MakePending
  <2>2. QED
    BY <1>a, <1>6, <2>1 DEF MakePending
<1>7. CASE MakePendingFails
  BY <1>a, <1>d, <1>7 DEF MakePendingFails
<1>8. CASE SavePending
  BY <1>a, <1>d, <1>8 DEF SavePending, Remember
<1>9. CASE Build
  <2>1. pc = "building" /\ Pending(name) \in folders
    BY <1>a, <1>9 DEF Build, FolderInv
  <2>2. OnHost' \subseteq OnHost \cup {Pending(name)}
    BY <1>d, <1>9 DEF Build
  <2>3. QED
    BY <1>a, <1>9, <2>1, <2>2 DEF Build
<1>10. CASE BuildFails
  BY <1>a, <1>d, <1>10 DEF BuildFails
<1>11. CASE Move
  <2>1. pc = "moving"
    BY <1>11 DEF Move
  <2>2. name \in Names /\ Pending(name) \in PendingNames /\ Pending(name) # name
    BY <1>a, <2>1, NameInNames, NameFacts DEF StepInv, Deploying
  <2>3. dropped' = {} => OnHost' \subseteq (OnHost \ {Pending(name)}) \cup {name}
    BY <1>d, <1>11, <2>2 DEF Move
  <2>4. QED
    BY <1>a, <1>11, <2>3 DEF Move
<1>12. CASE Unlink("unlinking", "linking")
  BY <1>a, <1>d, <1>12 DEF Unlink
<1>13. CASE Link("linking", "sweeping")
  BY <1>a, <1>d, <1>13 DEF Link, Remember
<1>14. CASE SwitchFails("unlinking", "sweeping")
  BY <1>a, <1>d, <1>14 DEF SwitchFails, Remember
<1>15. CASE Sweep
  <2>1. dropped' = {} => OnHost' \subseteq OnHost \ PendingNames
    BY <1>d, <1>15 DEF Sweep, Without
  <2>2. QED
    BY <1>a, <1>15, <2>1 DEF Sweep
<1>16. CASE Trim
  <2>1. dropped' = {} => OnHost' \subseteq OnHost \ ListToDelete
    BY <1>d, <1>16 DEF Trim, RemoveListed, Without
  <2>2. Cardinality(folders \ ListToDelete) <= KeepX
    BY <1>a, QuotaKept DEF TypeOK
  <2>3. QED
    BY <1>a, <1>16, <2>1, <2>2 DEF Trim, RemoveListed
<1>17. CASE Save
  BY <1>a, <1>d, <1>17 DEF Save
<1>18. CASE Start
  BY <1>a, <1>d, <1>18 DEF Start, Finish
<1>19. CASE StartFails
  BY <1>a, <1>d, <1>19 DEF StartFails
<1>20. CASE Mark
  BY <1>a, <1>d, <1>20 DEF Mark, Remember
<1>21. CASE Choose
  BY <1>a, <1>d, <1>21 DEF Choose, Remember
<1>22. CASE ChooseNone
  BY <1>a, <1>d, <1>22 DEF ChooseNone, Finish, Result
<1>23. CASE ChooseThrows
  BY <1>a, <1>d, <1>23 DEF ChooseThrows, Finish
<1>24. CASE Unlink("unlinking back", "linking back")
  BY <1>a, <1>d, <1>24 DEF Unlink
<1>25. CASE Link("linking back", "rolled back")
  BY <1>a, <1>d, <1>25 DEF Link, Remember
<1>26. CASE SwitchFails("unlinking back", "rolled back")
  BY <1>a, <1>d, <1>26 DEF SwitchFails, Remember
<1>27. CASE EndRollback
  BY <1>a, <1>d, <1>27 DEF EndRollback, Finish, Result
<1>28. CASE Crash
  BY <1>a, <1>d, <1>28 DEF Crash, Finish
<1>29. QED
  BY <1>1, <1>2, <1>3, <1>4, <1>5, <1>6, <1>7, <1>8, <1>9, <1>10, <1>11, <1>12, <1>13,
     <1>14, <1>15, <1>16, <1>17, <1>18, <1>19, <1>20, <1>21, <1>22, <1>23, <1>24, <1>25, <1>26,
     <1>27, <1>28
  DEF Next, Activate, Rollback, Switch

LEMMA InitQuota == Init => QuotaInv
<1>1. SUFFICES ASSUME Init PROVE QuotaInv
  OBVIOUS
<1>2. OnHost = {} /\ \A r \in Names : completed[r] = 0
  BY <1>1 DEF Init, OnHost
<1>3. HostInv
  BY <1>2 DEF HostInv
<1>4. FolderInv /\ TargetSurvives /\ RestoreInv /\ BoundedInv
  BY <1>1
  DEF Init, FolderInv, TargetSurvives, Recent, RestoreInv, RollbackRestores, Deploying,
     RollingBack, BoundedInv
<1>5. QED
  BY <1>3, <1>4 DEF QuotaInv

LEMMA QuotaStep == IInv /\ QuotaInv /\ [Next]_vars => QuotaInv'
BY HostStep, FolderStep, TargetStep, RestoreStep, BoundedStep DEF QuotaInv

LEMMA QuotaHolds == Spec => []QuotaInv
BY InvHolds, InitQuota, QuotaStep, PTL DEF Spec

\* The release a failing deployment goes back to outlives listToDelete, for
\* every quota: it takes the first folders by name, and too few of those behind
\* a recent release are there to be counted before it.
THEOREM TargetOutlives == Spec => []TargetSurvives
<1>1. QuotaInv => TargetSurvives
  BY DEF QuotaInv
<1>2. QED
  BY <1>1, QuotaHolds, PTL

\* ifRollbackCallable brings the host back to a recent release whatever crashed
\* or failed in the sessions before.
THEOREM FailureRestores == Spec => []RollbackRestores
<1>1. QuotaInv => RollbackRestores
  BY DEF QuotaInv, RestoreInv, RollbackRestores
<1>2. QED
  BY <1>1, QuotaHolds, PTL

\* What cleanPending and listToDelete leave is within the quota, whatever the
\* deployments before have left.
THEOREM QuotaBounds == Spec => []HostIsBounded
<1>1. ASSUME IInv, QuotaInv, pc = "starting", dropped = {}
      PROVE  /\ OnHost \cap PendingNames = {}
             /\ Cardinality(OnHost \cup (folders \cap {JsonFile})) <= KeepX
  <2>1. /\ OnHost \subseteq folders /\ OnHost \cap PendingNames = {}
        /\ Cardinality(folders) <= KeepX
    BY <1>1 DEF QuotaInv, BoundedInv, Deploying
  <2>2. folders \subseteq Folders
    BY <1>1 DEF IInv, TypeOK
  <2>3. IsFiniteSet(folders) /\ Cardinality(folders) \in Nat
    BY <2>2, FolderFacts
  <2>4. OnHost \cup (folders \cap {JsonFile}) \subseteq folders
    BY <2>1
  <2>5. /\ Cardinality(OnHost \cup (folders \cap {JsonFile})) <= Cardinality(folders)
        /\ Cardinality(OnHost \cup (folders \cap {JsonFile})) \in Nat
    BY <2>3, <2>4, FS_Subset, FS_CardinalityType
  <2>6. QED
    BY <2>1, <2>3, <2>5, ReleasesAssumption DEF ReleasesAssumption
<1>2. IInv /\ QuotaInv => HostIsBounded
  BY <1>1 DEF HostIsBounded
<1>3. QED
  BY <1>2, InvHolds, QuotaHolds, PTL
=============================================================================
