--------------------------- MODULE ResolverProofs ---------------------------
(***************************************************************************)
(* ReferenceResolver: what resolve_one and the Go pass promise, for every    *)
(* project, whatever its files, nodes and references.                        *)
(***************************************************************************)
EXTENDS ReferenceResolver, FiniteSetTheorems, WellFoundedInduction, TLAPS

-----------------------------------------------------------------------------
(* Entries of a scan. *)

Listed(scan) ==
  /\ \A e \in scan : /\ e.at[1] \in Nat /\ e.at[2] \in Nat
                     /\ e.node.line \in Nat /\ e.node.exported \in BOOLEAN
  /\ \A d, e \in scan : d.at[1] = e.at[1] /\ d.at[2] = e.at[2] => d = e
  /\ \A d, e \in scan : d.node.id = e.node.id => d = e
  /\ \E n \in Nat : \E w \in [1..n -> Nat] :
       \A e \in scan : e.at[1] \in 1..n /\ e.at[2] <= w[e.at[1]]

LEMMA LeastOf ==
  ASSUME NEW S \in SUBSET Nat, S # {}
  PROVE  \E m \in S : \A x \in S : m <= x
<1> DEFINE R == OpToRel(<, Nat)
<1>1. IsWellFoundedOn(R, Nat)
  BY NatLessThanWellFounded
<1>2. \A x, y \in Nat : <<x, y>> \in R <=> x < y
  BY DEF OpToRel
<1> HIDE DEF R
<1>3. PICK m \in S : \A x \in S : <<x, m>> \notin R
  BY <1>1, WFMin
<1>4. ASSUME NEW x \in S PROVE m <= x
  <2>1. x \in Nat /\ m \in Nat /\ <<x, m>> \notin R
    BY <1>3
  <2> QED BY <1>2, <2>1
<1> QED BY <1>4

LEMMA GreatestOf ==
  ASSUME NEW b \in Int, NEW S \in SUBSET Int, S # {}, \A x \in S : x <= b
  PROVE  \E m \in S : \A x \in S : x <= m
<1> DEFINE T == {b - x : x \in S}
<1>1. T \in SUBSET Nat /\ T # {}
  <2>1. \A x \in S : x \in Int /\ b - x \in Nat
    OBVIOUS
  <2>2. \A t \in T : t \in Nat
    BY <2>1
  <2> QED BY <2>2
<1>2. PICK t \in T : \A y \in T : t <= y
  <2> HIDE DEF T
  <2> QED BY <1>1, LeastOf
<1>3. PICK m \in S : t = b - m
  BY <1>2
<1>4. ASSUME NEW x \in S PROVE x <= m
  <2>1. b - m <= b - x
    BY <1>2, <1>3
  <2> QED BY <2>1
<1> QED BY <1>4

(* Of entries the first is one of them.                                      *)
LEMMA FirstOfMany ==
  ASSUME NEW scan, Listed(scan), NEW S \in SUBSET scan, S # {}
  PROVE  First(S) \in S /\ \A d \in S : AtOrBefore(First(S), d)
<1> DEFINE ranks == {e.at[1] : e \in S}
<1>1. ranks \in SUBSET Nat /\ ranks # {}
  BY DEF Listed
<1>2. PICK r \in ranks : \A x \in ranks : r <= x
  <2> HIDE DEF ranks
  <2> QED BY <1>1, LeastOf
<1> DEFINE row == {e \in S : e.at[1] = r}
           at == {e.at[2] : e \in row}
<1>3. at \in SUBSET Nat /\ at # {}
  <2>1. \A e \in row : e.at[2] \in Nat
    BY DEF Listed
  <2>2. row # {}
    BY <1>2
  <2> HIDE DEF row
  <2> QED BY <2>1, <2>2
<1>4. PICK p \in at : \A x \in at : p <= x
  <2> HIDE DEF at
  <2> QED BY <1>3, LeastOf
<1>5. PICK f \in S : f.at[1] = r /\ f.at[2] = p
  BY <1>4
<1>6. ASSUME NEW d \in S PROVE AtOrBefore(f, d)
  <2>1. r <= d.at[1] /\ r \in Nat /\ d.at[1] \in Nat
    BY <1>1, <1>2 DEF Listed
  <2>2. CASE d.at[1] = r
    BY <1>4, <1>5, <2>2 DEF AtOrBefore
  <2>3. CASE d.at[1] # r
    BY <1>5, <2>1, <2>3 DEF AtOrBefore
  <2> QED BY <2>2, <2>3
<1> QED BY <1>6 DEF First

LEMMA ScoreRange ==
  ASSUME NEW n, NEW ref, n.line \in Nat, ref.line \in Nat
  PROVE  /\ ScoreNode(n, ref) \in Int
         /\ n.file # ref.file => ScoreNode(n, ref) <= 85
         /\ ScoreNode(n, ref) <= 205
         /\ n.file # ref.file /\ ~SpeaksOf(n, ref) => ScoreNode(n, ref) <= 0 - 45
         /\ SpeaksOf(n, ref) => ScoreNode(n, ref) >= 50
         /\ SpeaksOf(n, ref) /\ n.file = ref.file => ScoreNode(n, ref) >= 150
         /\ ~SpeaksOf(n, ref) /\ n.file = ref.file => ScoreNode(n, ref) >= 20
<1>1. KindBonus(n, ref) \in {0, 15, 25}
  BY DEF KindBonus
<1>2. Closeness(n.line, ref.line) \in 0..20
  BY DEF Closeness
<1> DEFINE near == IF n.file = ref.file THEN 100 + Closeness(n.line, ref.line) ELSE 0
           tongue == IF SpeaksOf(n, ref) THEN 50 ELSE -80
           shown == IF n.exported THEN 10 ELSE 0
<1>3. near \in Int /\ near >= 0 /\ (n.file = ref.file => near >= 100 /\ near <= 120)
      /\ (n.file # ref.file => near = 0)
  BY <1>2
<1>4. tongue \in Int /\ (SpeaksOf(n, ref) => tongue = 50) /\ (~SpeaksOf(n, ref) => tongue = 0 - 80)
  OBVIOUS
<1>5. shown \in {0, 10}
  OBVIOUS
<1>6. ScoreNode(n, ref) = near + tongue + KindBonus(n, ref) + shown
  BY DEF ScoreNode
<1> HIDE DEF near, tongue, shown
<1> QED BY <1>1, <1>3, <1>4, <1>5, <1>6

(* Of entries the best is one of them, and none has a higher score.           *)
LEMMA BestOfMany ==
  ASSUME NEW scan, Listed(scan), NEW S \in SUBSET scan, S # {}, NEW ref, ref.line \in Nat
  PROVE  /\ FindBest(S, ref) \in S
         /\ \A d \in S : ScoreNode(d.node, ref) <= ScoreNode(FindBest(S, ref).node, ref)
<1> DEFINE score(e) == ScoreNode(e.node, ref)
           scores == {score(e) : e \in S}
<1>1. \A e \in S : score(e) \in Int /\ score(e) <= 205
  BY ScoreRange DEF Listed
<1>2. scores \in SUBSET Int /\ scores # {} /\ \A x \in scores : x <= 205
  BY <1>1
<1>3. PICK top \in scores : \A x \in scores : x <= top
  <2>1. 205 \in Int
    OBVIOUS
  <2> HIDE DEF scores
  <2> QED BY <1>2, <2>1, GreatestOf
<1> DEFINE best == {e \in S : score(e) = top}
           ranks == {e.at[1] : e \in best}
<1>a. PICK n \in Nat : \E w \in [1..n -> Nat] :
        \A e \in scan : e.at[1] \in 1..n /\ e.at[2] <= w[e.at[1]]
  BY DEF Listed
<1>4. PICK w \in [1..n -> Nat] : \A e \in scan : e.at[1] \in 1..n /\ e.at[2] <= w[e.at[1]]
  BY <1>a
<1>5. ranks \in SUBSET Int /\ ranks # {} /\ \A x \in ranks : x <= n
  BY <1>3, <1>4
<1>6. PICK r \in ranks : \A x \in ranks : x <= r
  <2>1. n \in Int
    OBVIOUS
  <2> HIDE DEF ranks
  <2> QED BY <1>5, <2>1, GreatestOf
<1> DEFINE row == {e \in best : e.at[1] = r}
           at == {e.at[2] : e \in row}
<1>7. at \in SUBSET Int /\ at # {} /\ \A x \in at : x <= w[r]
  <2>1. \A e \in row : e.at[2] \in Int /\ e.at[2] <= w[r]
    BY <1>4 DEF Listed
  <2>2. row # {}
    BY <1>6
  <2> HIDE DEF row
  <2> QED BY <2>1, <2>2
<1>8. w[r] \in Int
  BY <1>4, <1>6
<1>9. PICK p \in at : \A x \in at : x <= p
  <2> HIDE DEF at
  <2> QED BY <1>7, <1>8, GreatestOf
<1>10. PICK f \in best : f.at[1] = r /\ f.at[2] = p
  BY <1>9
<1>11. ASSUME NEW d \in S
       PROVE  score(d) < score(f) \/ (score(d) = score(f) /\ AtOrBefore(d, f))
  <2>1. score(d) <= score(f) /\ score(d) \in Int /\ score(f) \in Int
    BY <1>1, <1>3, <1>10
  <2>2. CASE d \in best
    <3>1. d.at[1] \in Nat /\ r \in Nat /\ d.at[1] <= r
      BY <1>6, <2>2 DEF Listed
    <3>2. CASE d.at[1] = r
      <4>1. d.at[2] <= p
        BY <1>9, <2>2, <3>2
      <4> QED BY <1>10, <2>2, <3>2, <4>1 DEF AtOrBefore
    <3>3. CASE d.at[1] # r
      BY <1>10, <2>2, <3>1, <3>3 DEF AtOrBefore
    <3> QED BY <3>2, <3>3
  <2>3. CASE d \notin best
    BY <1>10, <2>1, <2>3
  <2> QED BY <2>2, <2>3
<1> HIDE DEF best, scores, ranks, at
<1>12. f \in S
  BY <1>10 DEF best
<1>13. /\ FindBest(S, ref) \in S
       /\ \A d \in S : LET e == FindBest(S, ref) IN
            score(d) < score(e) \/ (score(d) = score(e) /\ AtOrBefore(d, e))
  BY <1>11, <1>12 DEF FindBest
<1> QED BY <1>1, <1>13

-----------------------------------------------------------------------------
(* The scan of a project. *)

IsProject(fs) ==
  fs \in Seq(DOMAIN Block) /\ \A i, j \in DOMAIN fs : fs[i] = fs[j] => i = j

FilesOf(fs) == {fs[i] : i \in DOMAIN fs}

LEMMA ScanEntries ==
  ASSUME NEW fs, IsProject(fs), NEW e \in Scan(fs)
  PROVE  \E i \in DOMAIN fs : \E j \in DOMAIN Block[fs[i]] :
            e = [at |-> <<i, j>>, node |-> Block[fs[i]][j]]
BY DEF Scan

LEMMA ScanHolds ==
  ASSUME NEW fs, IsProject(fs), NEW f \in FilesOf(fs), NEW j \in DOMAIN Block[f]
  PROVE  \E e \in Scan(fs) : e.node = Block[f][j]
<1>1. PICK i \in DOMAIN fs : fs[i] = f
  BY DEF FilesOf
<1>2. [at |-> <<i, j>>, node |-> Block[fs[i]][j]] \in Scan(fs)
  BY <1>1 DEF Scan
<1> QED BY <1>1, <1>2

LEMMA ScanIsListed ==
  ASSUME NEW fs, IsProject(fs)
  PROVE  Listed(Scan(fs))
<1>0. \A i \in DOMAIN fs : fs[i] \in DOMAIN Block /\ i \in Nat
  BY DEF IsProject
<1>1. ASSUME NEW e \in Scan(fs)
      PROVE  /\ e.at[1] \in DOMAIN fs /\ e.at[2] \in DOMAIN Block[fs[e.at[1]]]
             /\ e = [at |-> <<e.at[1], e.at[2]>>, node |-> Block[fs[e.at[1]]][e.at[2]]]
             /\ e.node = Block[fs[e.at[1]]][e.at[2]]
  <2>0. PICK i \in DOMAIN fs : \E j \in DOMAIN Block[fs[i]] :
          e = [at |-> <<i, j>>, node |-> Block[fs[i]][j]]
    BY ScanEntries
  <2>1. PICK j \in DOMAIN Block[fs[i]] : e = [at |-> <<i, j>>, node |-> Block[fs[i]][j]]
    BY <2>0
  <2>2. e.at = <<i, j>> /\ e.node = Block[fs[i]][j]
    BY <2>1
  <2>3. e.at[1] = i /\ e.at[2] = j
    BY <2>2
  <2> QED BY <2>1, <2>2, <2>3
<1>2. \A f \in DOMAIN Block : Block[f] \in Seq(NodesIn(f)) /\ Len(Block[f]) \in Nat
                              /\ DOMAIN Block[f] = 1..Len(Block[f])
  BY ProjectAssumption DEF ProjectAssumption
<1>3. ASSUME NEW e \in Scan(fs)
      PROVE  /\ e.at[1] \in 1..Len(fs) /\ e.at[2] \in 1..Len(Block[fs[e.at[1]]])
             /\ e.node.line \in Nat /\ e.node.exported \in BOOLEAN
  <2>1. fs[e.at[1]] \in DOMAIN Block
    BY <1>0, <1>1
  <2>2. e.node \in NodesIn(fs[e.at[1]])
    BY <1>1 DEF NodesIn
  <2>3. e.node.line \in Nat /\ e.node.exported \in BOOLEAN
    BY <2>1, <2>2, ProjectAssumption DEF ProjectAssumption
  <2>4. DOMAIN fs = 1..Len(fs)
    BY DEF IsProject
  <2> QED BY <1>1, <1>2, <2>1, <2>3, <2>4
<1>4. \A d, e \in Scan(fs) : d.at[1] = e.at[1] /\ d.at[2] = e.at[2] => d = e
  BY <1>1
<1>5. ASSUME NEW d \in Scan(fs), NEW e \in Scan(fs), d.node.id = e.node.id
      PROVE  d = e
  <2>1. fs[d.at[1]] \in DOMAIN Block /\ fs[e.at[1]] \in DOMAIN Block
    BY <1>0, <1>1
  <2>2. fs[d.at[1]] = fs[e.at[1]] /\ d.at[2] = e.at[2]
    BY <1>1, <1>5, <2>1, ProjectAssumption DEF ProjectAssumption
  <2>3. d.at[1] = e.at[1]
    BY <1>1, <2>2 DEF IsProject
  <2> QED BY <1>4, <2>2, <2>3
<1>6. \E n \in Nat : \E w \in [1..n -> Nat] :
        \A e \in Scan(fs) : e.at[1] \in 1..n /\ e.at[2] <= w[e.at[1]]
  <2> DEFINE w == [i \in 1..Len(fs) |-> Len(Block[fs[i]])]
  <2>1. Len(fs) \in Nat /\ DOMAIN fs = 1..Len(fs)
    BY DEF IsProject
  <2>2. w \in [1..Len(fs) -> Nat]
    BY <1>0, <1>2, <2>1
  <2>3. \A e \in Scan(fs) : e.at[1] \in 1..Len(fs) /\ e.at[2] <= w[e.at[1]]
    BY <1>3
  <2> QED BY <2>1, <2>2, <2>3
<1> HIDE DEF Listed
<1>7. \A e \in Scan(fs) : /\ e.at[1] \in Nat /\ e.at[2] \in Nat
                          /\ e.node.line \in Nat /\ e.node.exported \in BOOLEAN
  <2>1. \A e \in Scan(fs) : fs[e.at[1]] \in DOMAIN Block
    BY <1>0, <1>1
  <2> QED BY <1>2, <1>3, <2>1
<1> QED BY <1>4, <1>5, <1>6, <1>7 DEF Listed

LEMMA NodesOfScan ==
  ASSUME NEW fs, IsProject(fs)
  PROVE  NodesOf(Scan(fs)) = UNION {NodesIn(f) : f \in FilesOf(fs)}
<1>1. ASSUME NEW n \in NodesOf(Scan(fs))
      PROVE  n \in UNION {NodesIn(f) : f \in FilesOf(fs)}
  <2>1. PICK e \in Scan(fs) : n = e.node
    BY DEF NodesOf
  <2>a. PICK i \in DOMAIN fs : \E j \in DOMAIN Block[fs[i]] :
          e = [at |-> <<i, j>>, node |-> Block[fs[i]][j]]
    BY ScanEntries
  <2>2. PICK j \in DOMAIN Block[fs[i]] : e = [at |-> <<i, j>>, node |-> Block[fs[i]][j]]
    BY <2>a
  <2>3. n \in NodesIn(fs[i])
    BY <2>1, <2>2 DEF NodesIn
  <2> QED BY <2>3 DEF FilesOf
<1>2. ASSUME NEW f \in FilesOf(fs), NEW n \in NodesIn(f)
      PROVE  n \in NodesOf(Scan(fs))
  <2>1. PICK j \in DOMAIN Block[f] : n = Block[f][j]
    BY DEF NodesIn
  <2> QED BY <2>1, ScanHolds DEF NodesOf
<1> QED BY <1>1, <1>2

LEMMA FileOfNode ==
  ASSUME NEW fs, IsProject(fs)
  PROVE  /\ \A f \in FilesOf(fs) : f \in DOMAIN Block
         /\ \A n \in NodesOf(Scan(fs)) : n.file \in FilesOf(fs) /\ n \in NodesIn(n.file)
         /\ \A e \in Scan(fs) : e.node \in NodesOf(Scan(fs))
         /\ Paths(Scan(fs)) = FilesOf(fs)
         /\ \A f \in FilesOf(fs) : FileName(f) \in KnownNames(Scan(fs))
<1>1. \A f \in FilesOf(fs) : f \in DOMAIN Block
  BY DEF FilesOf, IsProject
<1>2. ASSUME NEW n \in NodesOf(Scan(fs))
      PROVE  n.file \in FilesOf(fs) /\ n \in NodesIn(n.file)
  <2>1. PICK f \in FilesOf(fs) : n \in NodesIn(f)
    BY NodesOfScan
  <2>2. n.file = f
    BY <1>1, <2>1, ProjectAssumption DEF ProjectAssumption
  <2> QED BY <2>1, <2>2
<1>3. \A e \in Scan(fs) : e.node \in NodesOf(Scan(fs))
  BY DEF NodesOf
<1>4. ASSUME NEW f \in FilesOf(fs)
      PROVE  \E e \in Scan(fs) : e.node.file = f /\ e.node.name = FileName(f)
  <2>1. Block[f] \in Seq(NodesIn(f)) /\ Block[f] # <<>> /\ Block[f][1].name = FileName(f)
    BY <1>1, ProjectAssumption DEF ProjectAssumption
  <2>2. 1 \in DOMAIN Block[f]
    BY <2>1
  <2>3. PICK e \in Scan(fs) : e.node = Block[f][1]
    BY <2>2, ScanHolds
  <2>4. Block[f][1] \in NodesIn(f)
    BY <2>2 DEF NodesIn
  <2>5. Block[f][1].file = f
    BY <1>1, <2>4, ProjectAssumption DEF ProjectAssumption
  <2> QED BY <2>1, <2>3, <2>5
<1>5. Paths(Scan(fs)) = FilesOf(fs)
  BY <1>2, <1>3, <1>4 DEF Paths
<1>6. \A f \in FilesOf(fs) : FileName(f) \in KnownNames(Scan(fs))
  BY <1>3, <1>4 DEF KnownNames
<1> QED BY <1>1, <1>2, <1>3, <1>5, <1>6

-----------------------------------------------------------------------------
(* The tiers. *)

(* A match of one of the entries, with a confidence of the set.               *)
MatchAmong(scan, m, confs) == \E e \in scan, c \in confs : m = Match(e.node, c)

LEMMA MatchIsMatch ==
  ASSUME NEW n, NEW c
  PROVE  /\ Match(n, c) # NoMatch
         /\ Match(n, c).node = n /\ Match(n, c).conf = c
<1>1. Match(n, c).conf = c /\ Match(n, c).node = n
  BY DEF Match
<1>2. "node" \in DOMAIN Match(n, c)
  BY DEF Match
<1>3. "node" \notin DOMAIN NoMatch
  BY DEF NoMatch
<1> QED BY <1>1, <1>2, <1>3

LEMMA FirstOfShape ==
  ASSUME NEW scan, Listed(scan), NEW S \in SUBSET scan, NEW c
  PROVE  /\ S = {} => FirstOf(S, c) = NoMatch
         /\ S # {} => /\ FirstOf(S, c) # NoMatch
                      /\ MatchAmong(S, FirstOf(S, c), {c})
<1>1. CASE S = {}
  BY <1>1 DEF FirstOf
<1>2. CASE S # {}
  <2>1. FirstOf(S, c) = Match(First(S).node, c)
    BY <1>2 DEF FirstOf
  <2>2. First(S) \in S
    BY <1>2, FirstOfMany
  <2> QED BY <1>2, <2>1, <2>2, MatchIsMatch DEF MatchAmong
<1> QED BY <1>1, <1>2

LEMMA OnlyFileShape ==
  ASSUME NEW scan, Listed(scan), NEW fs \in SUBSET Paths(scan), NEW c
  PROVE  /\ One(fs) => OnlyFile(scan, fs, c) # NoMatch /\ MatchAmong(scan, OnlyFile(scan, fs, c), {c})
         /\ ~One(fs) => OnlyFile(scan, fs, c) = NoMatch
<1> DEFINE S == UNION {InFile(scan, f) : f \in fs}
<1>1. S \in SUBSET scan
  BY DEF InFile
<1>2. ASSUME One(fs) PROVE S # {}
  <2>1. PICK f \in fs : TRUE
    BY <1>2 DEF One
  <2>2. PICK e \in scan : e.node.file = f
    BY <2>1 DEF Paths
  <2> QED BY <2>1, <2>2 DEF InFile
<1>3. OnlyFile(scan, fs, c) = IF One(fs) THEN FirstOf(S, c) ELSE NoMatch
  BY DEF OnlyFile
<1> HIDE DEF S
<1>4. CASE One(fs)
  <2>1. FirstOf(S, c) # NoMatch /\ MatchAmong(S, FirstOf(S, c), {c})
    BY <1>1, <1>2, <1>4, FirstOfShape
  <2> QED BY <1>1, <1>3, <1>4, <2>1 DEF MatchAmong
<1>5. CASE ~One(fs)
  BY <1>3, <1>5
<1> QED BY <1>4, <1>5

FileLike(name) == Has(name, "/") \/ (Has(name, ".") /\ ~Has(name, "::"))
EndingOn(scan, name) == {f \in Paths(scan) : IsSuffix(name, f)}
StartingWith(scan, name) == {f \in Paths(scan) : IsPrefix(FileName(name), FileName(f))}

(* A file-like name finds a file exactly if one of the three sets has one.      *)
LEMMA FilePathShape ==
  ASSUME NEW scan, Listed(scan), NEW name
  PROVE  LET m == TryFilePath(scan, name) IN
         /\ m # NoMatch <=> /\ FileLike(name)
                            /\ \/ name \in Paths(scan)
                               \/ One(EndingOn(scan, name))
                               \/ One(StartingWith(scan, name))
         /\ m # NoMatch => MatchAmong(scan, m, {190, 170, 140})
         /\ m # NoMatch => m.conf = IF name \in Paths(scan) THEN 190
                                    ELSE IF One(EndingOn(scan, name)) THEN 170 ELSE 140
<1> DEFINE m == TryFilePath(scan, name)
           exact == OnlyFile(scan, {name} \intersect Paths(scan), 190)
           suffix == OnlyFile(scan, EndingOn(scan, name), 170)
           byName == OnlyFile(scan, StartingWith(scan, name), 140)
<1>1. /\ ~FileLike(name) => m = NoMatch
      /\ FileLike(name) => m = IF exact # NoMatch THEN exact
                              ELSE IF suffix # NoMatch THEN suffix ELSE byName
  BY DEF TryFilePath, FileLike, EndingOn, StartingWith, OrElse
<1>2. One({name} \intersect Paths(scan)) <=> name \in Paths(scan)
  <2>1. CASE name \in Paths(scan)
    <3>1. {name} \intersect Paths(scan) = {name}
      BY <2>1
    <3> QED BY <2>1, <3>1 DEF One
  <2>2. CASE name \notin Paths(scan)
    BY <2>2 DEF One
  <2> QED BY <2>1, <2>2
<1>4. /\ (exact # NoMatch <=> name \in Paths(scan))
      /\ exact # NoMatch => MatchAmong(scan, exact, {190})
  <2>1. {name} \intersect Paths(scan) \in SUBSET Paths(scan)
    OBVIOUS
  <2> QED BY <1>2, <2>1, OnlyFileShape
<1>5. /\ (suffix # NoMatch <=> One(EndingOn(scan, name)))
      /\ suffix # NoMatch => MatchAmong(scan, suffix, {170})
  <2>1. EndingOn(scan, name) \in SUBSET Paths(scan)
    BY DEF EndingOn
  <2> QED BY <2>1, OnlyFileShape
<1>6. /\ (byName # NoMatch <=> One(StartingWith(scan, name)))
      /\ byName # NoMatch => MatchAmong(scan, byName, {140})
  <2>1. StartingWith(scan, name) \in SUBSET Paths(scan)
    BY DEF StartingWith
  <2> QED BY <2>1, OnlyFileShape
<1> HIDE DEF exact, suffix, byName
<1>7. \A x, c : MatchAmong(scan, x, {c}) => x.conf = c
  BY DEF MatchAmong, Match
<1> USE DEF m
<1>8. CASE ~FileLike(name)
  BY <1>1, <1>8
<1>9. CASE FileLike(name) /\ exact # NoMatch
  <2>1. m = exact
    BY <1>1, <1>9
  <2> QED BY <1>4, <1>7, <1>9, <2>1 DEF MatchAmong
<1>10. CASE FileLike(name) /\ exact = NoMatch /\ suffix # NoMatch
  <2>1. m = suffix
    BY <1>1, <1>10
  <2> QED BY <1>4, <1>5, <1>7, <1>10, <2>1 DEF MatchAmong
<1>11. CASE FileLike(name) /\ exact = NoMatch /\ suffix = NoMatch
  <2>1. m = byName
    BY <1>1, <1>11
  <2> QED BY <1>4, <1>5, <1>6, <1>7, <1>11, <2>1 DEF MatchAmong
<1> QED BY <1>8, <1>9, <1>10, <1>11

Dotted(name) == Has(name, "::") \/ Has(name, ".")
LastPart(name) == After(name, LastAt(name, "::"))
Suffixed(scan, name) == {e \in Named(scan, LastPart(name)) : IsSuffix(name, e.node.qname)}

LEMMA QualifiedShape ==
  ASSUME NEW scan, Listed(scan), NEW name
  PROVE  LET m == TryQualified(scan, name) IN
         /\ m # NoMatch <=> /\ Dotted(name)
                            /\ \/ Qualified(scan, name) # {}
                               \/ LastPart(name) # name /\ Suffixed(scan, name) # {}
         /\ m # NoMatch => MatchAmong(scan, m, {190, 170})
         /\ m # NoMatch => m.conf = IF Qualified(scan, name) # {} THEN 190 ELSE 170
<1> DEFINE m == TryQualified(scan, name)
           exact == FirstOf(Qualified(scan, name), 190)
           suffixed == FirstOf(Suffixed(scan, name), 170)
<1>1. /\ ~Dotted(name) => m = NoMatch
      /\ Dotted(name) => m = IF exact # NoMatch THEN exact
                            ELSE IF LastPart(name) = name THEN NoMatch ELSE suffixed
  BY DEF TryQualified, Dotted, LastPart, Suffixed, OrElse
<1>2. Qualified(scan, name) \in SUBSET scan /\ Suffixed(scan, name) \in SUBSET scan
  BY DEF Qualified, Suffixed, Named
<1>3. /\ Qualified(scan, name) # {} =>
           exact # NoMatch /\ MatchAmong(Qualified(scan, name), exact, {190})
      /\ Qualified(scan, name) = {} => exact = NoMatch
  BY <1>2, FirstOfShape
<1>4. /\ Suffixed(scan, name) # {} =>
           suffixed # NoMatch /\ MatchAmong(Suffixed(scan, name), suffixed, {170})
      /\ Suffixed(scan, name) = {} => suffixed = NoMatch
  BY <1>2, FirstOfShape
<1> HIDE DEF exact, suffixed
<1>5. ASSUME NEW S \in SUBSET scan, NEW x, NEW c \in {190, 170}, MatchAmong(S, x, {c})
      PROVE  x.conf = c /\ MatchAmong(scan, x, {190, 170})
  BY <1>5 DEF MatchAmong, Match
<1>6. CASE ~Dotted(name)
  BY <1>1, <1>6
<1>7. CASE Dotted(name) /\ Qualified(scan, name) # {}
  <2>1. m = exact /\ exact # NoMatch
    BY <1>1, <1>3, <1>7
  <2>2. MatchAmong(Qualified(scan, name), exact, {190})
    BY <1>3, <1>7
  <2>3. exact.conf = 190 /\ MatchAmong(scan, exact, {190, 170})
    BY <1>2, <1>5, <2>2
  <2> QED BY <1>7, <2>1, <2>3
<1>8. CASE Dotted(name) /\ Qualified(scan, name) = {} /\ LastPart(name) # name
  <2>1. m = suffixed
    BY <1>1, <1>3, <1>8
  <2>2. Suffixed(scan, name) # {} => suffixed.conf = 170 /\ MatchAmong(scan, suffixed, {190, 170})
    BY <1>2, <1>4, <1>5
  <2> QED BY <1>4, <1>8, <2>1, <2>2
<1>9. CASE Dotted(name) /\ Qualified(scan, name) = {} /\ LastPart(name) = name
  BY <1>1, <1>3, <1>9
<1> QED BY <1>6, <1>7, <1>8, <1>9

Cut(name) == IF Has(name, "::") THEN At(name, "::") ELSE LastAt(name, ".")
HasMethodForm(name) ==
  Cut(name) # 0 /\ Before(name, Cut(name)) # <<>> /\ After(name, Cut(name)) # <<>>
Beside(scan, name, classes) ==
  \E c \in classes, d \in CallablesNamed(scan, After(name, Cut(name))) :
    d.node.file = c.node.file
Classes(scan, name) ==
  {e \in Named(scan, Before(name, Cut(name))) : e.node.kind \in {"class", "struct", "interface"}}
Capitals(scan, name) ==
  IF Capitalized(Before(name, Cut(name))) = Before(name, Cut(name)) THEN {}
  ELSE Named(scan, Capitalized(Before(name, Cut(name))))

LEMMA MethodBesideShape ==
  ASSUME NEW scan, Listed(scan), NEW classes \in SUBSET scan, NEW method, NEW c
  PROVE  LET m == MethodBeside(scan, classes, method, c) IN
         /\ m # NoMatch <=> \E e \in classes, d \in CallablesNamed(scan, method) :
                              d.node.file = e.node.file
         /\ m # NoMatch => MatchAmong(scan, m, {c})
<1> DEFINE m == MethodBeside(scan, classes, method, c)
           Methods(file) == CallablesNamed(scan, method) \intersect InFile(scan, file)
           hosts == {e \in classes : Methods(e.node.file) # {}}
<1>1. m = IF hosts = {} THEN NoMatch ELSE FirstOf(Methods(First(hosts).node.file), c)
  BY DEF MethodBeside
<1>2. CallablesNamed(scan, method) \in SUBSET scan
  BY DEF CallablesNamed, Named
<1>3. hosts # {} <=> \E e \in classes, d \in CallablesNamed(scan, method) :
                        d.node.file = e.node.file
  BY <1>2 DEF InFile
<1>4. CASE hosts = {}
  BY <1>1, <1>3, <1>4
<1>5. CASE hosts # {}
  <2>1. First(hosts) \in hosts
    <3>1. hosts \in SUBSET scan
      OBVIOUS
    <3> HIDE DEF hosts
    <3> QED BY <1>5, <3>1, FirstOfMany
  <2> DEFINE found == Methods(First(hosts).node.file)
  <2>2. found # {} /\ found \in SUBSET scan
    BY <1>2, <2>1
  <2>3. m = FirstOf(found, c)
    BY <1>1, <1>5
  <2> HIDE DEF found, hosts, m
  <2>4. FirstOf(found, c) # NoMatch /\ MatchAmong(found, FirstOf(found, c), {c})
    BY <2>2, FirstOfShape
  <2>5. m # NoMatch /\ MatchAmong(scan, m, {c})
    BY <2>2, <2>3, <2>4 DEF MatchAmong
  <2> QED BY <1>3, <1>5, <2>5 DEF m
<1> QED BY <1>4, <1>5

LEMMA MethodCallShape ==
  ASSUME NEW scan, Listed(scan), NEW name, NEW ref, ref.line \in Nat
  PROVE  LET m == TryMethodCall(scan, name, ref)
             direct == Beside(scan, name, Classes(scan, name))
             capital == Beside(scan, name, Capitals(scan, name))
         IN
         /\ m # NoMatch <=> /\ HasMethodForm(name)
                            /\ CallablesNamed(scan, After(name, Cut(name))) # {}
         /\ m # NoMatch => MatchAmong(scan, m, {170, 150, 130})
         /\ m # NoMatch => m.conf = IF direct THEN 170 ELSE IF capital THEN 150 ELSE 130
<1> DEFINE m == TryMethodCall(scan, name, ref)
           method == After(name, Cut(name))
           methods == CallablesNamed(scan, method)
           direct == MethodBeside(scan, Classes(scan, name), method, 170)
           capital == MethodBeside(scan, Capitals(scan, name), method, 150)
           alone == IF methods = {} THEN NoMatch ELSE Match(FindBest(methods, ref).node, 130)
<1>1. m = IF Cut(name) = 0 \/ Before(name, Cut(name)) = <<>> \/ method = <<>> THEN NoMatch
          ELSE IF direct # NoMatch THEN direct ELSE IF capital # NoMatch THEN capital ELSE alone
  BY DEF TryMethodCall, OrElse, Cut, Classes, Capitals
<1>2. Classes(scan, name) \in SUBSET scan /\ Capitals(scan, name) \in SUBSET scan
      /\ methods \in SUBSET scan
  BY DEF Classes, Capitals, CallablesNamed, Named
<1>3. /\ direct # NoMatch <=> Beside(scan, name, Classes(scan, name))
      /\ direct # NoMatch => MatchAmong(scan, direct, {170})
  <2> DEFINE S == Classes(scan, name)
             M(c) == MethodBeside(scan, S, method, c)
  <2>1. \A c :
          /\ M(c) # NoMatch <=> \E e \in S, d \in methods : d.node.file = e.node.file
          /\ M(c) # NoMatch => MatchAmong(scan, M(c), {c})
    BY <1>2, MethodBesideShape
  <2>2. Beside(scan, name, S) <=> \E e \in S, d \in methods : d.node.file = e.node.file
    BY DEF Beside
  <2>3. direct = M(170)
    OBVIOUS
  <2> HIDE DEF S, M, methods, direct
  <2>4. QED BY <2>1, <2>2, <2>3 DEF S
<1>4. /\ capital # NoMatch <=> Beside(scan, name, Capitals(scan, name))
      /\ capital # NoMatch => MatchAmong(scan, capital, {150})
  <2> DEFINE S == Capitals(scan, name)
             M(c) == MethodBeside(scan, S, method, c)
  <2>1. \A c :
          /\ M(c) # NoMatch <=> \E e \in S, d \in methods : d.node.file = e.node.file
          /\ M(c) # NoMatch => MatchAmong(scan, M(c), {c})
    BY <1>2, MethodBesideShape
  <2>2. Beside(scan, name, S) <=> \E e \in S, d \in methods : d.node.file = e.node.file
    BY DEF Beside
  <2>3. capital = M(150)
    OBVIOUS
  <2> HIDE DEF S, M, methods, capital
  <2>4. QED BY <2>1, <2>2, <2>3 DEF S
<1>5. /\ methods # {} => alone # NoMatch /\ MatchAmong(scan, alone, {130})
      /\ methods = {} => alone = NoMatch
  <2>1. CASE methods # {}
    <3>1. FindBest(methods, ref) \in methods
      BY <1>2, <2>1, BestOfMany
    <3>2. alone = Match(FindBest(methods, ref).node, 130)
      BY <2>1
    <3> QED BY <1>2, <2>1, <3>1, <3>2, MatchIsMatch DEF MatchAmong
  <2> QED BY <2>1
<1>6. \A classes : Beside(scan, name, classes) => methods # {}
  BY DEF Beside
<1>7. ASSUME NEW x, NEW c \in {170, 150, 130}, MatchAmong(scan, x, {c})
      PROVE  x.conf = c /\ MatchAmong(scan, x, {170, 150, 130})
  BY <1>7 DEF MatchAmong, Match
<1>8. Beside(scan, name, Classes(scan, name)) \in BOOLEAN
      /\ Beside(scan, name, Capitals(scan, name)) \in BOOLEAN
      /\ HasMethodForm(name) \in BOOLEAN
  BY DEF Beside, HasMethodForm
<1> DEFINE formed == HasMethodForm(name)
           isDirect == Beside(scan, name, Classes(scan, name))
           isCapital == Beside(scan, name, Capitals(scan, name))
<1>9. ~formed <=> (Cut(name) = 0 \/ Before(name, Cut(name)) = <<>> \/ method = <<>>)
  BY DEF HasMethodForm
<1> HIDE DEF method, methods, direct, capital, alone, m, formed, isDirect, isCapital
<1>10. /\ m # NoMatch <=> formed /\ methods # {}
       /\ m # NoMatch => MatchAmong(scan, m, {170, 150, 130})
       /\ m # NoMatch => m.conf = IF isDirect THEN 170 ELSE IF isCapital THEN 150 ELSE 130
  <2>0. formed \in BOOLEAN /\ isDirect \in BOOLEAN /\ isCapital \in BOOLEAN
    BY <1>8 DEF formed, isDirect, isCapital
  <2>1. CASE ~formed
    BY <1>1, <1>9, <2>0, <2>1
  <2>2. CASE formed /\ isDirect
    <3>1. direct # NoMatch /\ MatchAmong(scan, direct, {170}) /\ methods # {}
      BY <1>3, <1>6, <2>2 DEF isDirect
    <3>2. m = direct
      BY <1>1, <1>9, <2>2, <3>1
    <3>3. m.conf = 170 /\ MatchAmong(scan, m, {170, 150, 130})
      BY <1>7, <3>1, <3>2
    <3> QED BY <2>2, <3>1, <3>2, <3>3
  <2>3. CASE formed /\ ~isDirect /\ isCapital
    <3>1. direct = NoMatch /\ capital # NoMatch /\ MatchAmong(scan, capital, {150}) /\ methods # {}
      BY <1>3, <1>4, <1>6, <2>3 DEF isDirect, isCapital
    <3>2. m = capital
      BY <1>1, <1>9, <2>3, <3>1
    <3>3. m.conf = 150 /\ MatchAmong(scan, m, {170, 150, 130})
      BY <1>7, <3>1, <3>2
    <3> QED BY <2>3, <3>1, <3>2, <3>3
  <2>4. CASE formed /\ ~isDirect /\ ~isCapital
    <3>1. direct = NoMatch /\ capital = NoMatch
      BY <1>3, <1>4, <2>4 DEF isDirect, isCapital
    <3>2. m = alone
      BY <1>1, <1>9, <2>4, <3>1
    <3>3. methods # {} => alone.conf = 130 /\ MatchAmong(scan, alone, {170, 150, 130})
      BY <1>5, <1>7
    <3> QED BY <1>5, <2>4, <3>2, <3>3
  <2> QED BY <2>0, <2>1, <2>2, <2>3, <2>4
<1> QED BY <1>10 DEF m, formed, methods, method, isDirect, isCapital

Capped(x) == IF x > 180 THEN 180 ELSE x

LEMMA ExactNameShape ==
  ASSUME NEW scan, Listed(scan), NEW name, NEW ref, ref.line \in Nat
  PROVE  LET m == TryExactName(scan, name, ref)
             best == FindBest(Named(scan, name), ref)
         IN
         /\ Named(scan, name) = {} => m = NoMatch
         /\ Named(scan, name) # {} =>
              /\ best \in Named(scan, name)
              /\ \A d \in Named(scan, name) :
                   ScoreNode(d.node, ref) <= ScoreNode(best.node, ref)
              /\ One(Named(scan, name)) =>
                   m = Match(best.node, IF SpeaksOf(best.node, ref) THEN 180 ELSE 100)
              /\ ~One(Named(scan, name)) =>
                   m = Match(best.node, Capped(80 + ScoreNode(best.node, ref)))
<1>1. Named(scan, name) \in SUBSET scan
  BY DEF Named
<1>2. CASE Named(scan, name) = {}
  <2>1. ~One(Named(scan, name))
    BY <1>2 DEF One
  <2> QED BY <1>2, <2>1 DEF TryExactName
<1>3. CASE Named(scan, name) # {}
  <2>1. /\ FindBest(Named(scan, name), ref) \in Named(scan, name)
        /\ \A d \in Named(scan, name) :
             ScoreNode(d.node, ref) <= ScoreNode(FindBest(Named(scan, name), ref).node, ref)
    BY <1>1, <1>3, BestOfMany
  <2>2. CASE One(Named(scan, name))
    BY <1>3, <2>1, <2>2 DEF TryExactName
  <2>3. CASE ~One(Named(scan, name))
    BY <1>3, <2>1, <2>3 DEF TryExactName, Capped
  <2> QED BY <1>3, <2>1, <2>2, <2>3
<1> QED BY <1>2, <1>3

FuzzyNamed(scan, name) ==
  {e \in LowerNamed(scan, Lowered(name)) : e.node.kind \in Callable \union {"class"}}

LEMMA FuzzyShape ==
  ASSUME NEW scan, Listed(scan), NEW name, NEW ref
  PROVE  LET m == TryFuzzyLower(scan, name, ref) IN
         /\ m # NoMatch <=> FuzzyNamed(scan, name) # {}
         /\ m # NoMatch => MatchAmong(scan, m, {100, 60})
<1> DEFINE m == TryFuzzyLower(scan, name, ref)
           S == FuzzyNamed(scan, name)
           c == IF SpeaksOf(First(S).node, ref) THEN 100 ELSE 60
<1>1. m = IF S = {} THEN NoMatch ELSE Match(First(S).node, c)
  BY DEF TryFuzzyLower, FuzzyNamed
<1>2. S \in SUBSET scan
  BY DEF FuzzyNamed, LowerNamed
<1>3. c \in {100, 60}
  OBVIOUS
<1> HIDE DEF S, c
<1>4. CASE S = {}
  BY <1>1, <1>4 DEF S
<1>5. CASE S # {}
  <2>1. First(S) \in S
    BY <1>2, <1>5, FirstOfMany
  <2>2. m = Match(First(S).node, c)
    BY <1>1, <1>5
  <2>3. m # NoMatch /\ MatchAmong(scan, m, {100, 60})
    BY <1>2, <1>3, <2>1, <2>2, MatchIsMatch DEF MatchAmong
  <2> QED BY <1>5, <2>3 DEF S
<1> QED BY <1>4, <1>5

(* The tier that answers is the first that finds something.                  *)
LEMMA FirstTryIsFirst ==
  ASSUME NEW tries
  PROVE  /\ FirstTry(tries) \in 1..6
         /\ \A i \in 1..(FirstTry(tries) - 1) : tries[i] = NoMatch
         /\ FirstTry(tries) < 6 => tries[FirstTry(tries)] # NoMatch
<1> DEFINE P(t) == /\ \A i \in 1..(t - 1) : tries[i] = NoMatch
                   /\ t < 6 => tries[t] # NoMatch
<1>1. \E t \in 1..6 : P(t)
  <2> DEFINE hits == {t \in 1..6 : t < 6 => tries[t] # NoMatch}
  <2>1. hits \in SUBSET Nat /\ 6 \in hits
    OBVIOUS
  <2>2. PICK t \in hits : \A x \in hits : t <= x
    <3> HIDE DEF hits
    <3> QED BY <2>1, LeastOf
  <2>3. ASSUME NEW i \in 1..(t - 1) PROVE tries[i] = NoMatch
    <3>1. i \in 1..6 /\ i < 6 /\ ~(t <= i)
      BY <2>2
    <3>2. i \notin hits
      BY <2>2, <3>1
    <3> QED BY <3>1, <3>2
  <2> QED BY <2>2, <2>3
<1>2. FirstTry(tries) = CHOOSE t \in 1..6 : P(t)
  BY DEF FirstTry
<1> HIDE DEF P
<1>3. FirstTry(tries) \in 1..6 /\ P(FirstTry(tries))
  BY <1>1, <1>2
<1> QED BY <1>3 DEF P

LEMMA TriesAre ==
  ASSUME NEW scan, NEW ref
  PROVE  /\ Tries(scan, ref)[1] = TryFilePath(scan, ref.name)
         /\ Tries(scan, ref)[2] = TryQualified(scan, ref.name)
         /\ Tries(scan, ref)[3] = TryMethodCall(scan, ref.name, ref)
         /\ Tries(scan, ref)[4] = TryExactName(scan, ref.name, ref)
         /\ Tries(scan, ref)[5] = TryFuzzyLower(scan, ref.name, ref)
BY DEF Tries

LEMMA TierIs ==
  ASSUME NEW scan, NEW ref
  PROVE  /\ Tier(scan, ref) \in 1..6
         /\ \A i \in 1..(Tier(scan, ref) - 1) : Tries(scan, ref)[i] = NoMatch
         /\ Tier(scan, ref) < 6 => /\ Tries(scan, ref)[Tier(scan, ref)] # NoMatch
                                   /\ MatchReference(scan, ref) = Tries(scan, ref)[Tier(scan, ref)]
         /\ Tier(scan, ref) = 6 => MatchReference(scan, ref) = NoMatch
<1>1. Tier(scan, ref) = FirstTry(Tries(scan, ref))
  BY DEF Tier
<1>2. MatchReference(scan, ref) =
        IF Tier(scan, ref) = 6 THEN NoMatch ELSE Tries(scan, ref)[Tier(scan, ref)]
  BY DEF MatchReference, Tier
<1> QED BY <1>1, <1>2, FirstTryIsFirst

(* Whatever answers, it is an entry of the scan, with a confidence of at most 190. *)
LEMMA MatchReferenceShape ==
  ASSUME NEW scan, Listed(scan), NEW ref, ref.line \in Nat
  PROVE  LET m == MatchReference(scan, ref) IN
         /\ Tier(scan, ref) = 6 <=> m = NoMatch
         /\ m # NoMatch => \E e \in scan, c \in Int : c <= 190 /\ m = Match(e.node, c)
<1> DEFINE m == MatchReference(scan, ref)
           t == Tier(scan, ref)
           shaped == \E e \in scan, c \in Int : c <= 190 /\ m = Match(e.node, c)
<1>1. t \in 1..6 /\ (t = 6 => m = NoMatch) /\ (t < 6 => m # NoMatch /\ m = Tries(scan, ref)[t])
  BY TierIs
<1>2. \A x, C : C \in SUBSET Int /\ (\A c \in C : c <= 190) /\ MatchAmong(scan, x, C) =>
         \E e \in scan, c \in Int : c <= 190 /\ x = Match(e.node, c)
  BY DEF MatchAmong
<1>3. ASSUME t = 1 PROVE shaped
  <2>1. m = TryFilePath(scan, ref.name) /\ m # NoMatch
    BY <1>1, <1>3, TriesAre
  <2>2. MatchAmong(scan, m, {190, 170, 140})
    BY <2>1, FilePathShape
  <2> HIDE DEF m
  <2> QED BY <1>2, <2>2
<1>4. ASSUME t = 2 PROVE shaped
  <2>1. m = TryQualified(scan, ref.name) /\ m # NoMatch
    BY <1>1, <1>4, TriesAre
  <2>2. MatchAmong(scan, m, {190, 170})
    BY <2>1, QualifiedShape
  <2> HIDE DEF m
  <2> QED BY <1>2, <2>2
<1>5. ASSUME t = 3 PROVE shaped
  <2>1. m = TryMethodCall(scan, ref.name, ref) /\ m # NoMatch
    BY <1>1, <1>5, TriesAre
  <2>2. MatchAmong(scan, m, {170, 150, 130})
    BY <2>1, MethodCallShape
  <2> HIDE DEF m
  <2> QED BY <1>2, <2>2
<1>6. ASSUME t = 4 PROVE shaped
  <2>1. m = TryExactName(scan, ref.name, ref) /\ m # NoMatch
    BY <1>1, <1>6, TriesAre
  <2> DEFINE best == FindBest(Named(scan, ref.name), ref)
  <2>2. Named(scan, ref.name) # {}
    BY <2>1, ExactNameShape
  <2>3. best \in scan
    BY <2>2, ExactNameShape DEF Named
  <2>4. ScoreNode(best.node, ref) \in Int
    BY <2>3, ScoreRange DEF Listed
  <2> DEFINE single == IF SpeaksOf(best.node, ref) THEN 180 ELSE 100
             scored == Capped(80 + ScoreNode(best.node, ref))
  <2>5. single \in Int /\ single <= 190
    OBVIOUS
  <2>6. scored \in Int /\ scored <= 190
    BY <2>4 DEF Capped
  <2>7. m = Match(best.node, single) \/ m = Match(best.node, scored)
    BY <2>1, <2>2, ExactNameShape
  <2> HIDE DEF m, best, single, scored
  <2> QED BY <2>3, <2>5, <2>6, <2>7
<1>7. ASSUME t = 5 PROVE shaped
  <2>1. m = TryFuzzyLower(scan, ref.name, ref) /\ m # NoMatch
    BY <1>1, <1>7, TriesAre
  <2>2. MatchAmong(scan, m, {100, 60})
    BY <2>1, FuzzyShape
  <2> HIDE DEF m
  <2> QED BY <1>2, <2>2
<1> HIDE DEF shaped, m, t
<1>8. t \in {1, 2, 3, 4, 5, 6}
  BY <1>1
<1>9. (t = 6 <=> m = NoMatch) /\ (m # NoMatch => shaped)
  BY <1>1, <1>3, <1>4, <1>5, <1>6, <1>7, <1>8
<1> QED BY <1>9 DEF shaped, m, t

-----------------------------------------------------------------------------
(* resolve_one. *)

Dropped(scan, ref) == IsBuiltinOrExternal(scan, ref) \/ ~HasAnyPossibleMatch(scan, ref.name)

(* No cache of file texts is filled, so that imports answer nothing.           *)
LEMMA ResolveOneIs ==
  ASSUME NEW fs, IsProject(fs), NEW ref, ref.line \in Nat
  PROVE  LET m == MatchReference(Scan(fs), ref)
             a == ResolveOne(fs, ref)
         IN
         /\ Dropped(Scan(fs), ref) => a = Unresolved
         /\ ~Dropped(Scan(fs), ref) /\ FrameworkAnswers(ref) => a = [target |-> ref.from, conf |-> 200]
         /\ ~Dropped(Scan(fs), ref) /\ ~FrameworkAnswers(ref) =>
              a = IF m # NoMatch /\ m.conf >= 60 THEN Edge(m) ELSE Unresolved
<1> DEFINE scan == Scan(fs)
           m == MatchReference(scan, ref)
           import == ResolveViaImport(scan, ref)
           named == ResolveViaNameMatcher(scan, ref)
<1>1. Mappings(ref) = {}
  BY DEF Mappings, FileCache
<1>2. import = NoMatch /\ ~MatchesAnyImport(ref)
  BY <1>1 DEF ResolveViaImport, MatchesAnyImport
<1>3. named = IF m.conf < 60 THEN NoMatch ELSE m
  BY DEF ResolveViaNameMatcher
<1>4. NoMatch.conf = 0
  BY DEF NoMatch
<1>5. m = NoMatch \/ m.conf \in Int
  <2>1. Listed(scan)
    BY ScanIsListed
  <2>2. m # NoMatch => \E e \in scan, c \in Int : m = Match(e.node, c)
    BY <2>1, MatchReferenceShape
  <2> HIDE DEF m
  <2> QED BY <2>2, MatchIsMatch
<1>6. ResolveOne(fs, ref) = Strategies(scan, ref, import, named)
  BY DEF ResolveOne, ResolveIn
<1> HIDE DEF import, named, m, scan
<1>7. Strategies(scan, ref, import, named) =
        IF Dropped(scan, ref) THEN Unresolved
        ELSE IF FrameworkAnswers(ref) THEN [target |-> ref.from, conf |-> 200]
        ELSE IF named # NoMatch /\ named.conf >= 0 THEN Edge(named) ELSE Unresolved
  BY <1>2, <1>4 DEF Strategies, Dropped
<1>8. Dropped(scan, ref) \in BOOLEAN /\ FrameworkAnswers(ref) \in BOOLEAN
  BY DEF Dropped, FrameworkAnswers
<1>9. (named # NoMatch /\ named.conf >= 0) <=> (m # NoMatch /\ m.conf >= 60)
  BY <1>3, <1>4, <1>5
<1>10. m # NoMatch /\ m.conf >= 60 => named = m
  BY <1>3, <1>4, <1>5
<1>11. ResolveOne(fs, ref) =
        IF Dropped(scan, ref) THEN Unresolved
        ELSE IF FrameworkAnswers(ref) THEN [target |-> ref.from, conf |-> 200]
        ELSE IF m # NoMatch /\ m.conf >= 60 THEN Edge(m) ELSE Unresolved
  BY <1>6, <1>7, <1>9, <1>10
<1> QED BY <1>8, <1>11 DEF m, scan

(* Whether a reference resolves.                                             *)
LEMMA ResolvedIff ==
  ASSUME NEW fs, IsProject(fs), NEW ref, ref.line \in Nat
  PROVE  LET m == MatchReference(Scan(fs), ref) IN
         /\ ResolveOne(fs, ref).conf > 0 <=>
              /\ ~Dropped(Scan(fs), ref)
              /\ FrameworkAnswers(ref) \/ (m # NoMatch /\ m.conf >= 60)
         /\ ResolveOne(fs, ref).conf =
              IF Dropped(Scan(fs), ref) THEN 0
              ELSE IF FrameworkAnswers(ref) THEN 200
              ELSE IF m # NoMatch /\ m.conf >= 60 THEN m.conf ELSE 0
<1> DEFINE m == MatchReference(Scan(fs), ref)
           a == ResolveOne(fs, ref)
           dropped == Dropped(Scan(fs), ref)
           own == FrameworkAnswers(ref)
<1>1. dropped \in BOOLEAN /\ own \in BOOLEAN
  BY DEF Dropped, FrameworkAnswers
<1>2. m = NoMatch \/ m.conf \in Int
  <2>1. Listed(Scan(fs))
    BY ScanIsListed
  <2>2. m # NoMatch => \E e \in Scan(fs), c \in Int : m = Match(e.node, c)
    BY <2>1, MatchReferenceShape
  <2> HIDE DEF m
  <2> QED BY <2>2, MatchIsMatch
<1>3. /\ dropped => a = Unresolved
      /\ ~dropped /\ own => a = [target |-> ref.from, conf |-> 200]
      /\ ~dropped /\ ~own => a = IF m # NoMatch /\ m.conf >= 60 THEN Edge(m) ELSE Unresolved
  BY ResolveOneIs
<1>4. Unresolved.conf = 0 /\ Edge(m).conf = m.conf /\ [target |-> ref.from, conf |-> 200].conf = 200
  BY DEF Unresolved, Edge
<1> HIDE DEF m, a, dropped, own
<1>5. a.conf = IF dropped THEN 0 ELSE IF own THEN 200
               ELSE IF m # NoMatch /\ m.conf >= 60 THEN m.conf ELSE 0
  BY <1>1, <1>3, <1>4
<1>6. a.conf > 0 <=> ~dropped /\ (own \/ (m # NoMatch /\ m.conf >= 60))
  BY <1>1, <1>2, <1>5
<1> QED BY <1>5, <1>6 DEF m, a, dropped, own

(* An answer is a node of the project, with a confidence.                    *)
LEMMA AnswerIsNode ==
  ASSUME NEW fs, IsProject(fs), NEW ref \in Asked, ref.file \in FilesOf(fs)
  PROVE  LET a == ResolveOne(fs, ref) IN
         /\ a.conf \in 0..200
         /\ a.conf > 0 => a.target \in {n.id : n \in NodesOf(Scan(fs))}
<1> DEFINE m == MatchReference(Scan(fs), ref)
           a == ResolveOne(fs, ref)
           dropped == Dropped(Scan(fs), ref)
           own == FrameworkAnswers(ref)
<1>0. ref.line \in Nat /\ ref.from \in {n.id : n \in NodesIn(ref.file)}
  BY AskedAssumption DEF AskedAssumption
<1>1. dropped \in BOOLEAN /\ own \in BOOLEAN
  BY DEF Dropped, FrameworkAnswers
<1>2. m # NoMatch => \E e \in Scan(fs), c \in Int : c <= 190 /\ m = Match(e.node, c)
  BY <1>0, ScanIsListed, MatchReferenceShape
<1>3. /\ dropped => a = Unresolved
      /\ ~dropped /\ own => a = [target |-> ref.from, conf |-> 200]
      /\ ~dropped /\ ~own => a = IF m # NoMatch /\ m.conf >= 60 THEN Edge(m) ELSE Unresolved
  BY <1>0, ResolveOneIs
<1>4. Unresolved.conf = 0
  BY DEF Unresolved
<1> HIDE DEF m, a, dropped, own
<1>5. CASE a = Unresolved
  BY <1>4, <1>5 DEF a
<1>6. CASE a = [target |-> ref.from, conf |-> 200]
  <2>1. a.conf = 200 /\ a.target = ref.from
    BY <1>6
  <2>2. NodesIn(ref.file) \subseteq NodesOf(Scan(fs))
    BY NodesOfScan
  <2>3. a.target \in {n.id : n \in NodesOf(Scan(fs))}
    BY <1>0, <2>1, <2>2
  <2> QED BY <2>1, <2>3 DEF a
<1>7. CASE a = Edge(m) /\ m # NoMatch /\ m.conf >= 60
  <2>1. PICK e \in Scan(fs), c \in Int : c <= 190 /\ m = Match(e.node, c)
    BY <1>2, <1>7
  <2>2. m.conf = c /\ m.node = e.node
    BY <2>1, MatchIsMatch
  <2>3. a.conf = c /\ a.target = e.node.id
    BY <1>7, <2>2 DEF Edge
  <2>4. e.node \in NodesOf(Scan(fs))
    BY DEF NodesOf
  <2>5. a.conf \in 0..200
    BY <1>7, <2>1, <2>2, <2>3
  <2>6. a.target \in {n.id : n \in NodesOf(Scan(fs))}
    BY <2>3, <2>4
  <2> QED BY <2>5, <2>6 DEF a
<1>8. a = Unresolved \/ a = [target |-> ref.from, conf |-> 200]
      \/ (a = Edge(m) /\ m # NoMatch /\ m.conf >= 60)
  BY <1>1, <1>3
<1> QED BY <1>5, <1>6, <1>7, <1>8

-----------------------------------------------------------------------------
(* The states that are reached. *)

AskedStates == ask \in Asked /\ ask.file \in FilesOf(files) /\ answer = ResolveOne(files, ask)
GoStates == \E go \in GoProjects : ask = [name |-> <<>>, go |-> go] /\ answer = Synthesize(go)

ResolverInv ==
  /\ IsProject(files) /\ Len(files) <= MaxFiles
  /\ (ask = NoAsk /\ answer = Unresolved) \/ AskedStates \/ GoStates

LEMMA Reached == Spec => []ResolverInv
<1>1. Init => ResolverInv
  <2> SUFFICES ASSUME Init PROVE ResolverInv
    OBVIOUS
  <2>1. files = <<>> /\ ask = NoAsk /\ answer = Unresolved
    BY DEF Init
  <2>2. IsProject(files) /\ Len(files) <= MaxFiles
    BY <2>1, ProjectAssumption DEF IsProject, ProjectAssumption
  <2> QED BY <2>1, <2>2 DEF ResolverInv
<1>2. ResolverInv /\ [Next]_asks => ResolverInv'
  <2> SUFFICES ASSUME ResolverInv, [Next]_asks PROVE ResolverInv'
    OBVIOUS
  <2>0. IsProject(files) /\ Len(files) <= MaxFiles
    BY DEF ResolverInv
  <2>1. CASE Store
    <3>1. PICK f \in DOMAIN Block \ ToSet(files) : files' = Append(files, f)
      BY <2>1 DEF Store
    <3>2. ask = NoAsk /\ Len(files) < MaxFiles /\ ask' = ask /\ answer' = answer
      BY <2>1 DEF Store
    <3>3. files \in Seq(DOMAIN Block)
      BY <2>0 DEF IsProject
    <3>4. files' \in Seq(DOMAIN Block) /\ Len(files') = Len(files) + 1
      BY <3>1, <3>3
    <3>5. ASSUME NEW i \in DOMAIN files', NEW j \in DOMAIN files', files'[i] = files'[j]
          PROVE  i = j
      <4>1. i \in 1..(Len(files) + 1) /\ j \in 1..(Len(files) + 1)
        BY <3>3, <3>4
      <4>2. \A k \in 1..Len(files) : files'[k] = files[k] /\ files[k] # f /\ k \in DOMAIN files
        BY <3>1, <3>3 DEF ToSet
      <4>3. files'[Len(files) + 1] = f
        BY <3>1, <3>3
      <4>4. CASE i \in 1..Len(files) /\ j \in 1..Len(files)
        BY <2>0, <3>5, <4>2, <4>4 DEF IsProject
      <4> QED BY <3>3, <3>5, <4>1, <4>2, <4>3, <4>4
    <3>6. IsProject(files')
      BY <3>4, <3>5 DEF IsProject
    <3>7. Len(files') <= MaxFiles
      BY <3>2, <3>3, <3>4, ProjectAssumption DEF ProjectAssumption
    <3>8. ask' = NoAsk /\ answer' = Unresolved
      <4>1. ~AskedStates /\ ~GoStates
        <5>1. ask.name = <<>>
          BY <3>2 DEF NoAsk
        <5>2. ~AskedStates
          BY <5>1, AskedAssumption DEF AskedStates, AskedAssumption
        <5>3. ~GoStates
          <6>1. \A go : "go" \in DOMAIN [name |-> <<>>, go |-> go]
            OBVIOUS
          <6>2. "go" \notin DOMAIN NoAsk
            BY DEF NoAsk
          <6> QED BY <3>2, <6>1, <6>2 DEF GoStates
        <5> QED BY <5>2, <5>3
      <4> QED BY <3>2, <4>1 DEF ResolverInv
    <3> QED BY <3>6, <3>7, <3>8 DEF ResolverInv
  <2>2. CASE Resolve
    <3>1. /\ files' = files /\ ask' \in Asked /\ ask'.file \in ToSet(files)
          /\ answer' = ResolveOne(files, ask')
      BY <2>2 DEF Resolve
    <3>2. AskedStates'
      BY <3>1 DEF AskedStates, FilesOf, ToSet
    <3> QED BY <2>0, <3>1, <3>2 DEF ResolverInv
  <2>3. CASE SynthesizeStructural
    <3>1. files' = files /\ GoStates'
      BY <2>3 DEF SynthesizeStructural, GoStates
    <3> QED BY <2>0, <3>1 DEF ResolverInv
  <2>4. CASE Return
    BY <2>0, <2>4 DEF Return, ResolverInv
  <2>5. CASE UNCHANGED asks
    BY <2>5 DEF asks, ResolverInv, AskedStates, GoStates
  <2> QED BY <2>1, <2>2, <2>3, <2>4, <2>5 DEF Next
<1> QED BY <1>1, <1>2, PTL DEF Spec

LEMMA NodeStates ==
  ASSUME ResolverInv, AskedNode
  PROVE  /\ IsProject(files) /\ Listed(Scan(files))
         /\ ask \in Asked /\ ask.line \in Nat /\ ask.file \in FilesOf(files)
         /\ answer = ResolveOne(files, ask)
<1>1. IsProject(files)
  BY DEF ResolverInv
<1>2. AskedStates
  <2>1. ask # NoAsk /\ ask.name # <<>>
    BY DEF AskedNode
  <2>2. ~GoStates
    BY <2>1 DEF GoStates
  <2> QED BY <2>1, <2>2 DEF ResolverInv
<1> QED BY <1>1, <1>2, ScanIsListed, AskedAssumption DEF AskedStates, AskedAssumption

LEMMA GoAsked ==
  ASSUME ResolverInv, AskedGo
  PROVE  ask.go \in GoProjects /\ answer = Synthesize(ask.go)
<1>1. ask # NoAsk /\ ask.name = <<>>
  BY DEF AskedGo
<1>2. ~AskedStates
  BY <1>1, AskedAssumption DEF AskedStates, AskedAssumption
<1>3. GoStates
  BY <1>1, <1>2 DEF ResolverInv
<1> QED BY <1>3 DEF GoStates

LEMMA InvTypes == ResolverInv => TypeOK
<1> SUFFICES ASSUME ResolverInv PROVE TypeOK
  OBVIOUS
<1>1. files \in Seq(DOMAIN Block) /\ Len(files) <= MaxFiles
  BY DEF ResolverInv, IsProject
<1>2. ASSUME AskedNode
      PROVE  /\ ask \in Asked /\ answer.conf \in 0..200
             /\ answer.conf > 0 => answer.target \in {n.id : n \in NodesOf(Scan(files))}
  BY <1>2, NodeStates, AnswerIsNode
<1>3. ASSUME AskedGo PROVE \A e \in answer : e.conf \in {110, 150} /\ {e.from, e.to} \subseteq ask.go
  <2>1. answer = Synthesize(ask.go)
    BY <1>3, GoAsked
  <2>2. ASSUME NEW e \in answer
        PROVE  e.conf \in {110, 150} /\ {e.from, e.to} \subseteq ask.go
    <3>1. PICK t \in ConcreteTypes(ask.go), i \in Interfaces(ask.go) :
            e = [from |-> t, to |-> i, conf |-> Confidence(ask.go, i)]
      BY <2>1 DEF Synthesize
    <3>2. t \in ask.go /\ i \in ask.go
      BY DEF ConcreteTypes, Interfaces
    <3>3. Confidence(ask.go, i) \in {110, 150}
      BY DEF Confidence
    <3> QED BY <3>1, <3>2, <3>3
  <2> QED BY <2>2
<1> QED BY <1>1, <1>2, <1>3 DEF TypeOK

(* Every variable keeps its type; an answer is a node of the stored files with  *)
(* a confidence, for any project.                                          *)
THEOREM AnswersAreNodes == Spec => []TypeOK
BY Reached, InvTypes, PTL

-----------------------------------------------------------------------------
(* The nearest of several. *)

LEMMA InvNearest == ResolverInv => NearestWins
<1> SUFFICES ASSUME ResolverInv, AskedNode, KnownExtension(ask), Tier(Scan(files), ask) = 4,
                    answer.conf \in 60..180
             PROVE  LET cands == {n \in NodesOf(Scan(files)) : n.name = ask.name}
                        chosen == CHOOSE n \in cands : n.id = answer.target
                    IN /\ (\E n \in cands : n.file = ask.file) => chosen.file = ask.file
                       /\ (\E n \in cands : SpeaksOf(n, ask)) => SpeaksOf(chosen, ask)
  BY DEF NearestWins
<1> DEFINE scan == Scan(files)
           m == MatchReference(scan, ask)
           cands == {n \in NodesOf(scan) : n.name = ask.name}
           best == FindBest(Named(scan, ask.name), ask)
           score(n) == ScoreNode(n, ask)
<1>1. /\ IsProject(files) /\ Listed(scan)
      /\ ask \in Asked /\ ask.line \in Nat /\ ask.file \in FilesOf(files)
      /\ answer = ResolveOne(files, ask)
  BY NodeStates
<1>2. m = TryExactName(scan, ask.name, ask) /\ m # NoMatch
  BY TierIs, TriesAre
<1>3. answer = Edge(m)
  <2>1. Unresolved.conf = 0 /\ [target |-> ask.from, conf |-> 200].conf = 200
    BY DEF Unresolved
  <2>2. answer # Unresolved /\ answer # [target |-> ask.from, conf |-> 200]
    BY <2>1
  <2> HIDE DEF m, scan
  <2>3. Dropped(Scan(files), ask) \in BOOLEAN /\ FrameworkAnswers(ask) \in BOOLEAN
    BY DEF Dropped, FrameworkAnswers
  <2> QED BY <1>1, <2>2, <2>3, ResolveOneIs DEF m, scan
<1>4. /\ Named(scan, ask.name) # {} /\ best \in Named(scan, ask.name)
      /\ \A d \in Named(scan, ask.name) : score(d.node) <= score(best.node)
  BY <1>1, <1>2, ExactNameShape
<1>5. answer.target = best.node.id
  <2>1. m.node = best.node
    BY <1>1, <1>2, <1>4, ExactNameShape, MatchIsMatch
  <2> QED BY <1>3, <2>1 DEF Edge
<1>6. best \in scan /\ best.node \in cands
  BY <1>4 DEF Named, NodesOf
<1>7. \A n \in cands : \E d \in Named(scan, ask.name) : n = d.node
  BY DEF Named, NodesOf
<1>8. \A d \in scan : d.node.id = best.node.id => d = best
  BY <1>1, <1>6 DEF Listed
<1>9. (CHOOSE n \in cands : n.id = answer.target) = best.node
  <2>1. \A n \in cands : n.id = best.node.id => n = best.node
    BY <1>7, <1>8 DEF Named
  <2> HIDE DEF cands, best
  <2> QED BY <1>5, <1>6, <2>1
<1>10. ASSUME NEW n \in cands
       PROVE  /\ score(n) <= score(best.node) /\ score(n) \in Int /\ score(best.node) \in Int
              /\ n.line \in Nat /\ n.file \in FilesOf(files)
              /\ n.file = ask.file => SpeaksOf(n, ask)
  <2>1. PICK d \in Named(scan, ask.name) : n = d.node
    BY <1>7
  <2>2. d \in scan /\ n.line \in Nat /\ best.node.line \in Nat
    BY <1>1, <1>6, <2>1 DEF Listed, Named
  <2>3. n \in NodesIn(n.file) /\ n.file \in FilesOf(files)
    BY <1>1, FileOfNode
  <2>4. n.file = ask.file => SpeaksOf(n, ask)
    BY <2>3 DEF KnownExtension
  <2> QED BY <1>1, <1>4, <2>1, <2>2, <2>3, <2>4, ScoreRange
<1> HIDE DEF cands, best, score
<1>11. \A n \in cands : n.line \in Nat => ScoreNode(n, ask) = score(n)
  BY DEF score
<1>12. ASSUME NEW n \in cands, n.file = ask.file PROVE best.node.file = ask.file
  <2>1. score(n) >= 150
    BY <1>1, <1>10, <1>12, ScoreRange DEF score
  <2>2. best.node.file # ask.file => score(best.node) <= 85
    BY <1>1, <1>6, <1>10, ScoreRange DEF score
  <2>3. score(n) <= score(best.node) /\ score(n) \in Int /\ score(best.node) \in Int
    BY <1>10
  <2> QED BY <2>1, <2>2, <2>3
<1>13. ASSUME NEW n \in cands, SpeaksOf(n, ask) PROVE SpeaksOf(best.node, ask)
  <2>1. score(n) >= 50
    BY <1>1, <1>10, <1>13, ScoreRange DEF score
  <2>2. best.node.file # ask.file /\ ~SpeaksOf(best.node, ask) => score(best.node) <= 0 - 45
    BY <1>1, <1>6, <1>10, ScoreRange DEF score
  <2>3. best.node.file = ask.file => SpeaksOf(best.node, ask)
    BY <1>6, <1>10
  <2>4. score(n) <= score(best.node) /\ score(n) \in Int /\ score(best.node) \in Int
    BY <1>10
  <2> QED BY <2>1, <2>2, <2>3, <2>4
<1>14. /\ (\E n \in cands : n.file = ask.file) => best.node.file = ask.file
       /\ (\E n \in cands : SpeaksOf(n, ask)) => SpeaksOf(best.node, ask)
  BY <1>12, <1>13
<1> QED BY <1>9, <1>14 DEF cands, scan

(* NearestWins, for any project and reference: of several nodes with the       *)
(* referenced name one in the same file is taken before one in another, and    *)
(* one in the same language before one in another, whatever their kinds,       *)
(* visibility, places and the order of the files.                            *)
THEOREM NearestIsTaken == Spec => []NearestWins
BY Reached, InvNearest, PTL

-----------------------------------------------------------------------------
(* The pre-filter. *)

LEMMA SeparatorPlaces ==
  ASSUME NEW name, name \in Seq(ToSet(name)), NEW sep
  PROVE  /\ Has(name, sep) => /\ At(name, sep) \in DOMAIN name /\ name[At(name, sep)] = sep
                              /\ LastAt(name, sep) \in DOMAIN name /\ name[LastAt(name, sep)] = sep
         /\ ~Has(name, sep) => At(name, sep) = 0 /\ LastAt(name, sep) = 0
<1> DEFINE S == {i \in 1..Len(name) : name[i] = sep}
<1>1. /\ At(name, sep) = IF S # {} THEN Min(S) ELSE 0
      /\ LastAt(name, sep) = IF S # {} THEN Max(S) ELSE 0
  BY DEF At, LastAt, SelectInSeq, SelectLastInSeq
<1>2. DOMAIN name = 1..Len(name) /\ Len(name) \in Nat
  OBVIOUS
<1>3. S # {} <=> Has(name, sep)
  BY <1>2 DEF Has
<1>4. S \in SUBSET Nat /\ S \in SUBSET Int /\ \A x \in S : x <= Len(name)
  BY <1>2
<1>5. \A i \in S : i \in DOMAIN name /\ name[i] = sep
  BY <1>2
<1>6. Has(name, sep) \in BOOLEAN
  BY DEF Has
<1> HIDE DEF S
<1>7. ASSUME S # {} PROVE Min(S) \in S /\ Max(S) \in S
  <2>1. \E x \in S : \A y \in S : x <= y
    BY <1>4, <1>7, LeastOf
  <2>2. Len(name) \in Int
    BY <1>2
  <2>3. \E x \in S : \A y \in S : y <= x
    BY <1>4, <1>7, <2>2, GreatestOf
  <2>4. \E x \in S : \A y \in S : x >= y
    BY <1>4, <2>3
  <2> QED BY <2>1, <2>4 DEF Min, Max
<1> QED BY <1>1, <1>3, <1>5, <1>6, <1>7

LEMMA SeparatorCount ==
  ASSUME NEW name, name \in Seq(ToSet(name))
  PROVE  IsFiniteSet(Separators(name)) /\ Cardinality(Separators(name)) \in Nat
<1>1. IsFiniteSet(1..Len(name))
  BY FS_Interval
<1>2. Separators(name) \subseteq 1..Len(name)
  BY DEF Separators
<1> QED BY <1>1, <1>2, FS_Subset, FS_CardinalityType

(* With one separator at most, the first is the last.                        *)
LEMMA OneSeparator ==
  ASSUME NEW name, name \in Seq(ToSet(name)), Cardinality(Separators(name)) <= 1,
         NEW a \in Separators(name), NEW b \in Separators(name)
  PROVE  a = b
<1>1. IsFiniteSet(Separators(name))
  BY SeparatorCount
<1>2. ASSUME a # b PROVE FALSE
  <2> DEFINE rest == Separators(name) \ {a}
  <2>1. IsFiniteSet(rest) /\ Cardinality(rest) = Cardinality(Separators(name)) - 1
    BY <1>1, FS_RemoveElement
  <2>2. rest # {}
    BY <1>2
  <2>3. Cardinality(rest) \in Nat /\ Cardinality(rest) # 0
    BY <2>1, <2>2, FS_CardinalityType, FS_EmptySet
  <2>4. Cardinality(Separators(name)) \in Nat
    BY <1>1, FS_CardinalityType
  <2> HIDE DEF rest
  <2> QED BY <2>1, <2>3, <2>4
<1> QED BY <1>2

LEMMA FirstIsLast ==
  ASSUME NEW name, name \in Seq(ToSet(name)), Cardinality(Separators(name)) <= 1, NEW sep \in {".", "::"},
         Has(name, sep)
  PROVE  At(name, sep) = LastAt(name, sep)
<1>1. At(name, sep) \in Separators(name) /\ LastAt(name, sep) \in Separators(name)
  BY SeparatorPlaces DEF Separators
<1> QED BY <1>1, OneSeparator

LEMMA AfterNothing ==
  ASSUME NEW name, name \in Seq(ToSet(name))
  PROVE  After(name, 0) = name
<1>1. After(name, 0) = SubSeq(name, 1, Len(name))
  BY DEF After
<1> QED BY <1>1

LEMMA Possible ==
  ASSUME NEW scan, NEW name,
         \/ name \in KnownNames(scan) \/ FileName(name) \in KnownNames(scan)
         \/ Has(name, ".") /\ After(name, At(name, ".")) \in KnownNames(scan)
         \/ Has(name, "::") /\ After(name, At(name, "::")) \in KnownNames(scan)
  PROVE  HasAnyPossibleMatch(scan, name)
BY DEF HasAnyPossibleMatch

LEMMA InvPrefilter == ResolverInv => PrefilterKeeps
<1> SUFFICES ASSUME ResolverInv, AskedNode,
                    Cardinality(Separators(ask.name)) <= 1,
                    Tier(Scan(files), ask) \in 1..4,
                    Tier(Scan(files), ask) = 1 =>
                      \E f \in Paths(Scan(files)) : FileName(f) = FileName(ask.name),
                    MatchReference(Scan(files), ask).conf >= 60,
                    ~IsBuiltinOrExternal(Scan(files), ask)
             PROVE  answer.conf > 0
  <2>1. AskedNode /\ ResolverInv =>
          /\ Cardinality(Separators(ask.name)) \in Nat
          /\ Tier(Scan(files), ask) \in 1..6
          /\ MatchReference(Scan(files), ask) = NoMatch
             \/ MatchReference(Scan(files), ask).conf \in Int
          /\ Tier(Scan(files), ask) = 6 <=> MatchReference(Scan(files), ask) = NoMatch
    <3> SUFFICES ASSUME AskedNode, ResolverInv
                 PROVE  /\ Cardinality(Separators(ask.name)) \in Nat
                        /\ Tier(Scan(files), ask) \in 1..6
                        /\ MatchReference(Scan(files), ask) = NoMatch
                           \/ MatchReference(Scan(files), ask).conf \in Int
                        /\ Tier(Scan(files), ask) = 6 <=> MatchReference(Scan(files), ask) = NoMatch
      OBVIOUS
    <3>1. Listed(Scan(files)) /\ ask \in Asked /\ ask.line \in Nat
      BY NodeStates
    <3>2. ask.name \in Seq(ToSet(ask.name))
      BY <3>1, AskedAssumption DEF AskedAssumption
    <3>4. Cardinality(Separators(ask.name)) \in Nat
      BY <3>2, SeparatorCount
    <3>5. Tier(Scan(files), ask) \in 1..6
      BY TierIs
    <3> DEFINE m == MatchReference(Scan(files), ask)
    <3>6. m # NoMatch => \E e \in Scan(files), c \in Int : m = Match(e.node, c)
      BY <3>1, MatchReferenceShape
    <3>7. Tier(Scan(files), ask) = 6 <=> m = NoMatch
      BY <3>1, MatchReferenceShape
    <3> HIDE DEF m
    <3>8. m # NoMatch => m.conf \in Int
      BY <3>6, MatchIsMatch
    <3> QED BY <3>4, <3>5, <3>7, <3>8 DEF m
  <2>2. NoMatch.conf = 0
    BY DEF NoMatch
  <2>3. IsBuiltinOrExternal(Scan(files), ask) \in BOOLEAN
    BY DEF IsBuiltinOrExternal
  <2> QED BY <2>1, <2>2, <2>3 DEF PrefilterKeeps
<1> DEFINE scan == Scan(files)
           name == ask.name
           known == KnownNames(scan)
<1>1. /\ IsProject(files) /\ Listed(scan)
      /\ ask \in Asked /\ ask.line \in Nat /\ ask.file \in FilesOf(files)
      /\ answer = ResolveOne(files, ask)
  BY NodeStates
<1>2. name \in Seq(ToSet(name))
  BY <1>1, AskedAssumption DEF AskedAssumption
<1>3. /\ Tries(scan, ask)[Tier(scan, ask)] # NoMatch
      /\ MatchReference(scan, ask) = Tries(scan, ask)[Tier(scan, ask)]
  BY TierIs
<1>4. \A e \in scan : e.node.name \in known /\ e.node \in NodesIn(e.node.file)
                      /\ e.node.file \in DOMAIN Block
  BY <1>1, FileOfNode DEF KnownNames
<1>5. ASSUME Tier(scan, ask) = 1 PROVE HasAnyPossibleMatch(scan, name)
  <2>1. FileName(name) \in known
    BY <1>1, <1>5, FileOfNode
  <2> QED BY <2>1, Possible
<1>6. ASSUME Tier(scan, ask) = 2 PROVE HasAnyPossibleMatch(scan, name)
  <2>1. TryQualified(scan, name) # NoMatch
    BY <1>3, <1>6, TriesAre
  <2>2. \A x \in known : x = LastPart(name) => HasAnyPossibleMatch(scan, name)
    <3> SUFFICES ASSUME LastPart(name) \in known PROVE HasAnyPossibleMatch(scan, name)
      OBVIOUS
    <3>0. Has(name, "::") \in BOOLEAN
      BY DEF Has
    <3>1. CASE Has(name, "::")
      <4>1. LastPart(name) = After(name, At(name, "::"))
        BY <1>2, <3>1, FirstIsLast DEF LastPart
      <4> QED BY <3>1, <4>1, Possible
    <3>2. CASE ~Has(name, "::")
      <4>1. LastPart(name) = name
        BY <1>2, <3>2, SeparatorPlaces, AfterNothing DEF LastPart
      <4> QED BY <4>1, Possible
    <3> QED BY <3>0, <3>1, <3>2
  <2>3. CASE Qualified(scan, name) # {}
    <3>1. PICK e \in scan : e.node.qname = name
      BY <2>3 DEF Qualified
    <3>2. e.node.name \in {After(name, LastAt(name, "::")), FileName(name)}
      <4>1. Cardinality(Separators(e.node.qname)) <= 1
        BY <3>1
      <4>2. \/ e.node.name \in {After(e.node.qname, LastAt(e.node.qname, "::")),
                                FileName(e.node.qname)}
            \/ Cardinality(Separators(e.node.qname)) > 1
        BY <1>4, QnameAssumption DEF QnameAssumption
      <4>3. Cardinality(Separators(name)) \in Nat
        BY <1>2, SeparatorCount
      <4> QED BY <3>1, <4>1, <4>2, <4>3
    <3>3. e.node.name \in known
      BY <1>4
    <3>4. CASE e.node.name = FileName(name)
      BY <3>3, <3>4, Possible
    <3>5. CASE e.node.name = After(name, LastAt(name, "::"))
      BY <2>2, <3>3, <3>5 DEF LastPart
    <3> QED BY <3>2, <3>4, <3>5
  <2>4. CASE Qualified(scan, name) = {}
    <3>1. Suffixed(scan, name) # {}
      BY <1>1, <2>1, <2>4, QualifiedShape
    <3>2. PICK e \in scan : e.node.name = LastPart(name)
      BY <3>1 DEF Suffixed, Named
    <3> QED BY <1>4, <2>2, <3>2
  <2> QED BY <2>3, <2>4
<1>7. ASSUME Tier(scan, ask) = 3 PROVE HasAnyPossibleMatch(scan, name)
  <2>1. TryMethodCall(scan, name, ask) # NoMatch
    BY <1>3, <1>7, TriesAre
  <2>2. HasMethodForm(name) /\ CallablesNamed(scan, After(name, Cut(name))) # {}
    BY <1>1, <2>1, MethodCallShape
  <2>3. PICK e \in scan : e.node.name = After(name, Cut(name))
    BY <2>2 DEF CallablesNamed, Named
  <2>4. After(name, Cut(name)) \in known
    BY <1>4, <2>3
  <2>5. Has(name, "::") \in BOOLEAN /\ Has(name, ".") \in BOOLEAN
    BY DEF Has
  <2>6. CASE Has(name, "::")
    BY <2>4, <2>6, Possible DEF Cut
  <2>7. CASE ~Has(name, "::")
    <3>1. Cut(name) = LastAt(name, ".") /\ Cut(name) # 0
      BY <2>2, <2>7 DEF Cut, HasMethodForm
    <3>2. Has(name, ".")
      BY <1>2, <2>5, <3>1, SeparatorPlaces
    <3>3. Cut(name) = At(name, ".")
      BY <1>2, <3>1, <3>2, FirstIsLast
    <3> QED BY <2>4, <3>2, <3>3, Possible
  <2> QED BY <2>5, <2>6, <2>7
<1>8. ASSUME Tier(scan, ask) = 4 PROVE HasAnyPossibleMatch(scan, name)
  <2>1. TryExactName(scan, name, ask) # NoMatch
    BY <1>3, <1>8, TriesAre
  <2>2. Named(scan, name) # {}
    BY <1>1, <2>1, ExactNameShape
  <2>3. name \in known
    BY <1>4, <2>2 DEF Named
  <2> QED BY <2>3, Possible
<1>9. HasAnyPossibleMatch(scan, name)
  <2>1. Tier(scan, ask) \in {1, 2, 3, 4}
    OBVIOUS
  <2> QED BY <1>5, <1>6, <1>7, <1>8, <2>1
<1>10. ~Dropped(scan, ask)
  BY <1>9 DEF Dropped
<1> QED BY <1>1, <1>3, <1>10, ResolvedIff

(* PrefilterKeeps, for any project and reference: the names known when the      *)
(* caches are warmed drop no reference that one of the first four tiers would   *)
(* have answered, when its name has one separator at most.                    *)
THEOREM PrefilterIsSafe == Spec => []PrefilterKeeps
BY Reached, InvPrefilter, PTL

-----------------------------------------------------------------------------
(* The Go pass. *)

(* With plain parameters the signature of an exported method is the method.    *)
LEMMA PlainArity ==
  ASSUME NEW params \in Seq({"plain", "func"}), \A k \in DOMAIN params : params[k] = "plain"
  PROVE  ParamArity(params) = Len(params)
<1>1. {i \in DOMAIN params : params[i] = "func"} = {}
  OBVIOUS
<1> QED BY <1>1 DEF ParamArity

Plain(m) == \A k \in DOMAIN m.params : m.params[k] = "plain"

LEMMA PlainSignature ==
  ASSUME NEW m \in Method, NEW n \in Method, Plain(m), Plain(n), m.exported, n.exported,
         Signature(m) = Signature(n)
  PROVE  m = n
<1>1. m.params \in Seq({"plain", "func"}) /\ n.params \in Seq({"plain", "func"})
      /\ m.exported \in BOOLEAN /\ n.exported \in BOOLEAN
  BY DEF Method
<1>2. m.name = n.name /\ ParamArity(m.params) = ParamArity(n.params)
  BY DEF Signature
<1>3. ParamArity(m.params) = Len(m.params) /\ ParamArity(n.params) = Len(n.params)
  BY <1>1, PlainArity DEF Plain
<1>4. m.params = n.params
  <2>1. DOMAIN m.params = DOMAIN n.params
    <3>1. DOMAIN m.params = 1..Len(m.params) /\ DOMAIN n.params = 1..Len(n.params)
      BY <1>1
    <3>2. Len(m.params) = Len(n.params)
      BY <1>2, <1>3
    <3> QED BY <3>1, <3>2
  <2>2. \A k \in DOMAIN m.params : m.params[k] = n.params[k]
    BY <2>1 DEF Plain
  <2> QED BY <1>1, <2>1, <2>2
<1>5. m.exported = TRUE /\ n.exported = TRUE
  BY <1>1
<1>6. m = [name |-> m.name, exported |-> m.exported, params |-> m.params]
      /\ n = [name |-> n.name, exported |-> n.exported, params |-> n.params]
  BY DEF Method
<1> QED BY <1>2, <1>4, <1>5, <1>6

(* Of plain methods, signatures tell whether one set has another's.           *)
LEMMA SignaturesTell ==
  ASSUME NEW A \in SUBSET Method, NEW B \in SUBSET Method,
         \A m \in A : Plain(m), \A m \in B : Plain(m)
  PROVE  Signatures(A) \subseteq Signatures(B) <=> \A m \in A : m.exported => m \in B
<1>1. \A m \in A : m.exported => Signature(m) \in Signatures(A)
  BY DEF Signatures
<1>2. \A m \in B : m.exported => Signature(m) \in Signatures(B)
  BY DEF Signatures
<1>3. \A s \in Signatures(A) : \E m \in A : m.exported /\ s = Signature(m)
  BY DEF Signatures
<1>4. \A s \in Signatures(B) : \E m \in B : m.exported /\ s = Signature(m)
  BY DEF Signatures
<1>5. ASSUME Signatures(A) \subseteq Signatures(B), NEW m \in A, m.exported PROVE m \in B
  <2>1. PICK n \in B : n.exported /\ Signature(m) = Signature(n)
    BY <1>1, <1>4, <1>5
  <2>2. m = n
    BY <1>5, <2>1, PlainSignature
  <2> QED BY <2>2
<1>6. ASSUME \A m \in A : m.exported => m \in B, NEW s \in Signatures(A) PROVE s \in Signatures(B)
  BY <1>2, <1>3, <1>6
<1> QED BY <1>5, <1>6

(* An interface is declared once in its package: what it requires is its own.  *)
LEMMA RequiredOnce ==
  ASSUME NEW go \in GoProjects, NEW i \in go, i.what = "interface"
  PROVE  RequiredBy(go, DirOf(i), i.type) = Signatures(i.methods)
<1>1. {d \in go : d.what = "interface" /\ DirOf(d) = DirOf(i) /\ d.type = i.type} = {i}
  BY GoAssumption DEF GoAssumption
<1>2. UNION {d.methods : d \in {i}} = i.methods
  OBVIOUS
<1> QED BY <1>1, <1>2 DEF RequiredBy

LEMMA InvGo == ResolverInv => GoRule
<1> SUFFICES ASSUME ResolverInv, AskedGo,
                    NEW t \in {d \in ask.go : d.what = "type"},
                    NEW i \in {d \in ask.go : d.what = "interface"},
                    \A d \in ask.go : d.what = "method" =>
                      \A k \in DOMAIN d.method.params : d.method.params[k] = "plain",
                    \A m \in i.methods : \A k \in DOMAIN m.params : m.params[k] = "plain"
             PROVE  (\E e \in answer : e.from = t /\ e.to = i) <=>
                      /\ {m \in i.methods : m.exported} # {}
                      /\ t.exported /\ i.exported
                      /\ \A m \in {m \in i.methods : m.exported} : Declares(ask.go, t, m)
  BY DEF GoRule
<1> DEFINE go == ask.go
           own == {d.method : d \in {d \in go : d.what = "method" /\ DirOf(d) = DirOf(t)
                                                /\ d.type = t.type}}
<1>1. go \in GoProjects /\ answer = Synthesize(go)
  BY GoAsked
<1>2. t \in go /\ i \in go /\ t.what = "type" /\ i.what = "interface"
  OBVIOUS
<1>3. i.methods \in SUBSET Method /\ own \in SUBSET Method
  BY <1>1, <1>2, GoAssumption DEF GoAssumption
<1>4. \A m \in own : Plain(m)
  BY DEF Plain
<1>5. \A m \in i.methods : Plain(m)
  BY DEF Plain
<1>6. RequiredBy(go, DirOf(i), i.type) = Signatures(i.methods)
  BY <1>1, <1>2, RequiredOnce
<1>7. MethodsOf(go, DirOf(t), t.type) = Signatures(own)
  BY DEF MethodsOf
<1>8. Satisfies(go, t, i) <=> \A m \in i.methods : m.exported => m \in own
  <2> HIDE DEF go, own
  <2> QED BY <1>3, <1>4, <1>5, <1>6, <1>7, SignaturesTell DEF Satisfies
<1>9. \A m : m \in own <=> Declares(go, t, m)
  BY DEF Declares, DirOf
<1>10. Signatures(i.methods) # {} <=> \E m \in i.methods : m.exported
  BY DEF Signatures
<1>11. (\E e \in answer : e.from = t /\ e.to = i) <=>
         t \in ConcreteTypes(go) /\ i \in Interfaces(go) /\ Satisfies(go, t, i)
  <2>1. ASSUME t \in ConcreteTypes(go), i \in Interfaces(go), Satisfies(go, t, i)
        PROVE  \E e \in answer : e.from = t /\ e.to = i
    <3>1. [from |-> t, to |-> i, conf |-> Confidence(go, i)] \in Synthesize(go)
      BY <2>1 DEF Synthesize
    <3> QED BY <1>1, <3>1
  <2>2. ASSUME NEW e \in answer, e.from = t, e.to = i
        PROVE  t \in ConcreteTypes(go) /\ i \in Interfaces(go) /\ Satisfies(go, t, i)
    <3>1. PICK u \in ConcreteTypes(go) : \E j \in Interfaces(go) :
            Satisfies(go, u, j) /\ e = [from |-> u, to |-> j, conf |-> Confidence(go, j)]
      BY <1>1, <2>2 DEF Synthesize
    <3> QED BY <2>2, <3>1
  <2> QED BY <2>1, <2>2
<1>12. i \in Interfaces(go) <=> i.exported /\ \E m \in i.methods : m.exported
  BY <1>2, <1>6, <1>10 DEF Interfaces
<1>13. t \in ConcreteTypes(go) <=> t.exported /\ Signatures(own) # {}
  BY <1>2, <1>7 DEF ConcreteTypes
<1>14. (\E m \in own : m.exported) => Signatures(own) # {}
  BY DEF Signatures
<1> HIDE DEF own, go
<1>15. (\E e \in answer : e.from = t /\ e.to = i) <=>
         /\ \E m \in i.methods : m.exported
         /\ t.exported /\ i.exported
         /\ \A m \in i.methods : m.exported => m \in own
  BY <1>8, <1>11, <1>12, <1>13, <1>14
<1> QED BY <1>9, <1>15 DEF go

(* GoRule, for any set of Go declarations: a type has an edge to an interface   *)
(* exactly if its package declares for it every exported method the interface  *)
(* lists, and there is one; whatever the files the methods are in.            *)
THEOREM GoRuleHolds == Spec => []GoRule
BY Reached, InvGo, PTL

-----------------------------------------------------------------------------
(* What the nodes of a scan decide. *)

(* A scan with more nodes finds whatever one with fewer does.                 *)
LEMMA FindsMore ==
  ASSUME NEW s, NEW l, NodesOf(s) \subseteq NodesOf(l), NEW name
  PROVE  /\ Paths(s) \subseteq Paths(l)
         /\ KnownNames(s) \subseteq KnownNames(l)
         /\ Qualified(s, name) # {} => Qualified(l, name) # {}
         /\ Suffixed(s, name) # {} => Suffixed(l, name) # {}
         /\ \A x : CallablesNamed(s, x) # {} => CallablesNamed(l, x) # {}
         /\ Beside(s, name, Classes(s, name)) => Beside(l, name, Classes(l, name))
         /\ Beside(s, name, Capitals(s, name)) => Beside(l, name, Capitals(l, name))
         /\ Named(s, name) # {} => Named(l, name) # {}
         /\ FuzzyNamed(s, name) # {} => FuzzyNamed(l, name) # {}
<1>1. \A e \in s : \E d \in l : d.node = e.node
  BY DEF NodesOf
<1>2. Paths(s) \subseteq Paths(l)
  BY <1>1 DEF Paths
<1>3. KnownNames(s) \subseteq KnownNames(l)
  BY DEF KnownNames
<1>4. Qualified(s, name) # {} => Qualified(l, name) # {}
  BY <1>1 DEF Qualified
<1>5. Suffixed(s, name) # {} => Suffixed(l, name) # {}
  BY <1>1 DEF Suffixed, Named
<1>6. ASSUME NEW x, NEW e \in CallablesNamed(s, x)
      PROVE  \E d \in CallablesNamed(l, x) : d.node = e.node
  BY <1>1 DEF CallablesNamed, Named
<1>7. ASSUME NEW e \in Classes(s, name)
      PROVE  \E d \in Classes(l, name) : d.node = e.node
  BY <1>1 DEF Classes, Named
<1>8. ASSUME NEW e \in Capitals(s, name)
      PROVE  \E d \in Capitals(l, name) : d.node = e.node
  BY <1>1 DEF Capitals, Named
<1>9. Named(s, name) # {} => Named(l, name) # {}
  BY <1>1 DEF Named
<1>10. FuzzyNamed(s, name) # {} => FuzzyNamed(l, name) # {}
  BY <1>1 DEF FuzzyNamed, LowerNamed
<1>11. Beside(s, name, Classes(s, name)) => Beside(l, name, Classes(l, name))
  <2> SUFFICES ASSUME NEW c \in Classes(s, name), NEW d \in CallablesNamed(s, After(name, Cut(name))),
                      d.node.file = c.node.file
               PROVE  Beside(l, name, Classes(l, name))
    BY DEF Beside
  <2>1. PICK c2 \in Classes(l, name) : c2.node = c.node
    BY <1>7
  <2>2. PICK d2 \in CallablesNamed(l, After(name, Cut(name))) : d2.node = d.node
    BY <1>6
  <2> QED BY <2>1, <2>2 DEF Beside
<1>12. Beside(s, name, Capitals(s, name)) => Beside(l, name, Capitals(l, name))
  <2> SUFFICES ASSUME NEW c \in Capitals(s, name), NEW d \in CallablesNamed(s, After(name, Cut(name))),
                      d.node.file = c.node.file
               PROVE  Beside(l, name, Capitals(l, name))
    BY DEF Beside
  <2>1. PICK c2 \in Capitals(l, name) : c2.node = c.node
    BY <1>8
  <2>2. PICK d2 \in CallablesNamed(l, After(name, Cut(name))) : d2.node = d.node
    BY <1>6
  <2> QED BY <2>1, <2>2 DEF Beside
<1>13. \A x : CallablesNamed(s, x) # {} => CallablesNamed(l, x) # {}
  BY <1>6
<1> QED BY <1>2, <1>3, <1>4, <1>5, <1>9, <1>10, <1>11, <1>12, <1>13

(* A tier that answers keeps answering, but for the first where a path is      *)
(* ambiguous.                                                              *)
LEMMA TriesGrow ==
  ASSUME NEW s, NEW l, Listed(s), Listed(l), NodesOf(s) \subseteq NodesOf(l),
         NEW ref, ref.line \in Nat,
         ~Ambiguous(l, ref.name) \/ Paths(s) = Paths(l)
  PROVE  /\ \A i \in 1..5 : Tries(s, ref)[i] # NoMatch => Tries(l, ref)[i] # NoMatch
         /\ Tier(l, ref) <= Tier(s, ref)
<1> DEFINE name == ref.name
<1>1. TryFilePath(s, name) # NoMatch => TryFilePath(l, name) # NoMatch
  <2> SUFFICES ASSUME TryFilePath(s, name) # NoMatch PROVE TryFilePath(l, name) # NoMatch
    OBVIOUS
  <2>1. /\ FileLike(name)
        /\ name \in Paths(s) \/ One(EndingOn(s, name)) \/ One(StartingWith(s, name))
    BY FilePathShape
  <2>2. Paths(s) \subseteq Paths(l)
    BY FindsMore
  <2>3. name \in Paths(l) \/ One(EndingOn(l, name)) \/ One(StartingWith(l, name))
    <3>1. CASE Paths(s) = Paths(l)
      <4>1. EndingOn(s, name) = EndingOn(l, name) /\ StartingWith(s, name) = StartingWith(l, name)
        BY <3>1 DEF EndingOn, StartingWith
      <4> QED BY <2>1, <2>2, <4>1
    <3>2. CASE ~Ambiguous(l, name)
      <4>1. /\ EndingOn(s, name) \subseteq EndingOn(l, name)
            /\ StartingWith(s, name) \subseteq StartingWith(l, name)
        BY <2>2 DEF EndingOn, StartingWith
      <4>2. \A f, g \in EndingOn(l, name) : f = g
        BY <3>2 DEF EndingOn, Ambiguous
      <4>3. \A f, g \in StartingWith(l, name) : f = g
        BY <3>2 DEF StartingWith, Ambiguous
      <4>4. ASSUME NEW A, NEW B, A \subseteq B, One(A), \A f, g \in B : f = g PROVE One(B)
        BY <4>4 DEF One
      <4> QED BY <2>1, <2>2, <4>1, <4>2, <4>3, <4>4
    <3> QED BY <3>1, <3>2
  <2> QED BY <2>1, <2>3, FilePathShape
<1>2. TryQualified(s, name) # NoMatch => TryQualified(l, name) # NoMatch
  BY FindsMore, QualifiedShape
<1>3. TryMethodCall(s, name, ref) # NoMatch => TryMethodCall(l, name, ref) # NoMatch
  BY FindsMore, MethodCallShape
<1>4. TryExactName(s, name, ref) # NoMatch => TryExactName(l, name, ref) # NoMatch
  <2> SUFFICES ASSUME TryExactName(s, name, ref) # NoMatch PROVE TryExactName(l, name, ref) # NoMatch
    OBVIOUS
  <2>1. Named(l, name) # {}
    BY FindsMore, ExactNameShape
  <2>2. \E n, c : TryExactName(l, name, ref) = Match(n, c)
    BY <2>1, ExactNameShape
  <2> QED BY <2>2, MatchIsMatch
<1>5. TryFuzzyLower(s, name, ref) # NoMatch => TryFuzzyLower(l, name, ref) # NoMatch
  BY FindsMore, FuzzyShape
<1>6. \A i \in 1..5 : Tries(s, ref)[i] # NoMatch => Tries(l, ref)[i] # NoMatch
  <2>1. \A i \in 1..5 : i \in {1, 2, 3, 4, 5}
    OBVIOUS
  <2> QED BY <1>1, <1>2, <1>3, <1>4, <1>5, <2>1, TriesAre
<1>7. Tier(l, ref) <= Tier(s, ref)
  <2>1. /\ Tier(s, ref) \in 1..6 /\ Tier(l, ref) \in 1..6
        /\ \A i \in 1..(Tier(l, ref) - 1) : Tries(l, ref)[i] = NoMatch
        /\ Tier(s, ref) < 6 => Tries(s, ref)[Tier(s, ref)] # NoMatch
    BY TierIs
  <2> QED BY <1>6, <2>1
<1> QED BY <1>6, <1>7

-----------------------------------------------------------------------------
(* The order of the files. *)

(* Of one name there is one node or several, whatever the order.              *)
LEMMA OneByNodes ==
  ASSUME NEW s, NEW l, Listed(s), Listed(l), NodesOf(s) = NodesOf(l), NEW name, One(Named(s, name))
  PROVE  One(Named(l, name))
<1>1. PICK e \in s : Named(s, name) = {e}
  BY DEF One, Named
<1>2. \A d \in Named(l, name) : d \in l /\ d.node = e.node
  <2>1. \A d \in l : \E c \in s : c.node = d.node
    BY DEF NodesOf
  <2> QED BY <1>1, <2>1 DEF Named
<1>3. Named(l, name) # {}
  <2>1. Named(s, name) # {}
    BY <1>1
  <2> QED BY <2>1, FindsMore
<1>4. PICK d \in Named(l, name) : TRUE
  BY <1>3
<1>5. \A c \in Named(l, name) : c = d
  <2>1. \A x, y \in l : x.node.id = y.node.id => x = y
    BY DEF Listed
  <2>2. \A x, y \in l : x.node = y.node => x = y
    BY <2>1
  <2> QED BY <1>2, <1>4, <2>2
<1> QED BY <1>4, <1>5 DEF One

LEMMA SameExact ==
  ASSUME NEW s, NEW l, Listed(s), Listed(l), NodesOf(s) = NodesOf(l),
         NEW name, NEW ref, ref.line \in Nat, Named(s, name) # {}
  PROVE  TryExactName(s, name, ref).conf = TryExactName(l, name, ref).conf
<1> DEFINE bs == FindBest(Named(s, name), ref)
           bl == FindBest(Named(l, name), ref)
           score(n) == ScoreNode(n, ref)
<1>1. Named(l, name) # {}
  BY FindsMore
<1>2. /\ bs \in Named(s, name) /\ \A d \in Named(s, name) : score(d.node) <= score(bs.node)
      /\ bl \in Named(l, name) /\ \A d \in Named(l, name) : score(d.node) <= score(bl.node)
  BY <1>1, ExactNameShape
<1>3. /\ \A e \in Named(s, name) : \E d \in Named(l, name) : d.node = e.node
      /\ \A e \in Named(l, name) : \E d \in Named(s, name) : d.node = e.node
  <2>1. (\A e \in s : \E d \in l : d.node = e.node) /\ (\A e \in l : \E d \in s : d.node = e.node)
    BY DEF NodesOf
  <2> QED BY <2>1 DEF Named
<1>4. score(bs.node) \in Int /\ score(bl.node) \in Int
  <2>1. bs.node.line \in Nat /\ bl.node.line \in Nat
    BY <1>2 DEF Named, Listed
  <2> QED BY <2>1, ScoreRange
<1>5. score(bs.node) = score(bl.node)
  <2>1. score(bs.node) <= score(bl.node) /\ score(bl.node) <= score(bs.node)
    BY <1>2, <1>3
  <2> QED BY <1>4, <2>1
<1>6. One(Named(s, name)) <=> One(Named(l, name))
  BY OneByNodes
<1>7. One(Named(s, name)) => bs.node = bl.node
  <2> HIDE DEF bs, bl
  <2> QED BY <1>2, <1>3 DEF One
<1>8. /\ One(Named(s, name)) =>
           TryExactName(s, name, ref) = Match(bs.node, IF SpeaksOf(bs.node, ref) THEN 180 ELSE 100)
      /\ ~One(Named(s, name)) => TryExactName(s, name, ref) = Match(bs.node, Capped(80 + score(bs.node)))
      /\ One(Named(l, name)) =>
           TryExactName(l, name, ref) = Match(bl.node, IF SpeaksOf(bl.node, ref) THEN 180 ELSE 100)
      /\ ~One(Named(l, name)) => TryExactName(l, name, ref) = Match(bl.node, Capped(80 + score(bl.node)))
  BY <1>1, ExactNameShape
<1> HIDE DEF bs, bl, score
<1>9. CASE One(Named(s, name))
  BY <1>6, <1>7, <1>8, <1>9, MatchIsMatch
<1>10. CASE ~One(Named(s, name))
  BY <1>5, <1>6, <1>8, <1>10, MatchIsMatch
<1> QED BY <1>9, <1>10

(* Two scans with the same nodes answer in the same tier, with the same confidence. *)
LEMMA SameMatch ==
  ASSUME NEW s, NEW l, Listed(s), Listed(l), NodesOf(s) = NodesOf(l), NEW ref, ref.line \in Nat
  PROVE  /\ Tier(s, ref) = Tier(l, ref)
         /\ Tier(s, ref) # 5 => MatchReference(s, ref).conf = MatchReference(l, ref).conf
<1> DEFINE name == ref.name
           t == Tier(s, ref)
<1>1. Paths(s) = Paths(l)
  <2>1. Paths(s) \subseteq Paths(l) /\ Paths(l) \subseteq Paths(s)
    BY FindsMore
  <2> QED BY <2>1
<1>2. Tier(s, ref) = Tier(l, ref)
  <2>1. Tier(l, ref) <= Tier(s, ref) /\ Tier(s, ref) <= Tier(l, ref)
    BY <1>1, TriesGrow
  <2>2. Tier(s, ref) \in 1..6 /\ Tier(l, ref) \in 1..6
    BY TierIs
  <2> QED BY <2>1, <2>2
<1>3. /\ t \in 1..6
      /\ t < 6 => /\ Tries(s, ref)[t] # NoMatch /\ MatchReference(s, ref) = Tries(s, ref)[t]
                  /\ Tries(l, ref)[t] # NoMatch /\ MatchReference(l, ref) = Tries(l, ref)[t]
      /\ t = 6 => MatchReference(s, ref) = NoMatch /\ MatchReference(l, ref) = NoMatch
  BY <1>2, TierIs
<1>4. ASSUME t = 1 PROVE TryFilePath(s, name).conf = TryFilePath(l, name).conf
  <2>1. TryFilePath(s, name) # NoMatch /\ TryFilePath(l, name) # NoMatch
    BY <1>3, <1>4, TriesAre
  <2>2. EndingOn(s, name) = EndingOn(l, name)
    BY <1>1 DEF EndingOn
  <2> QED BY <1>1, <2>1, <2>2, FilePathShape
<1>5. ASSUME t = 2 PROVE TryQualified(s, name).conf = TryQualified(l, name).conf
  <2>1. TryQualified(s, name) # NoMatch /\ TryQualified(l, name) # NoMatch
    BY <1>3, <1>5, TriesAre
  <2>2. Qualified(s, name) # {} <=> Qualified(l, name) # {}
    BY FindsMore
  <2> QED BY <2>1, <2>2, QualifiedShape
<1>6. ASSUME t = 3 PROVE TryMethodCall(s, name, ref).conf = TryMethodCall(l, name, ref).conf
  <2>1. TryMethodCall(s, name, ref) # NoMatch /\ TryMethodCall(l, name, ref) # NoMatch
    BY <1>3, <1>6, TriesAre
  <2>2. /\ Beside(s, name, Classes(s, name)) <=> Beside(l, name, Classes(l, name))
        /\ Beside(s, name, Capitals(s, name)) <=> Beside(l, name, Capitals(l, name))
    BY FindsMore
  <2> QED BY <2>1, <2>2, MethodCallShape
<1>7. ASSUME t = 4 PROVE TryExactName(s, name, ref).conf = TryExactName(l, name, ref).conf
  <2>1. Named(s, name) # {}
    BY <1>3, <1>7, TriesAre, ExactNameShape
  <2> QED BY <2>1, SameExact
<1> HIDE DEF t
<1>8. t \in {1, 2, 3, 4, 5, 6}
  BY <1>3
<1>9. t # 5 => MatchReference(s, ref).conf = MatchReference(l, ref).conf
  BY <1>3, <1>4, <1>5, <1>6, <1>7, <1>8, TriesAre
<1> QED BY <1>2, <1>9 DEF t

LEMMA DroppedByNodes ==
  ASSUME NEW s, NEW l, NodesOf(s) \subseteq NodesOf(l), NEW ref, Dropped(l, ref)
  PROVE  Dropped(s, ref)
<1>1. KnownNames(s) \subseteq KnownNames(l)
  BY FindsMore
<1>2. IsBuiltinOrExternal(l, ref) => IsBuiltinOrExternal(s, ref)
  BY <1>1 DEF IsBuiltinOrExternal
<1>3. HasAnyPossibleMatch(s, ref.name) => HasAnyPossibleMatch(l, ref.name)
  BY <1>1 DEF HasAnyPossibleMatch
<1> QED BY <1>2, <1>3 DEF Dropped

(* A permutation of the files is a project of the same files.                 *)
LEMMA Reordered ==
  ASSUME NEW fs, IsProject(fs), NEW p \in [DOMAIN fs -> DOMAIN fs], ToSet(p) = DOMAIN fs
  PROVE  LET other == [i \in DOMAIN fs |-> fs[p[i]]] IN
         IsProject(other) /\ FilesOf(other) = FilesOf(fs)
<1> DEFINE D == DOMAIN fs
           other == [i \in D |-> fs[p[i]]]
<1>1. fs \in Seq(DOMAIN Block) /\ D = 1..Len(fs) /\ Len(fs) \in Nat
  BY DEF IsProject
<1>2. \A i, j \in D : fs[i] = fs[j] => i = j
  BY DEF IsProject
<1>3. \A i, j \in D : p[i] = p[j] => i = j
  <2>1. IsFiniteSet(D)
    BY <1>1, FS_Interval
  <2>2. \A d \in D : \E i \in D : p[i] = d
    BY DEF ToSet
  <2> HIDE DEF D
  <2>3. p \in [D -> D]
    BY DEF D
  <2>4. p \in Surjection(D, D)
    BY <2>2, <2>3 DEF Surjection
  <2>5. p \in Injection(D, D)
    BY <2>1, <2>4, FS_SurjSameCardinalityImpliesInj
  <2> QED BY <2>5 DEF Injection, IsInjective
<1>4. other \in Seq(DOMAIN Block)
  <2>1. \A i \in D : other[i] \in DOMAIN Block
    BY <1>1
  <2>2. other \in [1..Len(fs) -> DOMAIN Block]
    BY <1>1, <2>1
  <2> HIDE DEF other
  <2> QED BY <1>1, <2>2
<1>5. \A i, j \in DOMAIN other : other[i] = other[j] => i = j
  BY <1>2, <1>3
<1>6. FilesOf(other) = FilesOf(fs)
  <2>1. \A i \in D : p[i] \in D
    OBVIOUS
  <2>2. \A d \in D : \E i \in D : p[i] = d
    BY DEF ToSet
  <2> QED BY <2>1, <2>2 DEF FilesOf
<1> QED BY <1>4, <1>5, <1>6 DEF IsProject

LEMMA InvOrder == ResolverInv => OrderIrrelevant
<1> SUFFICES ASSUME ResolverInv, AskedNode, Tier(Scan(files), ask) # 5,
                    NEW p \in [DOMAIN files -> DOMAIN files], ToSet(p) = DOMAIN files
             PROVE  ResolveOne([i \in DOMAIN files |-> files[p[i]]], ask).conf = answer.conf
  BY DEF OrderIrrelevant
<1> DEFINE other == [i \in DOMAIN files |-> files[p[i]]]
<1>1. /\ IsProject(files) /\ Listed(Scan(files))
      /\ ask.line \in Nat /\ answer = ResolveOne(files, ask)
  BY NodeStates
<1>2. IsProject(other) /\ FilesOf(other) = FilesOf(files)
  BY <1>1, Reordered
<1> HIDE DEF other
<1>3. NodesOf(Scan(other)) = NodesOf(Scan(files)) /\ Listed(Scan(other))
  BY <1>1, <1>2, NodesOfScan, ScanIsListed
<1>4. /\ Tier(Scan(files), ask) = Tier(Scan(other), ask)
      /\ MatchReference(Scan(files), ask).conf = MatchReference(Scan(other), ask).conf
  BY <1>1, <1>3, SameMatch
<1>5. MatchReference(Scan(files), ask) = NoMatch <=> MatchReference(Scan(other), ask) = NoMatch
  BY <1>1, <1>3, <1>4, MatchReferenceShape
<1>6. Dropped(Scan(files), ask) <=> Dropped(Scan(other), ask)
  BY <1>3, DroppedByNodes
<1>7. /\ Dropped(Scan(files), ask) \in BOOLEAN /\ Dropped(Scan(other), ask) \in BOOLEAN
      /\ FrameworkAnswers(ask) \in BOOLEAN
  BY DEF Dropped, FrameworkAnswers
<1>8. ResolveOne(other, ask).conf = ResolveOne(files, ask).conf
  <2> DEFINE m == MatchReference(Scan(files), ask)
             n == MatchReference(Scan(other), ask)
             dm == Dropped(Scan(files), ask)
             dn == Dropped(Scan(other), ask)
             own == FrameworkAnswers(ask)
  <2>1. ResolveOne(files, ask).conf =
          IF dm THEN 0 ELSE IF own THEN 200 ELSE IF m # NoMatch /\ m.conf >= 60 THEN m.conf ELSE 0
    BY <1>1, ResolvedIff
  <2>2. ResolveOne(other, ask).conf =
          IF dn THEN 0 ELSE IF own THEN 200 ELSE IF n # NoMatch /\ n.conf >= 60 THEN n.conf ELSE 0
    BY <1>1, <1>2, ResolvedIff
  <2>3. (dm <=> dn) /\ dm \in BOOLEAN /\ dn \in BOOLEAN /\ own \in BOOLEAN
        /\ m.conf = n.conf /\ (m = NoMatch <=> n = NoMatch)
    BY <1>4, <1>5, <1>6, <1>7
  <2> HIDE DEF m, n, dm, dn, own
  <2> QED BY <2>1, <2>2, <2>3
<1> QED BY <1>1, <1>8 DEF other

-----------------------------------------------------------------------------
(* A project that grows. *)

(* Without its k-th file a project is one of fewer files.                     *)
LEMMA WithoutOne ==
  ASSUME NEW fs, IsProject(fs), NEW k \in DOMAIN fs
  PROVE  IsProject(RemoveAt(fs, k)) /\ FilesOf(RemoveAt(fs, k)) \subseteq FilesOf(fs)
<1> DEFINE fewer == RemoveAt(fs, k)
           n == Len(fs)
           at(i) == IF i < k THEN i ELSE i + 1
<1>1. fs \in Seq(DOMAIN Block) /\ DOMAIN fs = 1..n /\ n \in Nat /\ k \in 1..n
  BY DEF IsProject
<1>2. \A i, j \in 1..n : fs[i] = fs[j] => i = j
  BY DEF IsProject
<1>3. /\ fewer \in Seq(DOMAIN Block) /\ Len(fewer) = n - 1
      /\ \A i \in 1..(n - 1) : fewer[i] = fs[at(i)]
  <2> DEFINE a == SubSeq(fs, 1, k - 1)
             b == SubSeq(fs, k + 1, n)
  <2>1. a \in Seq(DOMAIN Block) /\ Len(a) = k - 1 /\ \A i \in 1..(k - 1) : a[i] = fs[i]
    BY <1>1
  <2>2. b \in Seq(DOMAIN Block) /\ Len(b) = n - k /\ \A i \in 1..(n - k) : b[i] = fs[k + i]
    BY <1>1
  <2>3. fewer = a \o b
    BY DEF RemoveAt
  <2> HIDE DEF a, b, fewer
  <2>4. fewer \in Seq(DOMAIN Block) /\ Len(fewer) = n - 1
    <3>1. \A S : \A x, y \in Seq(S) : x \o y \in Seq(S) /\ Len(x \o y) = Len(x) + Len(y)
      OBVIOUS
    <3>2. fewer \in Seq(DOMAIN Block) /\ Len(fewer) = Len(a) + Len(b)
      BY <2>1, <2>2, <2>3, <3>1
    <3>3. (k - 1) + (n - k) = n - 1
      BY <1>1
    <3> QED BY <2>1, <2>2, <3>2, <3>3
  <2>5. ASSUME NEW i \in 1..(n - 1) PROVE fewer[i] = fs[at(i)]
    <3>1. CASE i < k
      <4>1. i \in 1..(k - 1) /\ fewer[i] = a[i]
        BY <1>1, <2>1, <2>2, <2>3, <3>1
      <4> QED BY <2>1, <3>1, <4>1
    <3>2. CASE ~(i < k)
      <4>1. i - (k - 1) \in 1..(n - k) /\ fewer[i] = b[i - (k - 1)]
        BY <1>1, <2>1, <2>2, <2>3, <3>2
      <4>2. k + (i - (k - 1)) = i + 1
        BY <1>1
      <4> QED BY <2>2, <3>2, <4>1, <4>2
    <3> QED BY <3>1, <3>2
  <2> QED BY <2>4, <2>5
<1> HIDE DEF fewer
<1>4. \A i \in 1..(n - 1) : at(i) \in 1..n
  BY <1>1
<1>5. DOMAIN fewer = 1..(n - 1)
  BY <1>3
<1>6. ASSUME NEW i \in DOMAIN fewer, NEW j \in DOMAIN fewer, fewer[i] = fewer[j] PROVE i = j
  <2>1. at(i) = at(j)
    BY <1>2, <1>3, <1>4, <1>5, <1>6
  <2> QED BY <1>1, <1>5, <2>1
<1>7. \A i \in DOMAIN fewer : fewer[i] \in FilesOf(fs)
  BY <1>1, <1>3, <1>4, <1>5 DEF FilesOf
<1>8. FilesOf(fewer) \subseteq FilesOf(fs)
  BY <1>7 DEF FilesOf
<1>9. IsProject(fewer)
  BY <1>3, <1>6 DEF IsProject
<1> QED BY <1>8, <1>9 DEF fewer

(* What found a node with fewer nodes finds one with more, above the threshold    *)
(* when one of the name is of the language.                                  *)
LEMMA MatchGrows ==
  ASSUME NEW s, NEW l, Listed(s), Listed(l), NodesOf(s) \subseteq NodesOf(l),
         NEW ref, ref.line \in Nat, ~Ambiguous(l, ref.name),
         \/ Named(l, ref.name) = {}
         \/ \E e \in Named(l, ref.name) : SpeaksOf(e.node, ref),
         MatchReference(s, ref) # NoMatch
  PROVE  MatchReference(l, ref) # NoMatch /\ MatchReference(l, ref).conf >= 60
<1> DEFINE name == ref.name
           m == MatchReference(l, ref)
           t == Tier(l, ref)
<1>1. Tier(s, ref) \in 1..6 /\ Tier(s, ref) # 6
  BY TierIs, MatchReferenceShape
<1>2. t <= Tier(s, ref) /\ t \in 1..6
  BY TriesGrow, TierIs
<1>3. t \in 1..5 /\ m # NoMatch /\ m = Tries(l, ref)[t]
  <2>1. t < 6 /\ t \in 1..5
    BY <1>1, <1>2
  <2> QED BY <2>1, TierIs
<1>4. \A x, C : C \in SUBSET Int /\ (\A c \in C : c >= 60) /\ MatchAmong(l, x, C) => x.conf >= 60
  BY MatchIsMatch DEF MatchAmong
<1>5. ASSUME t = 1 PROVE m.conf >= 60
  <2>1. MatchAmong(l, m, {190, 170, 140})
    BY <1>3, <1>5, TriesAre, FilePathShape
  <2> HIDE DEF m
  <2> QED BY <1>4, <2>1
<1>6. ASSUME t = 2 PROVE m.conf >= 60
  <2>1. MatchAmong(l, m, {190, 170})
    BY <1>3, <1>6, TriesAre, QualifiedShape
  <2> HIDE DEF m
  <2> QED BY <1>4, <2>1
<1>7. ASSUME t = 3 PROVE m.conf >= 60
  <2>1. MatchAmong(l, m, {170, 150, 130})
    BY <1>3, <1>7, TriesAre, MethodCallShape
  <2> HIDE DEF m
  <2> QED BY <1>4, <2>1
<1>8. ASSUME t = 5 PROVE m.conf >= 60
  <2>1. MatchAmong(l, m, {100, 60})
    BY <1>3, <1>8, TriesAre, FuzzyShape
  <2> HIDE DEF m
  <2> QED BY <1>4, <2>1
<1>9. ASSUME t = 4 PROVE m.conf >= 60
  <2> DEFINE best == FindBest(Named(l, name), ref)
  <2>1. m = TryExactName(l, name, ref) /\ Named(l, name) # {}
    BY <1>3, <1>9, TriesAre, ExactNameShape
  <2>2. PICK e \in Named(l, name) : SpeaksOf(e.node, ref)
    BY <2>1
  <2>3. /\ best \in Named(l, name)
        /\ ScoreNode(e.node, ref) <= ScoreNode(best.node, ref)
        /\ One(Named(l, name)) => m = Match(best.node, IF SpeaksOf(best.node, ref) THEN 180 ELSE 100)
        /\ ~One(Named(l, name)) => m = Match(best.node, Capped(80 + ScoreNode(best.node, ref)))
    BY <2>1, ExactNameShape
  <2>4. e.node.line \in Nat /\ best.node.line \in Nat
    BY <2>3 DEF Named, Listed
  <2>5. ScoreNode(e.node, ref) >= 50 /\ ScoreNode(e.node, ref) \in Int
        /\ ScoreNode(best.node, ref) \in Int
    BY <2>2, <2>4, ScoreRange
  <2> HIDE DEF best, m
  <2>6. ScoreNode(best.node, ref) >= 50
    BY <2>3, <2>5
  <2>7. Capped(80 + ScoreNode(best.node, ref)) >= 60
    BY <2>5, <2>6 DEF Capped
  <2>8. (IF SpeaksOf(best.node, ref) THEN 180 ELSE 100) >= 60
    OBVIOUS
  <2>9. CASE One(Named(l, name))
    BY <2>3, <2>8, <2>9, MatchIsMatch
  <2>10. CASE ~One(Named(l, name))
    BY <2>3, <2>7, <2>10, MatchIsMatch
  <2> QED BY <2>9, <2>10
<1> HIDE DEF t, m
<1>10. t \in {1, 2, 3, 4, 5}
  BY <1>3
<1>11. m # NoMatch /\ m.conf >= 60
  BY <1>3, <1>5, <1>6, <1>7, <1>8, <1>9, <1>10
<1> QED BY <1>11 DEF m

LEMMA InvGrowth == ResolverInv => GrowthKeepsResolved
<1> SUFFICES ASSUME ResolverInv, AskedNode,
                    LET cands == {n \in NodesOf(Scan(files)) : n.name = ask.name}
                    IN cands = {} \/ \E n \in cands : SpeaksOf(n, ask),
                    NEW k \in DOMAIN files, ResolveOne(RemoveAt(files, k), ask).conf > 0,
                    ~Ambiguous(Scan(files), ask.name)
             PROVE  answer.conf > 0
  BY DEF GrowthKeepsResolved
<1> DEFINE fewer == RemoveAt(files, k)
           s == Scan(fewer)
           l == Scan(files)
<1>1. /\ IsProject(files) /\ Listed(l)
      /\ ask.line \in Nat /\ answer = ResolveOne(files, ask)
  BY NodeStates
<1>2. IsProject(fewer) /\ FilesOf(fewer) \subseteq FilesOf(files)
  BY <1>1, WithoutOne
<1>3. Named(l, ask.name) = {} \/ \E e \in Named(l, ask.name) : SpeaksOf(e.node, ask)
  <2>1. \A n \in NodesOf(l) : n.name = ask.name => \E e \in Named(l, ask.name) : e.node = n
    BY DEF NodesOf, Named
  <2>2. \A e \in Named(l, ask.name) : e.node \in NodesOf(l) /\ e.node.name = ask.name
    BY DEF NodesOf, Named
  <2> QED BY <2>1, <2>2
<1>4. ResolveOne(fewer, ask).conf > 0
  OBVIOUS
<1> HIDE DEF fewer
<1>5. NodesOf(s) \subseteq NodesOf(l) /\ Listed(s)
  BY <1>1, <1>2, NodesOfScan, ScanIsListed
<1>6. ~Dropped(s, ask) /\ (FrameworkAnswers(ask) \/ MatchReference(s, ask) # NoMatch)
  BY <1>1, <1>2, <1>4, ResolvedIff
<1>7. ~Dropped(l, ask)
  BY <1>5, <1>6, DroppedByNodes
<1>8. MatchReference(s, ask) # NoMatch =>
        MatchReference(l, ask) # NoMatch /\ MatchReference(l, ask).conf >= 60
  BY <1>1, <1>3, <1>5, MatchGrows
<1> QED BY <1>1, <1>6, <1>7, <1>8, ResolvedIff

(* AnswersStable, for any project and reference: an answer is a stored node;     *)
(* whether there is one, and its confidence, are the same in whatever order the  *)
(* files were stored (the fuzzy tier aside); and a file more loses no reference  *)
(* but those of an ambiguous path and those whose candidates are all foreign.    *)
THEOREM AnswersAreStable == Spec => []AnswersStable
<1>1. ResolverInv => AnswersStable
  BY InvTypes, InvOrder, InvGrowth DEF AnswersStable
<1> QED BY <1>1, Reached, PTL
=============================================================================
