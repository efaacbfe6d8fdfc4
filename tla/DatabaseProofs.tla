---------------------------- MODULE DatabaseProofs ----------------------------
(***************************************************************************)
(* What a search and an open of the database may rely on, for any number of *)
(* processes, files, texts and migrations, crashes and restores.            *)
(***************************************************************************)
EXTENDS Database, SequenceTheorems, WellFoundedInduction, TLAPS

-----------------------------------------------------------------------------
(* The inductive invariant.  First what a file holds, whatever was done to it: *)
(* rowids are in a range, the schema grew in the order of the versions.       *)

Row == Id \X Text
Rows == UNION {[D -> Row] : D \in SUBSET (1..MaxRow + 1)}
Content ==
  [rows : Rows, fts : SUBSET (Nat \X Row), triggers : SUBSET Sync,
   table : {"none", "old", "new"}, made : SUBSET (1..6),
   versions : SUBSET ({1} \union Versions), lock : Conn \union {NoConn}]

Grown(s) ==
  /\ \A v \in s.versions, w \in {1} \union Versions : w < v => w \in s.versions
  /\ s.versions \ {1, 6} \subseteq s.made
  /\ 6 \in s.versions => s.table = "new"

(* A file that may be searched has all of its rows in its full-text index.    *)
Complete(s) == 6 \in s.versions => s.fts = Exact(s.rows)

SameSchema(s, t) ==
  /\ t.triggers = s.triggers /\ t.table = s.table
  /\ t.made = s.made /\ t.versions = s.versions

(* Processes. *)
Loads == {"dropping", "loading", "after", "undoing"}
Running == {"ready"} \union Loads

TypeInv ==
  /\ store \in Seq(Content) /\ \A i \in 1..Len(store) : Grown(store[i])
  /\ live \in 0..Len(store) /\ backup \in 0..Len(store)
  /\ at \in [Conn -> 0..Len(store)]
  /\ pc \in [Conn -> {"closed", "schema", "migrating", "lost"} \union Running]
  /\ todo = [c \in Conn |-> todo[c]] /\ draft = [c \in Conn |-> draft[c]]
  /\ \A c \in Conn : pc[c] = "closed" <=> at[c] = 0

(* A transaction is open in the one process that is loading. *)
LockInv ==
  \A i \in 1..Len(store) :
    store[i].lock # NoConn => at[store[i].lock] = i /\ pc[store[i].lock] = "loading"

(* Two that opened one file before it was current are both lost.              *)
TurnInv ==
  \A c, d \in Conn : Opening(c) /\ Opening(d) /\ at[c] = at[d] /\ ~Current(Here(c)) => c = d

(* Of a file that is spoiled nobody knows what it holds, and of no other.     *)
LostInv == 0 \notin spoiled /\ \A c \in Conn : at[c] \in spoiled <=> pc[c] = "lost"

(* A process that dropped the triggers and will make them again ... *)
Owes(c) ==
  \/ pc[c] \in {"dropping", "loading"}
  \/ pc[c] \in {"after", "undoing"} /\ todo[c] \in {AfterLoad, AfterFailedLoad}

(* ... is the only reason why file i may lack them, unless it is torn.        *)
Armed(i) ==
  \/ store[i].triggers = Sync
  \/ i \in torn
  \/ \E d \in Conn : at[d] = i /\ Owes(d)

(* What is left of a list of statements from the k-th on.                     *)
Rest(l, k) == SubSeq(l, k, Len(l))
Then(a, b) == a \o b
DropTriggers == For(0, << "drop_nodes_ai", "drop_nodes_ad" >>)

(* What a process that opened its file finds there while it has it.           *)
RunInv(c) ==
  /\ pc[c] \in {"closed", "ready", "loading", "lost"} => todo[c] = <<>>
  /\ pc[c] = "dropping" => \E k \in 1..3 : todo[c] = Rest(DropTriggers, k)
  /\ pc[c] = "after" => \E k \in 1..3 : todo[c] = Rest(AfterLoad, k)
  /\ pc[c] = "undoing" => \E k \in 2..3 : todo[c] = Rest(AfterLoad, k)
  /\ pc[c] \in Loads => c \in Loaders
  /\ pc[c] \in Running => Whole(Here(c)) /\ Armed(at[c])

(* The draft of a load differs from its file in rows and index. *)
DraftInv(c) ==
  pc[c] = "loading" =>
    /\ Here(c).lock = c
    /\ draft[c].content \in Content /\ draft[c].content.lock = NoConn
    /\ SameSchema(Here(c), draft[c].content)

(* An open, statement by statement: what the first k - 1 have left.           *)
Alone(c) == Loaders \subseteq {c} => Here(c).triggers = Sync
Made(c) == Armed(at[c]) /\ Alone(c)

SchemaInv(c) ==
  pc[c] = "schema" =>
    \E k \in 1..4 :
      /\ todo[c] = Rest(Schema, k)
      /\ k > 1 => 1 \in Here(c).versions
      /\ k > 2 => Here(c).table # "none"
      /\ k > 3 => Made(c)

(* The migrations from version v on; a file that has those before v.          *)
Part(v) == IF v \in Versions THEN Statements(v) ELSE <<>>
From5 == Part(5) \o Part(6)
From4 == Part(4) \o From5
From3 == Part(3) \o From4
From2 == Part(2) \o From3
From(v) ==
  CASE v = 2 -> From2 [] v = 3 -> From3 [] v = 4 -> From4 [] v = 5 -> From5
    [] v = 6 -> Part(6) [] v = 7 -> <<>>
UpTo(s, v) == s.versions = {1} \union {w \in Versions : w < v}

OlderInv(c) ==
  \E v \in Versions \ {6}, k \in 1..2 :
    /\ todo[c] = Then(Rest(Statements(v), k), From(v + 1))
    /\ UpTo(Here(c), v) /\ Here(c).table # "none"
    /\ k = 2 => v \in Here(c).made

(* What the first k - 1 statements of migration 6 have made of a file. *)
SixStage(s, k) ==
  /\ k = 2 => "nodes_ai" \notin s.triggers
  /\ k \in 3..6 => s.triggers = {}
  /\ k = 4 => s.table = "none"
  /\ k > 4 => s.table = "new"
  /\ k > 5 => s.fts = Exact(s.rows)
  /\ k = 7 => s.triggers = {"nodes_ai"}
  /\ k > 7 => s.triggers = Sync

SixInv(c) ==
  \E k \in 1..8 :
    todo[c] = Rest(Statements(6), k) /\ UpTo(Here(c), 6) /\ SixStage(Here(c), k)

MigrateInv(c) ==
  pc[c] = "migrating" =>
    \/ todo[c] = <<>> /\ UpTo(Here(c), 7) /\ Made(c)
    \/ OlderInv(c)
    \/ SixInv(c)

ProcessInv ==
  \A c \in Conn : RunInv(c) /\ DraftInv(c) /\ SchemaInv(c) /\ MigrateInv(c)

(* Only a load that did not yet rebuild leaves an index behind.               *)
Rebuilder(c) == pc[c] \in {"dropping", "loading"} \/ (pc[c] = "after" /\ todo[c] = AfterLoad)
Rebuilds(i) == \E c \in Conn : at[c] = i /\ Rebuilder(c)
IndexInv == \A i \in 1..Len(store) \ torn : Rebuilds(i) \/ Complete(store[i])

SnapInv ==
  /\ restoring => snap # <<>>
  /\ snap # <<>> =>
       /\ snap[1].content \in Content /\ Grown(snap[1].content)
       /\ snap[1].content.lock = NoConn
       /\ snap[1].torn \/ Complete(snap[1].content)

Inv == TypeInv /\ LockInv /\ TurnInv /\ LostInv /\ ProcessInv /\ IndexInv /\ SnapInv

-----------------------------------------------------------------------------
(* Lists of statements: what is first, and what is left after it.             *)

LEMMA ConcatStep ==
  ASSUME NEW S, NEW a \in Seq(S), NEW m \in Seq(S), a # <<>>
  PROVE  a \o m # <<>> /\ Head(a \o m) = Head(a) /\ Tail(a \o m) = Tail(a) \o m
<1>0. Len(a) \in Nat \ {0} /\ Len(m) \in Nat
  BY EmptySeq
<1>1. /\ a \o m \in Seq(S) /\ Len(a \o m) = Len(a) + Len(m)
      /\ \A i \in 1 .. Len(a) + Len(m) :
           (a \o m)[i] = IF i <= Len(a) THEN a[i] ELSE m[i - Len(a)]
  BY ConcatProperties
<1>2. /\ Tail(a) \in Seq(S) /\ Len(Tail(a)) = Len(a) - 1
      /\ \A i \in 1 .. Len(a) - 1 : Tail(a)[i] = a[i + 1]
  BY HeadTailProperties
<1>3. a \o m # <<>>
  BY <1>0, <1>1, LenProperties
<1>4. /\ Tail(a \o m) \in Seq(S) /\ Len(Tail(a \o m)) = Len(a) + Len(m) - 1
      /\ \A i \in 1 .. Len(a) + Len(m) - 1 : Tail(a \o m)[i] = (a \o m)[i + 1]
  BY <1>1, <1>3, HeadTailProperties
<1>5. /\ Tail(a) \o m \in Seq(S) /\ Len(Tail(a) \o m) = Len(a) - 1 + Len(m)
      /\ \A i \in 1 .. Len(a) - 1 + Len(m) :
           (Tail(a) \o m)[i] = IF i <= Len(a) - 1 THEN Tail(a)[i] ELSE m[i - (Len(a) - 1)]
  BY <1>2, ConcatProperties
<1>6. ASSUME NEW i \in 1 .. Len(a) - 1 + Len(m)
      PROVE  Tail(a \o m)[i] = (Tail(a) \o m)[i]
  <2>1. Tail(a \o m)[i] = (a \o m)[i + 1]
    BY <1>0, <1>4
  <2>2. CASE i <= Len(a) - 1
    <3>1. (a \o m)[i + 1] = a[i + 1]
      BY <1>0, <1>1, <2>2
    <3>2. (Tail(a) \o m)[i] = a[i + 1]
      BY <1>0, <1>2, <1>5, <2>2
    <3> QED
      BY <2>1, <3>1, <3>2
  <2>3. CASE i > Len(a) - 1
    <3>1. (a \o m)[i + 1] = m[i + 1 - Len(a)]
      BY <1>0, <1>1, <2>3
    <3>2. (Tail(a) \o m)[i] = m[i - (Len(a) - 1)]
      BY <1>0, <1>2, <1>5, <2>3
    <3>3. i + 1 - Len(a) = i - (Len(a) - 1)
      BY <1>0
    <3> QED
      BY <2>1, <3>1, <3>2, <3>3
  <2> QED
    BY <1>0, <2>2, <2>3
<1>7. Tail(a \o m) = Tail(a) \o m
  BY <1>4, <1>5, <1>6, SeqEqual
<1>8. Head(a \o m) = Head(a)
  BY <1>0, <1>1, <1>3
<1> QED
  BY <1>3, <1>7, <1>8

LEMMA RestStep ==
  ASSUME NEW S, NEW l \in Seq(S), NEW k \in 1 .. Len(l)
  PROVE  Rest(l, k) # <<>> /\ Head(Rest(l, k)) = l[k] /\ Tail(Rest(l, k)) = Rest(l, k + 1)
<1>1. Rest(l, k) \in Seq(S) /\ Len(Rest(l, k)) = Len(l) - k + 1
  BY DEF Rest
<1>2. Rest(l, k) # <<>>
  BY <1>1
<1>3. Head(Rest(l, k)) = l[k] /\ Tail(Rest(l, k)) = Rest(l, k + 1)
  BY HeadTailOfSubSeq DEF Rest
<1> QED
  BY <1>2, <1>3

LEMMA RestMore ==
  ASSUME NEW S, NEW l \in Seq(S), NEW k \in 1 .. Len(l), NEW m \in Seq(S)
  PROVE  /\ Then(Rest(l, k), m) # <<>> /\ Head(Then(Rest(l, k), m)) = l[k]
         /\ Tail(Then(Rest(l, k), m)) = Then(Rest(l, k + 1), m)
<1> DEFINE a == Rest(l, k)
<1>1. a \in Seq(S)
  BY DEF Rest
<1>2. a # <<>> /\ Head(a) = l[k] /\ Tail(a) = Rest(l, k + 1)
  BY RestStep
<1> HIDE DEF a
<1>3. a \o m # <<>> /\ Head(a \o m) = Head(a) /\ Tail(a \o m) = Tail(a) \o m
  BY <1>1, <1>2, ConcatStep
<1> QED
  BY <1>2, <1>3 DEF a, Then

LEMMA RestEnds ==
  ASSUME NEW S, NEW l \in Seq(S)
  PROVE  Rest(l, 1) = l /\ Rest(l, Len(l) + 1) = <<>>
BY SubSeqFull, SubSeqEmpty DEF Rest

Words ==
  {"record_if_missing", "fts_if_missing", "triggers_if_missing", "alter", "record",
   "drop_nodes_ai", "drop_nodes_ad", "drop_fts", "create_fts", "rebuild",
   "create_nodes_ai", "create_nodes_ad"}
Stats == Words \X Nat
Word(st) == st[1]
Migration(st) == st[2]

LEMMA ForStats ==
  ASSUME NEW v \in Nat, NEW names \in Seq(Words), NEW l, l = For(v, names)
  PROVE  /\ l \in Seq(Stats) /\ Len(l) = Len(names)
         /\ \A i \in 1 .. Len(names) : Word(l[i]) = names[i]
         /\ \A i \in 1 .. Len(names) : Migration(l[i]) = v
<1>1. l = [i \in 1 .. Len(names) |-> <<names[i], v>>]
  BY DEF For
<1>2. \A i \in 1 .. Len(names) : <<names[i], v>> \in Stats
  BY DEF Stats
<1>3. l \in Seq(Stats) /\ Len(l) = Len(names)
  BY <1>1, <1>2
<1>4. \A i \in 1 .. Len(names) : l[i] = <<names[i], v>>
  BY <1>1
<1>5. \A i \in 1 .. Len(names) : Word(l[i]) = names[i]
  BY <1>4 DEF Word
<1>6. \A i \in 1 .. Len(names) : Migration(l[i]) = v
  BY <1>4 DEF Migration
<1> QED
  BY <1>3, <1>5, <1>6

LEMMA SixStatements ==
  /\ Statements(6) \in Seq(Stats) /\ Len(Statements(6)) = 8
  /\ \A i \in 1 .. 8 : Migration(Statements(6)[i]) = 6
  /\ Word(Statements(6)[1]) = "drop_nodes_ai" /\ Word(Statements(6)[2]) = "drop_nodes_ad"
  /\ Word(Statements(6)[3]) = "drop_fts" /\ Word(Statements(6)[4]) = "create_fts"
  /\ Word(Statements(6)[5]) = "rebuild" /\ Word(Statements(6)[6]) = "create_nodes_ai"
  /\ Word(Statements(6)[7]) = "create_nodes_ad" /\ Word(Statements(6)[8]) = "record"
<1> DEFINE n == << "drop_nodes_ai", "drop_nodes_ad", "drop_fts", "create_fts",
                   "rebuild", "create_nodes_ai", "create_nodes_ad", "record" >>
<1>1. Len(n) = 8
  OBVIOUS
<1>2. n \in Seq(Words)
  BY DEF Words
<1>3. Statements(6) = For(6, n)
  BY DEF Statements
<1>4. /\ n[1] = "drop_nodes_ai" /\ n[2] = "drop_nodes_ad" /\ n[3] = "drop_fts"
      /\ n[4] = "create_fts" /\ n[5] = "rebuild" /\ n[6] = "create_nodes_ai"
      /\ n[7] = "create_nodes_ad" /\ n[8] = "record"
  OBVIOUS
<1>5. 6 \in Nat
  OBVIOUS
<1> HIDE DEF n
<1>6. /\ Statements(6) \in Seq(Stats) /\ Len(Statements(6)) = Len(n)
      /\ \A i \in 1 .. Len(n) : Word(Statements(6)[i]) = n[i]
      /\ \A i \in 1 .. Len(n) : Migration(Statements(6)[i]) = 6
  BY <1>2, <1>3, <1>5, ForStats
<1> QED
  BY <1>1, <1>4, <1>6

LEMMA OlderStatements ==
  ASSUME NEW v \in Nat, v # 6
  PROVE  /\ Statements(v) \in Seq(Stats) /\ Len(Statements(v)) = 2
         /\ \A i \in 1 .. 2 : Migration(Statements(v)[i]) = v
         /\ Word(Statements(v)[1]) = "alter" /\ Word(Statements(v)[2]) = "record"
<1> DEFINE n == << "alter", "record" >>
<1>1. Len(n) = 2
  OBVIOUS
<1>2. n \in Seq(Words)
  BY DEF Words
<1>3. Statements(v) = For(v, n)
  BY DEF Statements
<1>4. /\ n[1] = "alter" /\ n[2] = "record"
  OBVIOUS
<1>5. v \in Nat
  OBVIOUS
<1> HIDE DEF n
<1>6. /\ Statements(v) \in Seq(Stats) /\ Len(Statements(v)) = Len(n)
      /\ \A i \in 1 .. Len(n) : Word(Statements(v)[i]) = n[i]
      /\ \A i \in 1 .. Len(n) : Migration(Statements(v)[i]) = v
  BY <1>2, <1>3, <1>5, ForStats
<1> QED
  BY <1>1, <1>4, <1>6

LEMMA SchemaStatements ==
  /\ Schema \in Seq(Stats) /\ Len(Schema) = 3
  /\ \A i \in 1 .. 3 : Migration(Schema[i]) = 1
  /\ Word(Schema[1]) = "record_if_missing" /\ Word(Schema[2]) = "fts_if_missing"
  /\ Word(Schema[3]) = "triggers_if_missing"
<1> DEFINE n == << "record_if_missing", "fts_if_missing", "triggers_if_missing" >>
<1>1. Len(n) = 3
  OBVIOUS
<1>2. n \in Seq(Words)
  BY DEF Words
<1>3. Schema = For(1, n)
  BY DEF Schema
<1>4. /\ n[1] = "record_if_missing" /\ n[2] = "fts_if_missing" /\ n[3] = "triggers_if_missing"
  OBVIOUS
<1>5. 1 \in Nat
  OBVIOUS
<1> HIDE DEF n
<1>6. /\ Schema \in Seq(Stats) /\ Len(Schema) = Len(n)
      /\ \A i \in 1 .. Len(n) : Word(Schema[i]) = n[i]
      /\ \A i \in 1 .. Len(n) : Migration(Schema[i]) = 1
  BY <1>2, <1>3, <1>5, ForStats
<1> QED
  BY <1>1, <1>4, <1>6

LEMMA DropStatements ==
  /\ DropTriggers \in Seq(Stats) /\ Len(DropTriggers) = 2
  /\ \A i \in 1 .. 2 : Migration(DropTriggers[i]) = 0
  /\ Word(DropTriggers[1]) = "drop_nodes_ai" /\ Word(DropTriggers[2]) = "drop_nodes_ad"
<1> DEFINE n == << "drop_nodes_ai", "drop_nodes_ad" >>
<1>1. Len(n) = 2
  OBVIOUS
<1>2. n \in Seq(Words)
  BY DEF Words
<1>3. DropTriggers = For(0, n)
  BY DEF DropTriggers
<1>4. /\ n[1] = "drop_nodes_ai" /\ n[2] = "drop_nodes_ad"
  OBVIOUS
<1>5. 0 \in Nat
  OBVIOUS
<1> HIDE DEF n
<1>6. /\ DropTriggers \in Seq(Stats) /\ Len(DropTriggers) = Len(n)
      /\ \A i \in 1 .. Len(n) : Word(DropTriggers[i]) = n[i]
      /\ \A i \in 1 .. Len(n) : Migration(DropTriggers[i]) = 0
  BY <1>2, <1>3, <1>5, ForStats
<1> QED
  BY <1>1, <1>4, <1>6

LEMMA AfterStatements ==
  /\ AfterLoad \in Seq(Stats) /\ Len(AfterLoad) = 2
  /\ \A i \in 1 .. 2 : Migration(AfterLoad[i]) = 0
  /\ Word(AfterLoad[1]) = "rebuild" /\ Word(AfterLoad[2]) = "triggers_if_missing"
<1> DEFINE n == << "rebuild", "triggers_if_missing" >>
<1>1. Len(n) = 2
  OBVIOUS
<1>2. n \in Seq(Words)
  BY DEF Words
<1>3. AfterLoad = For(0, n)
  BY DEF AfterLoad
<1>4. /\ n[1] = "rebuild" /\ n[2] = "triggers_if_missing"
  OBVIOUS
<1>5. 0 \in Nat
  OBVIOUS
<1> HIDE DEF n
<1>6. /\ AfterLoad \in Seq(Stats) /\ Len(AfterLoad) = Len(n)
      /\ \A i \in 1 .. Len(n) : Word(AfterLoad[i]) = n[i]
      /\ \A i \in 1 .. Len(n) : Migration(AfterLoad[i]) = 0
  BY <1>2, <1>3, <1>5, ForStats
<1> QED
  BY <1>1, <1>4, <1>6

LEMMA AfterRebuild == Rest(AfterLoad, 2) = AfterFailedLoad /\ AfterFailedLoad # AfterLoad
<1> DEFINE t == << "triggers_if_missing" >>
           r == << "rebuild", "triggers_if_missing" >>
<1>1. t \in Seq(Words)
  BY DEF Words
<1>2. AfterFailedLoad = For(0, t) /\ AfterLoad = For(0, r)
  BY DEF AfterLoad, AfterFailedLoad
<1>3. Len(t) = 1 /\ t[1] = r[2]
  OBVIOUS
<1>4. For(0, r)[2] = << r[2], 0 >> /\ For(0, t)[1] = << t[1], 0 >>
  BY DEF For
<1> HIDE DEF t, r
<1>5. AfterFailedLoad \in Seq(Stats) /\ Len(AfterFailedLoad) = 1
  BY <1>1, <1>2, <1>3, ForStats, 0 \in Nat
<1>6. AfterLoad[2] = AfterFailedLoad[1]
  BY <1>2, <1>3, <1>4
<1>7. Rest(AfterLoad, 2) \in Seq(Stats) /\ Len(Rest(AfterLoad, 2)) = 1
  BY AfterStatements DEF Rest
<1>8. Rest(AfterLoad, 2)[1] = AfterLoad[2]
  BY AfterStatements DEF Rest
<1>9. Rest(AfterLoad, 2) = AfterFailedLoad
  BY <1>5, <1>6, <1>7, <1>8, SeqEqual
<1>10. AfterFailedLoad # AfterLoad
  BY <1>5, AfterStatements
<1> QED
  BY <1>9, <1>10

LEMMA AfterHasRebuild ==
  <<"rebuild", 0>> \in Range(AfterLoad) /\ <<"rebuild", 0>> \notin Range(AfterFailedLoad)
<1> DEFINE r == << "rebuild", "triggers_if_missing" >>
<1>1. For(0, r)[1] = << "rebuild", 0 >> /\ 1 \in DOMAIN For(0, r)
  BY DEF For
<1>2. \A i \in DOMAIN AfterFailedLoad : AfterFailedLoad[i] # << "rebuild", 0 >>
  BY DEF For, AfterFailedLoad
<1> QED
  BY <1>1, <1>2 DEF AfterLoad, Range

LEMMA PartStats ==
  ASSUME NEW v \in 2 .. 6
  PROVE  Part(v) \in Seq(Stats)
<1>1. <<>> \in Seq(Stats)
  BY EmptySeq
<1>2. v = 6 \/ (v \in Nat /\ v # 6)
  OBVIOUS
<1> QED
  BY <1>1, <1>2, SixStatements, OlderStatements DEF Part

(* The migrations from v on are those of v and those from v + 1 on.           *)
LEMMA FromStep ==
  /\ From(7) = <<>> /\ \A v \in 2 .. 7 : From(v) \in Seq(Stats)
  /\ \A v \in 2 .. 6 : From(v) = Part(v) \o From(v + 1)
<1> DEFINE S == Seq(Stats)
<1>1. Part(2) \in S /\ Part(3) \in S /\ Part(4) \in S /\ Part(5) \in S /\ Part(6) \in S
  BY PartStats
<1>2. From(7) = <<>> /\ From(7) \in S
  BY EmptySeq DEF From
<1>3. From(6) = Part(6) /\ From(6) \in S
  BY <1>1 DEF From
<1>4. From(6) = Part(6) \o From(7)
  BY <1>1, <1>2, <1>3, ConcatEmptySeq
<1> HIDE DEF S
<1>5. \A a, b \in S : a \o b \in S
  BY ConcatProperties DEF S
<1>6. From(5) = Part(5) \o From(6) /\ From(5) \in S
  BY <1>1, <1>3, <1>5 DEF From, From5
<1>7. From(4) = Part(4) \o From(5) /\ From(4) \in S
  BY <1>1, <1>5, <1>6 DEF From, From4
<1>8. From(3) = Part(3) \o From(4) /\ From(3) \in S
  BY <1>1, <1>5, <1>7 DEF From, From3
<1>9. From(2) = Part(2) \o From(3) /\ From(2) \in S
  BY <1>1, <1>5, <1>8 DEF From, From2
<1>10. \A v \in 2 .. 7 : From(v) \in S
  <2>1. \A v \in 2 .. 7 : v = 2 \/ v = 3 \/ v = 4 \/ v = 5 \/ v = 6 \/ v = 7
    OBVIOUS
  <2> QED
    BY <1>2, <1>3, <1>6, <1>7, <1>8, <1>9, <2>1
<1>11. ASSUME NEW v \in 2 .. 6
       PROVE  From(v) = Part(v) \o From(v + 1)
  <2>1. CASE v = 2
    BY <1>9, <2>1
  <2>2. CASE v = 3
    BY <1>8, <2>2
  <2>3. CASE v = 4
    BY <1>7, <2>3
  <2>4. CASE v = 5
    BY <1>6, <2>4
  <2>5. CASE v = 6
    BY <1>4, <2>5
  <2> QED
    BY <2>1, <2>2, <2>3, <2>4, <2>5
<1> QED
  BY <1>2, <1>10, <1>11 DEF S

LEMMA FromSkip ==
  ASSUME NEW v \in 2 .. 6, v \notin Versions
  PROVE  From(v) = From(v + 1)
<1>1. Part(v) = <<>> /\ v + 1 \in 2 .. 7
  BY DEF Part
<1>2. From(v + 1) \in Seq(Stats)
  BY <1>1, FromStep
<1> QED
  BY <1>1, <1>2, FromStep, ConcatEmptySeq

(* The first of the migrations from v on: those between are not there.        *)
LEMMA NextMigration ==
  ASSUME NEW v \in 1 .. 6, NEW s, UpTo(s, v + 1)
  PROVE  \/ v = 6 /\ From(v + 1) = <<>>
         \/ \E u \in Versions : From(v + 1) = From(u) /\ UpTo(s, u)
<1> USE VersionsAssumption
<1>1. CASE v = 6
  BY <1>1, FromStep
<1>2. CASE v # 6
  <2> DEFINE Q(u) == u \in 2 .. 6 /\ From(v + 1) = From(u) /\ UpTo(s, u)
  <2>1. Q(v + 1)
    BY <1>2
  <2>2. ASSUME NEW u \in 2 .. 5, Q(u), u \notin Versions
        PROVE  Q(u + 1)
    <3>1. From(u) = From(u + 1)
      BY <2>2, FromSkip
    <3>2. {w \in Versions : w < u} = {w \in Versions : w < u + 1}
      <4>1. \A w \in Versions : w < u <=> w < u + 1
        BY <2>2
      <4> QED
        BY <4>1
    <3> QED
      BY <2>2, <3>1, <3>2 DEF UpTo
  <2> HIDE DEF Q
  <2>3. \E u \in Versions : Q(u)
    <3>1. v + 1 \in {2, 3, 4, 5, 6}
      BY <1>2
    <3>2. Q(6) => \E u \in Versions : Q(u)
      OBVIOUS
    <3>3. Q(5) => \E u \in Versions : Q(u)
      BY <2>2, <3>2
    <3>4. Q(4) => \E u \in Versions : Q(u)
      BY <2>2, <3>3
    <3>5. Q(3) => \E u \in Versions : Q(u)
      BY <2>2, <3>4
    <3>6. Q(2) => \E u \in Versions : Q(u)
      BY <2>2, <3>5
    <3> QED
      BY <2>1, <3>1, <3>2, <3>3, <3>4, <3>5, <3>6
  <2> QED
    BY <2>3 DEF Q
<1> QED
  BY <1>1, <1>2

(* A file whose schema is there has the migrations up to its newest, and those  *)
(* after it are pending.                                                    *)
LEMMA PendingIs ==
  ASSUME NEW s, s.versions \subseteq {1} \union Versions, Grown(s), 1 \in s.versions
  PROVE  \E n \in 1 .. 6 : UpTo(s, n + 1) /\ Pending(s) = From(n + 1)
<1> USE VersionsAssumption
<1> DEFINE S == {0} \union s.versions
           n == Newest(s)
<1>1. 0 \in S /\ \A x \in S : x \in 0 .. 6
  OBVIOUS
<1>2. \E x \in S : \A y \in S : x >= y
  <2> HIDE DEF S
  <2> QED
    BY <1>1
<1>3. n \in S /\ \A y \in S : n >= y
  BY <1>2 DEF Newest, Max
<1> HIDE DEF n
<1>4. n \in s.versions /\ n \in 1 .. 6
  BY <1>1, <1>3
<1>5. s.versions = {1} \union {w \in Versions : w <= n}
  <2>1. \A w \in Versions : w <= n => w \in s.versions
    BY <1>4 DEF Grown
  <2> QED
    BY <1>1, <1>3, <2>1
<1>6. {w \in Versions : w <= n} = {w \in Versions : w < n + 1}
  <2>1. \A w \in Versions : w <= n <=> w < n + 1
    BY <1>4
  <2> QED
    BY <2>1
<1>7. UpTo(s, n + 1)
  BY <1>5, <1>6 DEF UpTo
<1> DEFINE part(v) == IF v \in Versions /\ v > n THEN Statements(v) ELSE <<>>
<1> DEFINE p5 == part(5) \o part(6)
           p4 == part(4) \o p5
           p3 == part(3) \o p4
           p2 == part(2) \o p3
           Starts(p, k) == p = IF k > n THEN From(k) ELSE From(n + 1)
<1>8. Pending(s) = p2
  BY DEF Pending, n
<1>9. \A v \in 2 .. 6 : part(v) = IF v > n THEN Part(v) ELSE <<>>
  BY DEF Part
<1>10. ASSUME NEW k \in 2 .. 6, NEW p, NEW m, m = k + 1, Starts(p, m)
       PROVE  Starts(part(k) \o p, k)
  <2>1. CASE k > n
    <3>1. part(k) = Part(k) /\ p = From(k + 1)
      BY <1>4, <1>9, <1>10, <2>1
    <3> QED
      BY <2>1, <3>1, FromStep
  <2>2. CASE ~(k > n)
    <3>1. part(k) = <<>> /\ p = From(n + 1)
      <4>1. k + 1 > n => k + 1 = n + 1
        BY <1>4, <2>2
      <4> QED
        BY <1>9, <1>10, <2>2, <4>1
    <3>2. p \in Seq(Stats)
      <4>1. n + 1 \in 2 .. 7
        BY <1>4
      <4> QED
        BY <3>1, <4>1, FromStep
    <3>3. part(k) \o p = p
      BY <3>1, <3>2, ConcatEmptySeq
    <3> QED
      BY <2>2, <3>1, <3>3
  <2> QED
    BY <2>1, <2>2
<1>11. Starts(part(6), 6)
  <2>1. From(6) = Part(6) /\ From(7) = <<>>
    BY DEF From
  <2>2. 6 > n \/ n = 6
    BY <1>4
  <2> QED
    BY <1>9, <2>1, <2>2
<1> HIDE DEF part, Starts
<1>12. Starts(p5, 5)
  BY <1>10, <1>11, 6 = 5 + 1
<1> HIDE DEF p5
<1>13. Starts(p4, 4)
  BY <1>10, <1>12, 5 = 4 + 1
<1> HIDE DEF p4
<1>14. Starts(p3, 3)
  BY <1>10, <1>13, 4 = 3 + 1
<1> HIDE DEF p3
<1>15. Starts(p2, 2)
  BY <1>10, <1>14, 3 = 2 + 1
<1> HIDE DEF p2
<1>16. Pending(s) = From(n + 1)
  <2>1. 2 > n => n = 1
    BY <1>4
  <2> QED
    BY <1>8, <1>15, <2>1 DEF Starts
<1> QED
  BY <1>4, <1>7, <1>16

(* Statements are left in the middle of a migration.                          *)
LEMMA OlderLeft ==
  ASSUME NEW v \in Versions \ {6}, NEW k \in 1 .. 2, NEW l,
         l = Then(Rest(Statements(v), k), From(v + 1))
  PROVE  /\ l # <<>> /\ Head(l) = Statements(v)[k]
         /\ Head(l)[1] = IF k = 1 THEN "alter" ELSE "record"
         /\ Head(l)[2] = v
         /\ Tail(l) = Then(Rest(Statements(v), k + 1), From(v + 1))
         /\ k = 2 => Tail(l) = From(v + 1)
<1>1. v \in 2 .. 5
  BY VersionsAssumption
<1>2. /\ Statements(v) \in Seq(Stats) /\ Len(Statements(v)) = 2
      /\ \A i \in 1 .. 2 : Migration(Statements(v)[i]) = v
      /\ Word(Statements(v)[1]) = "alter" /\ Word(Statements(v)[2]) = "record"
  BY <1>1, OlderStatements
<1>3. From(v + 1) \in Seq(Stats)
  <2>1. v + 1 \in 2 .. 7
    BY <1>1
  <2> QED
    BY <2>1, FromStep
<1>4. /\ l # <<>> /\ Head(l) = Statements(v)[k]
      /\ Tail(l) = Then(Rest(Statements(v), k + 1), From(v + 1))
  <2> DEFINE all == Statements(v)
             next == From(v + 1)
  <2>1. all \in Seq(Stats) /\ k \in 1 .. Len(all) /\ next \in Seq(Stats)
    BY <1>2, <1>3
  <2>2. l = Then(Rest(all, k), next)
    OBVIOUS
  <2> HIDE DEF all, next
  <2>3. l # <<>> /\ Head(l) = all[k] /\ Tail(l) = Then(Rest(all, k + 1), next)
    BY <2>1, <2>2, RestMore
  <2> QED
    BY <2>3 DEF all, next
<1>5. k = 2 => Tail(l) = From(v + 1)
  <2>1. Rest(Statements(v), 3) = <<>>
    BY <1>2, RestEnds, 2 + 1 = 3
  <2> QED
    BY <1>3, <1>4, <2>1, ConcatEmptySeq DEF Then
<1>6. Head(l)[1] = IF k = 1 THEN "alter" ELSE "record"
  BY <1>2, <1>4 DEF Word
<1>7. Head(l)[2] = v
  BY <1>2, <1>4 DEF Migration
<1> QED
  BY <1>4, <1>5, <1>6, <1>7

LEMMA SixLeft ==
  ASSUME NEW k \in 1 .. 8, NEW l, l = Rest(Statements(6), k)
  PROVE  /\ l # <<>> /\ Head(l) = Statements(6)[k] /\ Head(l)[2] = 6
         /\ Tail(l) = Rest(Statements(6), k + 1)
         /\ k = 8 => Tail(l) = <<>>
<1>1. Statements(6) \in Seq(Stats) /\ Len(Statements(6)) = 8
  BY SixStatements
<1>2. l # <<>> /\ Head(l) = Statements(6)[k] /\ Tail(l) = Rest(Statements(6), k + 1)
  BY <1>1, RestStep
<1>3. Rest(Statements(6), 9) = <<>>
  BY <1>1, RestEnds, 8 + 1 = 9
<1>4. Head(l)[2] = 6
  BY <1>2, SixStatements DEF Migration
<1> QED
  BY <1>2, <1>3, <1>4

LEMMA LeftToRun ==
  ASSUME NEW c, OlderInv(c) \/ SixInv(c)
  PROVE  todo[c] # <<>>
<1>1. OlderInv(c) => todo[c] # <<>>
  BY OlderLeft DEF OlderInv
<1>2. SixInv(c) => todo[c] # <<>>
  BY SixLeft DEF SixInv
<1> QED
  BY <1>1, <1>2

-----------------------------------------------------------------------------
(* Rows and their index.                                                    *)

(* A bounded set of numbers has a greatest: the least of its upper bounds.    *)
LEMMA MaxExists ==
  ASSUME NEW n \in Nat, NEW D, D \subseteq 0 .. n, D # {}
  PROVE  Max(D) \in D /\ \A x \in D : x <= Max(D)
<1> DEFINE R == OpToRel(<, Nat)
           U == {b \in Nat : \A x \in D : x <= b}
<1>1. U \subseteq Nat /\ n \in U
  OBVIOUS
<1>2. IsWellFoundedOn(R, Nat)
  BY NatLessThanWellFounded
<1> HIDE DEF R
<1>3. \E b \in U : \A y \in U : <<y, b>> \notin R
  <2> HIDE DEF U
  <2>1. U # {}
    BY <1>1
  <2> QED
    BY <1>1, <1>2, <2>1, WFMin
<1>4. PICK b \in U : \A y \in U : <<y, b>> \notin R
  BY <1>3
<1>5. b \in D
  <2>1. SUFFICES ASSUME b \notin D PROVE FALSE
    OBVIOUS
  <2>2. \A x \in D : x \in Nat /\ x <= b /\ x # b
    BY <2>1
  <2>3. PICK x \in D : TRUE
    OBVIOUS
  <2>4. b - 1 \in Nat
    BY <2>2, <2>3
  <2>5. b - 1 \in U
    BY <2>2, <2>4
  <2>6. <<b - 1, b>> \in R
    BY <2>4 DEF R, OpToRel
  <2> QED
    BY <1>4, <2>5, <2>6
<1>6. \A x \in D : b >= x
  BY <1>4
<1> QED
  BY <1>5, <1>6 DEF Max

LEMMA RowsAre ==
  ASSUME NEW rows \in Rows
  PROVE  /\ DOMAIN rows \subseteq 1 .. MaxRow + 1
         /\ \A r \in DOMAIN rows : rows[r] \in Row
BY DEF Rows

LEMMA RowsFrom ==
  ASSUME NEW D, D \subseteq 1 .. MaxRow + 1, NEW f \in [D -> Row]
  PROVE  f \in Rows
BY DEF Rows

LEMMA NewRowIs ==
  ASSUME NEW rows \in Rows
  PROVE  /\ NewRow(rows) \in Nat \ {0} /\ NewRow(rows) \notin DOMAIN rows
         /\ \A r \in DOMAIN rows : r < NewRow(rows)
         /\ \A k \in Nat \ {0} : (\A r \in DOMAIN rows : r < k) => NewRow(rows) <= k
<1> DEFINE D == {0} \union DOMAIN rows
<1>1. MaxRow + 1 \in Nat
  BY BoundsAssumption
<1>2. D \subseteq 0 .. MaxRow + 1 /\ D # {}
  BY <1>1, RowsAre
<1>3. NewRow(rows) = Max(D) + 1
  BY DEF NewRow
<1> HIDE DEF D
<1>4. Max(D) \in D /\ \A x \in D : x <= Max(D)
  BY <1>1, <1>2, MaxExists
<1>5. \A x \in D : x \in Nat
  BY <1>1, <1>2
<1>6. Max(D) \in Nat
  BY <1>4, <1>5
<1>7. NewRow(rows) \in Nat \ {0}
  BY <1>3, <1>6
<1>9. \A x \in D : x < NewRow(rows) /\ x # NewRow(rows)
  BY <1>3, <1>4, <1>5, <1>6
<1>8. ASSUME NEW k \in Nat \ {0}, \A r \in DOMAIN rows : r < k
      PROVE  NewRow(rows) <= k
  <2>1. \A x \in D : x < k
    BY <1>8 DEF D
  <2> QED
    BY <1>3, <1>4, <1>5, <2>1
<1> QED
  BY <1>7, <1>8, <1>9 DEF D

LEMMA ExactRows ==
  ASSUME NEW rows \in Rows
  PROVE  Exact(rows) \in SUBSET (Nat \X Row)
<1>1. \A r \in DOMAIN rows : r \in Nat /\ rows[r] \in Row
  BY RowsAre
<1> QED
  BY <1>1 DEF Exact

(* What a deletion and an insertion leave.                                   *)
LEMMA WithoutIs ==
  ASSUME NEW s \in Content, NEW i, NEW w, w = Without(s, i)
  PROVE  /\ w \in Content /\ SameSchema(s, w) /\ w.lock = s.lock
         /\ DOMAIN w.rows \subseteq DOMAIN s.rows
         /\ s.triggers = Sync /\ s.fts = Exact(s.rows) => w.fts = Exact(w.rows)
<1> DEFINE gone == {r \in DOMAIN s.rows : s.rows[r][1] = i}
           left == [r \in DOMAIN s.rows \ gone |-> s.rows[r]]
           index == IF "nodes_ad" \in s.triggers
                    THEN s.fts \ {<<r, s.rows[r]>> : r \in gone} ELSE s.fts
<1>1. w = [s EXCEPT !.rows = left, !.fts = index]
  BY DEF Without
<1>2. s.rows \in Rows /\ s.fts \in SUBSET (Nat \X Row)
  BY DEF Content
<1>3. left \in Rows
  <2>1. DOMAIN s.rows \ gone \subseteq 1 .. MaxRow + 1
    BY <1>2, RowsAre
  <2>2. left \in [DOMAIN s.rows \ gone -> Row]
    BY <1>2, RowsAre
  <2> HIDE DEF left, gone
  <2> QED
    BY <2>1, <2>2, RowsFrom
<1>4. index \in SUBSET (Nat \X Row)
  BY <1>2
<1>5. ASSUME s.triggers = Sync, s.fts = Exact(s.rows)
      PROVE  index = Exact(left)
  <2>1. index = Exact(s.rows) \ {<<r, s.rows[r]>> : r \in gone}
    BY <1>5 DEF Sync
  <2>2. DOMAIN left = DOMAIN s.rows \ gone /\ \A r \in DOMAIN left : left[r] = s.rows[r]
    OBVIOUS
  <2>3. Exact(left) = {<<r, s.rows[r]>> : r \in DOMAIN s.rows \ gone}
    BY <2>2 DEF Exact
  <2>4. Exact(s.rows) = {<<r, s.rows[r]>> : r \in DOMAIN s.rows}
    BY DEF Exact
  <2> HIDE DEF left, index, gone
  <2> QED
    BY <2>1, <2>3, <2>4
<1>6. DOMAIN left \subseteq DOMAIN s.rows
  OBVIOUS
<1> HIDE DEF left, index
<1>7. w \in Content /\ SameSchema(s, w) /\ w.lock = s.lock /\ w.rows = left /\ w.fts = index
  BY <1>1, <1>3, <1>4 DEF Content, SameSchema
<1> QED
  BY <1>5, <1>6, <1>7

LEMMA WithIs ==
  ASSUME NEW s \in Content, NEW i \in Id, NEW t \in Text, NEW w, w = With(s, i, t),
         NewRow(s.rows) <= MaxRow + 1
  PROVE  /\ w \in Content /\ SameSchema(s, w) /\ w.lock = s.lock
         /\ s.triggers = Sync /\ s.fts = Exact(s.rows) => w.fts = Exact(w.rows)
<1> DEFINE r == NewRow(s.rows)
           more == [q \in DOMAIN s.rows \union {r} |-> IF q = r THEN <<i, t>> ELSE s.rows[q]]
           index == IF "nodes_ai" \in s.triggers
                    THEN s.fts \union {<<r, <<i, t>>>>} ELSE s.fts
<1>1. w = [s EXCEPT !.rows = more, !.fts = index]
  BY DEF With
<1>2. s.rows \in Rows /\ s.fts \in SUBSET (Nat \X Row)
  BY DEF Content
<1>3. r \in Nat \ {0} /\ r \notin DOMAIN s.rows /\ r <= MaxRow + 1 /\ MaxRow \in Nat
  BY <1>2, NewRowIs, BoundsAssumption
<1> HIDE DEF r
<1>4. <<i, t>> \in Row
  BY DEF Row
<1>5. more \in Rows
  <2>1. DOMAIN s.rows \union {r} \subseteq 1 .. MaxRow + 1
    BY <1>2, <1>3, RowsAre
  <2>2. more \in [DOMAIN s.rows \union {r} -> Row]
    BY <1>2, <1>4, RowsAre
  <2> HIDE DEF more
  <2> QED
    BY <2>1, <2>2, RowsFrom
<1>6. index \in SUBSET (Nat \X Row)
  BY <1>2, <1>3, <1>4
<1>7. ASSUME s.triggers = Sync, s.fts = Exact(s.rows)
      PROVE  index = Exact(more)
  <2>1. index = Exact(s.rows) \union {<<r, <<i, t>>>>}
    BY <1>7 DEF Sync
  <2>2. DOMAIN more = DOMAIN s.rows \union {r} /\ more[r] = <<i, t>>
    OBVIOUS
  <2>3. \A q \in DOMAIN s.rows : more[q] = s.rows[q]
    BY <1>3
  <2>4. Exact(s.rows) = {<<q, s.rows[q]>> : q \in DOMAIN s.rows}
    BY DEF Exact
  <2>5. Exact(more) = {<<q, more[q]>> : q \in DOMAIN s.rows \union {r}}
    BY <2>2 DEF Exact
  <2> HIDE DEF more, index
  <2>6. Exact(more) = {<<q, s.rows[q]>> : q \in DOMAIN s.rows} \union {<<r, <<i, t>>>>}
    BY <2>2, <2>3, <2>5
  <2> QED
    BY <2>1, <2>4, <2>6
<1> HIDE DEF more, index
<1>8. w \in Content /\ SameSchema(s, w) /\ w.lock = s.lock /\ w.rows = more /\ w.fts = index
  BY <1>1, <1>5, <1>6 DEF Content, SameSchema
<1> QED
  BY <1>7, <1>8

LEMMA ReplacedIs ==
  ASSUME NEW s \in Content, NEW i \in Id, NEW t \in Text, NEW w, w = Replaced(s, i, t),
         NewRow(s.rows) <= MaxRow + 1 \/ NewRow(w.rows) <= MaxRow + 1
  PROVE  /\ w \in Content /\ SameSchema(s, w) /\ w.lock = s.lock
         /\ s.triggers = Sync /\ s.fts = Exact(s.rows) => w.fts = Exact(w.rows)
<1> DEFINE u == Without(s, i)
<1>1. /\ u \in Content /\ SameSchema(s, u) /\ u.lock = s.lock
      /\ DOMAIN u.rows \subseteq DOMAIN s.rows
      /\ s.triggers = Sync /\ s.fts = Exact(s.rows) => u.fts = Exact(u.rows)
  BY WithoutIs
<1>2. w = With(u, i, t)
  BY DEF Replaced
<1> HIDE DEF u
<1>3. NewRow(u.rows) <= MaxRow + 1
  <2>1. u.rows \in Rows /\ s.rows \in Rows
    BY <1>1 DEF Content
  <2>2. CASE NewRow(s.rows) <= MaxRow + 1
    <3>1. \A r \in DOMAIN u.rows : r < NewRow(s.rows)
      BY <1>1, <2>1, NewRowIs
    <3>2. NewRow(u.rows) <= NewRow(s.rows)
      BY <2>1, <3>1, NewRowIs
    <3> QED
      BY <2>1, <2>2, <3>2, NewRowIs, BoundsAssumption
  <2>3. CASE NewRow(w.rows) <= MaxRow + 1
    <3> DEFINE r == NewRow(u.rows)
               D == {0} \union DOMAIN w.rows
    <3>1. r \in Nat \ {0} /\ \A q \in DOMAIN u.rows : q < r /\ q \in Nat
      BY <2>1, NewRowIs, RowsAre
    <3>2. DOMAIN w.rows = DOMAIN u.rows \union {r}
      BY <1>1, <1>2 DEF With, Content
    <3> HIDE DEF r
    <3>3. D \subseteq 0 .. r /\ r \in D
      BY <3>1, <3>2
    <3>4. NewRow(w.rows) = Max(D) + 1
      BY DEF NewRow
    <3> HIDE DEF D
    <3>5. Max(D) \in D /\ r <= Max(D)
      BY <3>1, <3>3, MaxExists
    <3>6. r <= MaxRow + 1
      <4>1. Max(D) \in Nat /\ MaxRow \in Nat
        <5>1. r \in Nat /\ Max(D) \in 0 .. r
          BY <3>1, <3>3, <3>5
        <5> QED
          BY <5>1, BoundsAssumption
      <4> QED
        BY <2>3, <3>1, <3>4, <3>5, <4>1
    <3> QED
      BY <3>6 DEF r
  <2> QED
    BY <2>2, <2>3
<1>4. /\ w \in Content /\ SameSchema(u, w) /\ w.lock = u.lock
      /\ u.triggers = Sync /\ u.fts = Exact(u.rows) => w.fts = Exact(w.rows)
  BY <1>1, <1>2, <1>3, WithIs
<1> QED
  BY <1>1, <1>4 DEF SameSchema

-----------------------------------------------------------------------------
(* What a step of one process leaves to the others.                           *)

LEMMA PlaceOf ==
  ASSUME TypeInv, NEW d \in Conn, pc[d] # "closed"
  PROVE  /\ at[d] \in 1 .. Len(store) /\ Len(store) \in Nat
         /\ Here(d) \in Content /\ Grown(Here(d))
BY DEF TypeInv, Here

(* Who is migrating has the file to itself: the others found it whole.        *)
LEMMA MigratesAlone ==
  ASSUME Inv, NEW c \in Conn, pc[c] = "migrating", todo[c] # <<>>
  PROVE  Others(c) = {}
<1> USE VersionsAssumption
<1>1. 6 \notin Here(c).versions
  <2>1. OlderInv(c) \/ SixInv(c)
    BY DEF Inv, ProcessInv, MigrateInv
  <2> QED
    BY <2>1 DEF OlderInv, SixInv, UpTo
<1>2. SUFFICES ASSUME NEW d \in Conn, d # c, at[d] = at[c]
               PROVE  FALSE
  BY DEF Others
<1>3. pc[d] # "closed"
  BY <1>2 DEF Inv, TypeInv
<1>4. ~Opening(d)
  BY <1>1, <1>2 DEF Inv, TurnInv, Opening, Current
<1>7. pc[d] # "lost"
  BY <1>2 DEF Inv, LostInv
<1>5. pc[d] \in Running
  BY <1>3, <1>4, <1>7 DEF Inv, TypeInv, Opening
<1>6. Whole(Here(d))
  BY <1>5 DEF Inv, ProcessInv, RunInv
<1> QED
  BY <1>1, <1>2, <1>6 DEF Whole, Here

LEMMA Going ==
  ASSUME TypeInv, NEW d \in Conn, NEW where, NEW sts, Go(d, where, sts)
  PROVE  /\ pc'[d] = where /\ todo'[d] = sts
         /\ pc' = [pc EXCEPT ![d] = pc'[d]] /\ todo' = [todo EXCEPT ![d] = todo'[d]]
         /\ \A e \in Conn \ {d} : pc'[e] = pc[e] /\ todo'[e] = todo[e]
BY DEF TypeInv, Go

LEMMA NotDrafting ==
  ASSUME TypeInv, NEW d \in Conn, draft' = draft
  PROVE  draft' = [draft EXCEPT ![d] = draft'[d]]
BY DEF TypeInv

(* A step of process d that leaves its file as s, and nothing else of another.  *)
Moves(d, s) ==
  /\ store' = [store EXCEPT ![at[d]] = s]
  /\ UNCHANGED <<live, backup, snap, spoiled, restoring, at>>
  /\ pc' = [pc EXCEPT ![d] = pc'[d]]
  /\ todo' = [todo EXCEPT ![d] = todo'[d]]
  /\ draft' = [draft EXCEPT ![d] = draft'[d]]
  /\ torn \subseteq torn'

LEMMA MovesFrame ==
  ASSUME TypeInv, NEW d \in Conn, NEW s, Moves(d, s)
  PROVE  /\ at' = at /\ torn \subseteq torn'
         /\ at[d] \in 1 .. Len(store) => store'[at[d]] = s
         /\ \A e \in Conn \ {d} : pc'[e] = pc[e] /\ todo'[e] = todo[e] /\ draft'[e] = draft[e]
<1>1. at[d] \in 1 .. Len(store) => store'[at[d]] = s
  BY DEF TypeInv, Moves
<1>2. \A e \in Conn \ {d} : pc'[e] = pc[e] /\ todo'[e] = todo[e] /\ draft'[e] = draft[e]
  BY DEF TypeInv, Moves
<1> QED
  BY <1>1, <1>2 DEF Moves

(* What it may do to a file that others have open.                            *)
Beside(d, s) ==
  /\ Here(d).versions \subseteq s.versions
  /\ Whole(Here(d)) => Whole(s)
  /\ Here(d).table # "none" => s.table # "none"
  /\ d \notin Loaders /\ Here(d).triggers = Sync => s.triggers = Sync
  /\ Here(d).triggers = Sync \/ Owes(d) =>
       s.triggers = Sync \/ at[d] \in torn' \/ Owes(d)'
  /\ (\E c \in Others(d) : pc[c] = "loading") => s = Here(d)

Locks(d, s) ==
  s.lock # NoConn => \/ s.lock = d /\ pc'[d] = "loading"
                     \/ s.lock = Here(d).lock /\ s.lock # d

Own(c) == RunInv(c) /\ DraftInv(c) /\ SchemaInv(c) /\ MigrateInv(c)

(* Another process's view of such a step.                                     *)
LEMMA OtherKept ==
  ASSUME Inv, NEW d \in Conn, pc[d] # "closed", NEW s \in Content, Moves(d, s), TypeInv',
         Others(d) # {} => Beside(d, s),
         NEW c \in Conn, c # d
  PROVE  Own(c)'
<1>0. /\ pc'[c] = pc[c] /\ at'[c] = at[c] /\ todo'[c] = todo[c] /\ draft'[c] = draft[c]
      /\ at' = at /\ torn \subseteq torn'
      /\ \A e \in Conn \ {d} : pc'[e] = pc[e] /\ todo'[e] = todo[e]
  BY DEF Inv, TypeInv, Moves
<1>1. Own(c)
  BY DEF Inv, ProcessInv, Own
<1>2. CASE pc[c] = "closed"
  BY <1>0, <1>1, <1>2 DEF Own, RunInv, DraftInv, SchemaInv, MigrateInv, Loads, Running
<1>3. CASE pc[c] # "closed"
  <2>1. /\ at[d] \in 1 .. Len(store) /\ at[c] \in 1 .. Len(store)
        /\ Here(c) \in Content /\ Here(d) \in Content
    BY <1>3, PlaceOf DEF Inv
  <2>2. store \in Seq(Content)
    BY DEF Inv, TypeInv
  <2>3. /\ at[c] # at[d] => Here(c)' = Here(c)
        /\ at[c] = at[d] => Here(c) = Here(d) /\ Here(c)' = s
    BY <1>0, <2>1, <2>2 DEF Moves, Here
  <2>4. at[c] = at[d] => Beside(d, s)
    BY DEF Others
  <2>5. Armed(at[c]) => Armed(at[c])'
    <3>1. SUFFICES ASSUME Armed(at[c]) PROVE Armed(at[c])'
      OBVIOUS
    <3>2. \A e \in Conn \ {d} : Owes(e) <=> Owes(e)'
      BY <1>0 DEF Owes, AfterLoad, AfterFailedLoad
    <3>3. CASE at[c] \in torn \/ \E e \in Conn \ {d} : at[e] = at[c] /\ Owes(e)
      BY <1>0, <3>2, <3>3 DEF Armed
    <3>4. CASE Here(c).triggers = Sync \/ (at[d] = at[c] /\ Owes(d))
      <4>1. CASE at[c] # at[d]
        BY <1>0, <2>3, <3>4, <4>1 DEF Armed, Here
      <4>2. CASE at[c] = at[d]
        <5>1. s.triggers = Sync \/ at[d] \in torn' \/ Owes(d)'
          BY <2>3, <2>4, <3>4, <4>2 DEF Beside
        <5> QED
          BY <1>0, <2>3, <4>2, <5>1 DEF Armed, Here
      <4> QED
        BY <4>1, <4>2
    <3> QED
      BY <3>1, <3>3, <3>4 DEF Armed, Here
  <2>6. Whole(Here(c)) => Whole(Here(c)')
    BY <2>3, <2>4 DEF Beside
  <2>7. RunInv(c)'
    <3>1. Whole(Here(c)) => Whole(Here(c))'
      BY <2>6 DEF Whole
    <3>2. RunInv(c)
      BY <1>1 DEF Own
    <3> QED
      BY <1>0, <2>5, <3>1, <3>2 DEF RunInv, AfterLoad, DropTriggers
  <2>8. DraftInv(c)'
    <3>1. pc[c] = "loading" => Here(c)' = Here(c)
      BY <2>3, <2>4 DEF Beside, Others
    <3> QED
      BY <1>0, <1>1, <3>1 DEF Own, DraftInv
  <2>9. Alone(c) => Alone(c)'
    <3>1. Loaders \subseteq {c} => d \notin Loaders
      OBVIOUS
    <3> QED
      BY <2>3, <2>4, <3>1 DEF Alone, Beside
  <2>10. Made(c) => Made(c)'
    BY <1>0, <2>5, <2>9 DEF Made
  <2>11. SchemaInv(c)'
    <3>1. SchemaInv(c)
      BY <1>1 DEF Own
    <3>2. /\ 1 \in Here(c).versions => 1 \in Here(c)'.versions
          /\ Here(c).table # "none" => Here(c)'.table # "none"
      BY <2>3, <2>4 DEF Beside
    <3> QED
      BY <1>0, <2>10, <3>1, <3>2 DEF SchemaInv, Schema
  <2>12. MigrateInv(c)'
    <3>1. SUFFICES ASSUME pc[c] = "migrating" PROVE MigrateInv(c)'
      BY <1>0 DEF MigrateInv
    <3>2. MigrateInv(c)
      BY <1>1 DEF Own
    <3>3. CASE todo[c] = <<>> /\ UpTo(Here(c), 7) /\ Made(c)
      <4>1. UpTo(Here(c)', 7)
        <5>1. Here(c)' \in Content
          <6>1. at[c] = at[d] \/ Here(c)' = Here(c)
            BY <2>3
          <6> QED
            BY <2>1, <2>3, <6>1
        <5>2. Here(c).versions \subseteq Here(c)'.versions
          BY <2>3, <2>4 DEF Beside
        <5>3. {w \in Versions : w < 7} = Versions
          <6>1. \A w \in Versions : w < 7
            BY VersionsAssumption
          <6> QED
            BY <6>1
        <5> QED
          BY <3>3, <5>1, <5>2, <5>3 DEF UpTo, Content
      <4> QED
        BY <1>0, <2>10, <3>3, <4>1 DEF MigrateInv, UpTo
    <3>4. CASE todo[c] # <<>>
      <4>1. Others(c) = {}
        BY <3>1, <3>4, MigratesAlone
      <4>2. at[c] # at[d]
        BY <4>1 DEF Others
      <4>3. Here(c)' = Here(c)
        BY <2>3, <4>2
      <4>4. OlderInv(c) \/ SixInv(c)
        BY <3>1, <3>2, <3>4 DEF MigrateInv
      <4>5. OlderInv(c) => OlderInv(c)'
        BY <1>0, <4>3 DEF OlderInv
      <4>6. SixInv(c) => SixInv(c)'
        BY <1>0, <4>3 DEF SixInv
      <4> QED
        BY <4>4, <4>5, <4>6 DEF MigrateInv
    <3>5. CASE todo[c] = <<>> /\ ~(UpTo(Here(c), 7) /\ Made(c))
      <4>1. OlderInv(c) \/ SixInv(c)
        BY <3>1, <3>2, <3>5 DEF MigrateInv
      <4>2. todo[c] # <<>>
        BY <4>1, LeftToRun
      <4> QED
        BY <3>5, <4>2
    <3> QED
      BY <3>3, <3>4, <3>5
  <2> QED
    BY <2>7, <2>8, <2>11, <2>12 DEF Own
<1> QED
  BY <1>2, <1>3

(* Any step of a process that has a file open, from what it does to that file.  *)
LEMMA StepKeeps ==
  ASSUME Inv, NEW d \in Conn, pc[d] \notin {"closed", "lost"},
         NEW s \in Content, Grown(s), Moves(d, s),
         pc'[d] \in {"schema", "migrating"} \union Running, Opening(d)' => Opening(d),
         Locks(d, s), Others(d) # {} => Beside(d, s),
         Complete(s) \/ at[d] \in torn' \/ Rebuilds(at[d])',
         TypeInv' => Own(d)'
  PROVE  Inv'
<1>1. /\ at[d] \in 1 .. Len(store) /\ Len(store) \in Nat /\ store \in Seq(Content)
      /\ Here(d) \in Content
  BY PlaceOf DEF Inv, TypeInv
<1>2. /\ store' \in Seq(Content) /\ Len(store') = Len(store) /\ store'[at[d]] = s
      /\ \A i \in 1 .. Len(store) : i # at[d] => store'[i] = store[i]
  BY <1>1 DEF Moves
<1>3. /\ live' = live /\ backup' = backup /\ snap' = snap /\ restoring' = restoring
      /\ spoiled' = spoiled /\ at' = at /\ torn \subseteq torn'
      /\ \A e \in Conn \ {d} : pc'[e] = pc[e] /\ todo'[e] = todo[e]
  BY DEF Moves, Inv, TypeInv
<1>4. TypeInv'
  <2>1. \A i \in 1 .. Len(store') : Grown(store'[i])
    BY <1>2 DEF Inv, TypeInv
  <2>2. /\ live' \in 0 .. Len(store') /\ backup' \in 0 .. Len(store')
        /\ at' \in [Conn -> 0 .. Len(store')]
    BY <1>2, <1>3 DEF Inv, TypeInv
  <2>3. /\ pc' \in [Conn -> {"closed", "schema", "migrating", "lost"} \union Running]
        /\ todo' = [c \in Conn |-> todo'[c]] /\ draft' = [c \in Conn |-> draft'[c]]
    BY DEF Inv, TypeInv, Moves
  <2>4. \A c \in Conn : pc'[c] = "closed" <=> at'[c] = 0
    <3>1. pc'[d] # "closed" /\ at'[d] # 0
      BY <1>1, <1>3 DEF Running, Loads
    <3> QED
      BY <1>3, <3>1 DEF Inv, TypeInv
  <2> QED
    BY <1>2, <2>1, <2>2, <2>3, <2>4 DEF TypeInv
<1>5. LockInv'
  <2>1. SUFFICES ASSUME NEW i \in 1 .. Len(store), store'[i].lock # NoConn
                 PROVE  at[store'[i].lock] = i /\ pc'[store'[i].lock] = "loading"
    BY <1>2, <1>3 DEF LockInv
  <2>2. store[i].lock # NoConn => /\ at[store[i].lock] = i /\ pc[store[i].lock] = "loading"
                                 /\ store[i].lock \in Conn
    <3>1. store[i] \in Content
      BY <1>1
    <3> QED
      BY <3>1 DEF Inv, LockInv, Content
  <2>3. CASE i # at[d]
    BY <1>2, <1>3, <2>1, <2>2, <2>3
  <2>4. CASE i = at[d]
    <3>1. s.lock # NoConn
      BY <1>2, <2>1, <2>4
    <3>2. CASE s.lock = d /\ pc'[d] = "loading"
      BY <1>2, <2>4, <3>2
    <3>3. CASE s.lock = Here(d).lock /\ s.lock # d
      BY <1>2, <1>3, <2>2, <2>4, <3>1, <3>3 DEF Here
    <3> QED
      BY <3>1, <3>2, <3>3 DEF Locks
  <2> QED
    BY <2>3, <2>4
<1>6. TurnInv'
  <2>1. SUFFICES ASSUME NEW x \in Conn, NEW y \in Conn, Opening(x)', Opening(y)',
                        at[x] = at[y], ~Current(store'[at[x]])
                 PROVE  x = y
    BY <1>3 DEF TurnInv, Here, Current
  <2>2. Opening(x) /\ Opening(y)
    BY <1>3, <2>1 DEF Opening
  <2>3. at[x] \in 1 .. Len(store)
    BY <2>2, PlaceOf DEF Inv, Opening
  <2>4. CASE ~Current(store[at[x]])
    BY <2>1, <2>2, <2>4 DEF Inv, TurnInv, Here
  <2>5. CASE Current(store[at[x]])
    <3>1. at[x] = at[d] /\ ~(6 \in s.versions) /\ 6 \in Here(d).versions
      BY <1>2, <2>1, <2>3, <2>5 DEF Current, Here
    <3>2. Others(d) = {}
      BY <3>1 DEF Beside
    <3> QED
      BY <2>1, <3>1, <3>2 DEF Others
  <2> QED
    BY <2>4, <2>5
<1>10. LostInv'
  <2>1. pc'[d] # "lost"
    BY DEF Running, Loads
  <2> QED
    BY <1>3, <2>1 DEF Inv, LostInv
<1>7. ProcessInv'
  <2>1. \A c \in Conn : Own(c)'
    BY <1>4, OtherKept
  <2> QED
    BY <2>1 DEF ProcessInv, Own
<1>8. IndexInv'
  <2>1. SUFFICES ASSUME NEW i \in 1 .. Len(store) \ torn'
                 PROVE  Rebuilds(i)' \/ Complete(store'[i])
    BY <1>2 DEF IndexInv, Complete
  <2>2. CASE i = at[d]
    BY <1>2, <1>3, <2>1, <2>2
  <2>3. CASE i # at[d]
    <3>1. Rebuilds(i) \/ Complete(store[i])
      BY <1>3, <2>1 DEF Inv, IndexInv
    <3>2. Rebuilds(i) => Rebuilds(i)'
      BY <1>3, <2>3 DEF Rebuilds, Rebuilder, AfterLoad
    <3> QED
      BY <1>2, <2>3, <3>1, <3>2
  <2> QED
    BY <2>2, <2>3
<1>9. SnapInv'
  BY <1>3 DEF Inv, SnapInv, Grown, Complete
<1> QED
  BY <1>4, <1>5, <1>6, <1>7, <1>8, <1>9, <1>10 DEF Inv

(* Who will rebuild an index still will, whatever process d does to the file.  *)
LEMMA RebuildsStays ==
  ASSUME TypeInv, NEW d \in Conn, NEW s, Moves(d, s), Rebuilder(d) => Rebuilder(d)', NEW i
  PROVE  Rebuilds(i) => Rebuilds(i)'
<1>1. at' = at /\ \A e \in Conn \ {d} : pc'[e] = pc[e] /\ todo'[e] = todo[e]
  BY MovesFrame
<1>2. \A e \in Conn : Rebuilder(e) => Rebuilder(e)'
  BY <1>1 DEF Rebuilder, AfterLoad
<1> QED
  BY <1>1, <1>2 DEF Rebuilds

LEMMA ArmedStays ==
  ASSUME Inv, NEW d \in Conn, pc[d] # "closed", NEW s \in Content, Moves(d, s), Armed(at[d]),
         Here(d).triggers = Sync \/ Owes(d) => s.triggers = Sync \/ at[d] \in torn' \/ Owes(d)'
  PROVE  Armed(at[d])'
<1>1. at[d] \in 1 .. Len(store) /\ store \in Seq(Content)
  BY PlaceOf DEF Inv, TypeInv
<1>2. /\ at' = at /\ torn \subseteq torn' /\ store'[at[d]] = s
      /\ \A e \in Conn \ {d} : pc'[e] = pc[e] /\ todo'[e] = todo[e]
  BY <1>1, MovesFrame DEF Inv
<1>3. \A e \in Conn \ {d} : Owes(e) <=> Owes(e)'
  BY <1>2 DEF Owes, AfterLoad, AfterFailedLoad
<1> QED
  BY <1>2, <1>3 DEF Armed, Here

(* A step that leaves all files as they are. *)
LEMMA StillStep ==
  ASSUME Inv, NEW d \in Conn, pc[d] \notin {"closed", "lost"},
         UNCHANGED <<store, live, backup, snap, spoiled, restoring, at>>,
         pc' = [pc EXCEPT ![d] = pc'[d]], todo' = [todo EXCEPT ![d] = todo'[d]],
         draft' = [draft EXCEPT ![d] = draft'[d]], torn \subseteq torn',
         pc'[d] \in {"schema", "migrating"} \union Running, Opening(d)' => Opening(d),
         pc[d] = "loading" => pc'[d] = "loading",
         Owes(d) => Owes(d)' \/ at[d] \in torn' \/ Here(d).triggers = Sync,
         Rebuilder(d) => Rebuilder(d)' \/ at[d] \in torn' \/ Complete(Here(d)),
         TypeInv' => Own(d)'
  PROVE  Inv'
<1> DEFINE s == Here(d)
<1>1. s \in Content /\ Grown(s) /\ at[d] \in 1 .. Len(store) /\ store \in Seq(Content)
  BY PlaceOf DEF Inv, TypeInv
<1>2. store' = [store EXCEPT ![at[d]] = s]
  BY <1>1 DEF Here
<1>3. Moves(d, s)
  BY <1>2 DEF Moves
<1>4. Locks(d, s)
  <2>1. s.lock # NoConn => at[s.lock] = at[d] /\ pc[s.lock] = "loading"
    BY <1>1 DEF Inv, LockInv, Here
  <2> QED
    BY <2>1 DEF Locks
<1>5. Beside(d, s)
  BY DEF Beside
<1>6. Complete(s) \/ at[d] \in torn' \/ Rebuilds(at[d])'
  <2>1. Complete(s) \/ at[d] \in torn \/ Rebuilds(at[d])
    BY <1>1 DEF Inv, IndexInv, Here
  <2>2. (Rebuilder(d) => Rebuilder(d)') /\ Rebuilds(at[d]) => Rebuilds(at[d])'
    BY <1>3, RebuildsStays DEF Inv
  <2> QED
    BY <2>1, <2>2
<1> QED
  BY <1>1, <1>3, <1>4, <1>5, <1>6, StepKeeps

-----------------------------------------------------------------------------
(* An open: the schema, then the migrations that are not there.               *)

LEMMA MigrationsBegin ==
  ASSUME NEW u \in Versions
  PROVE  /\ u # 6 => From(u) = Then(Rest(Statements(u), 1), From(u + 1))
         /\ u = 6 => From(u) = Rest(Statements(6), 1)
<1>1. u \in 2 .. 6 /\ Part(u) = Statements(u)
  BY VersionsAssumption DEF Part
<1>2. Statements(u) \in Seq(Stats)
  BY <1>1, PartStats
<1>3. Rest(Statements(u), 1) = Statements(u)
  BY <1>2, RestEnds
<1>4. From(u) = Then(Rest(Statements(u), 1), From(u + 1))
  BY <1>1, <1>3, FromStep DEF Then
<1>5. From(6) = Part(6)
  BY DEF From
<1> QED
  BY <1>1, <1>3, <1>4, <1>5

(* What is next after the migrations up to v.                                 *)
LEMMA MigrationsGoOn ==
  ASSUME NEW s, NEW v \in 1 .. 6, UpTo(s, v + 1), NEW l, l = From(v + 1)
  PROVE  \/ v = 6 /\ l = <<>> /\ UpTo(s, 7)
         \/ \E u \in Versions \ {6} : l = Then(Rest(Statements(u), 1), From(u + 1)) /\ UpTo(s, u)
         \/ l = Rest(Statements(6), 1) /\ UpTo(s, 6)
<1>1. CASE v = 6 /\ From(v + 1) = <<>>
  BY <1>1
<1>2. CASE \E u \in Versions : From(v + 1) = From(u) /\ UpTo(s, u)
  BY <1>2, MigrationsBegin
<1> QED
  BY <1>1, <1>2, NextMigration

LEMMA ReadVersionStep ==
  ASSUME Inv, NEW d \in Conn, ReadVersion(d)
  PROVE  Inv'
<1>0. pc[d] = "schema" /\ todo[d] = <<>> /\ pc'[d] = "migrating" /\ todo'[d] = Pending(Here(d))
  BY DEF ReadVersion, Go, Inv, TypeInv
<1>1. pc[d] \notin {"closed", "lost"} /\ ~Owes(d) /\ ~Rebuilder(d)
  BY <1>0 DEF Owes, Rebuilder
<1>2. 1 \in Here(d).versions /\ Here(d).table # "none" /\ Made(d)
  <2>1. PICK k \in 1 .. 4 : /\ todo[d] = Rest(Schema, k)
                            /\ k > 1 => 1 \in Here(d).versions
                            /\ k > 2 => Here(d).table # "none"
                            /\ k > 3 => Made(d)
    BY <1>0 DEF Inv, ProcessInv, SchemaInv
  <2>2. k \in 1 .. 3 => todo[d] # <<>>
    BY <2>1, SchemaStatements, RestStep
  <2> QED
    BY <1>0, <2>1, <2>2
<1>3. PICK n \in 1 .. 6 : UpTo(Here(d), n + 1) /\ Pending(Here(d)) = From(n + 1)
  <2>1. Here(d) \in Content /\ Grown(Here(d))
    BY <1>1, PlaceOf DEF Inv
  <2>2. Here(d).versions \subseteq {1} \union Versions
    BY <2>1 DEF Content
  <2> QED
    BY <1>2, <2>1, <2>2, PendingIs
<1>4. /\ UNCHANGED <<store, live, backup, snap, spoiled, restoring, at, torn>> /\ draft' = draft
      /\ pc' = [pc EXCEPT ![d] = pc'[d]] /\ todo' = [todo EXCEPT ![d] = todo'[d]]
      /\ draft' = [draft EXCEPT ![d] = draft'[d]]
  BY Going, NotDrafting DEF ReadVersion, files, Inv
<1>5. TypeInv' => Own(d)'
  <2>1. Here(d)' = Here(d)
    BY <1>4 DEF Here
  <2>2. Made(d)'
    <3>1. Armed(at[d]) => Armed(at[d])'
      <4>1. \A e \in Conn \ {d} : pc'[e] = pc[e] /\ todo'[e] = todo[e]
        BY <1>4 DEF Inv, TypeInv
      <4>2. \A e \in Conn \ {d} : Owes(e) <=> Owes(e)'
        BY <4>1 DEF Owes, AfterLoad, AfterFailedLoad
      <4> QED
        BY <1>1, <1>4, <4>2 DEF Armed
    <3> QED
      BY <1>2, <1>4, <2>1, <3>1 DEF Made, Alone
  <2>3. MigrateInv(d)'
    <3>1. \/ todo'[d] = <<>> /\ UpTo(Here(d), 7)
          \/ \E u \in Versions \ {6} :
               todo'[d] = Then(Rest(Statements(u), 1), From(u + 1)) /\ UpTo(Here(d), u)
          \/ todo'[d] = Rest(Statements(6), 1) /\ UpTo(Here(d), 6)
      BY <1>0, <1>3, MigrationsGoOn
    <3>2. CASE todo'[d] = <<>> /\ UpTo(Here(d), 7)
      BY <2>1, <2>2, <3>2 DEF MigrateInv, UpTo
    <3>3. CASE \E u \in Versions \ {6} :
                 todo'[d] = Then(Rest(Statements(u), 1), From(u + 1)) /\ UpTo(Here(d), u)
      <4>1. PICK u \in Versions \ {6} : /\ todo'[d] = Then(Rest(Statements(u), 1), From(u + 1))
                                        /\ UpTo(Here(d), u)
        BY <3>3
      <4>2. UpTo(Here(d), u)' /\ Here(d)'.table # "none"
        BY <1>2, <2>1, <4>1 DEF UpTo
      <4>3. OlderInv(d)'
        BY <4>1, <4>2 DEF OlderInv
      <4> QED
        BY <4>3 DEF MigrateInv
    <3>4. CASE todo'[d] = Rest(Statements(6), 1) /\ UpTo(Here(d), 6)
      <4>1. SixInv(d)'
        BY <2>1, <3>4 DEF SixInv, SixStage, UpTo, Statements
      <4> QED
        BY <4>1 DEF MigrateInv
    <3> QED
      BY <3>1, <3>2, <3>3, <3>4
  <2> QED
    BY <1>0, <2>3 DEF Own, RunInv, DraftInv, SchemaInv, Loads, Running
<1> QED
  BY <1>0, <1>1, <1>4, <1>5, StillStep DEF Opening

LEMMA OpenedFile ==
  ASSUME Inv, NEW d \in Conn, Opened(d)
  PROVE  Whole(Here(d)) /\ Made(d)
<1> USE VersionsAssumption
<1>1. pc[d] = "migrating" /\ todo[d] = <<>>
  BY DEF Opened
<1>2. UpTo(Here(d), 7) /\ Made(d)
  BY <1>1, LeftToRun DEF Inv, ProcessInv, MigrateInv
<1>3. Grown(Here(d))
  BY <1>1, PlaceOf DEF Inv
<1>4. Here(d).versions = {1} \union Versions
  <2>1. \A w \in Versions : w < 7
    OBVIOUS
  <2> QED
    BY <1>2, <2>1 DEF UpTo
<1>5. Versions \ {6} \subseteq Here(d).versions \ {1, 6}
  BY <1>4
<1> QED
  BY <1>2, <1>3, <1>4, <1>5 DEF Whole, Grown

LEMMA OpenedStep ==
  ASSUME Inv, NEW d \in Conn, Opened(d)
  PROVE  Inv'
<1>0. pc[d] = "migrating" /\ todo[d] = <<>> /\ pc'[d] = "ready" /\ todo'[d] = <<>>
  BY DEF Opened, Go, Inv, TypeInv
<1>1. pc[d] \notin {"closed", "lost"} /\ ~Owes(d) /\ ~Rebuilder(d)
  BY <1>0 DEF Owes, Rebuilder
<1>4. /\ UNCHANGED <<store, live, backup, snap, spoiled, restoring, at, torn>> /\ draft' = draft
      /\ pc' = [pc EXCEPT ![d] = pc'[d]] /\ todo' = [todo EXCEPT ![d] = todo'[d]]
      /\ draft' = [draft EXCEPT ![d] = draft'[d]]
  BY Going, NotDrafting DEF Opened, files, Inv
<1>5. TypeInv' => Own(d)'
  <2>1. Whole(Here(d))' /\ Armed(at[d])'
    <3>1. Armed(at[d])
      BY OpenedFile DEF Made
    <3>2. \A e \in Conn \ {d} : pc'[e] = pc[e] /\ todo'[e] = todo[e]
      BY <1>4 DEF Inv, TypeInv
    <3>3. \A e \in Conn \ {d} : Owes(e) <=> Owes(e)'
      BY <3>2 DEF Owes, AfterLoad, AfterFailedLoad
    <3>4. Armed(at[d])'
      BY <1>1, <1>4, <3>1, <3>3 DEF Armed
    <3> QED
      BY <1>4, <3>4, OpenedFile DEF Whole, Here
  <2> QED
    BY <1>0, <2>1 DEF Own, RunInv, DraftInv, SchemaInv, MigrateInv, Loads, Running
<1> QED
  BY <1>0, <1>1, <1>4, <1>5, StillStep DEF Opening, Running

(* One statement that succeeds. *)
LEMMA StatementStep ==
  ASSUME Inv, NEW d \in Conn, RunStatement(d), NEW s, s = Effect(Head(todo[d]), Here(d)),
         ~Fails(Head(todo[d]), Here(d))
  PROVE  /\ Moves(d, s) /\ todo[d] # <<>> /\ todo'[d] = Tail(todo[d])
         /\ pc' = pc /\ draft' = draft /\ torn' = torn /\ crashes' = crashes
         /\ pc[d] \notin {"closed", "ready", "loading", "lost"}
         /\ Here(d).lock = NoConn /\ \A c \in Others(d) : pc[c] # "loading"
<1>1. todo[d] # <<>> /\ Free(d) /\ Put(d, s) /\ UNCHANGED <<pc, at, draft, files, torn, crashes>>
  BY DEF RunStatement
<1>2. todo' = [todo EXCEPT ![d] = Tail(@)]
  BY DEF RunStatement
<1>3. todo'[d] = Tail(todo[d]) /\ todo' = [todo EXCEPT ![d] = todo'[d]]
  BY <1>2 DEF Inv, TypeInv
<1>4. pc' = [pc EXCEPT ![d] = pc'[d]]
  BY <1>1 DEF Inv, TypeInv
<1>5. Moves(d, s)
  BY <1>1, <1>3, <1>4, NotDrafting DEF Moves, Put, files, Inv
<1>6. pc[d] \notin {"closed", "ready", "loading", "lost"}
  BY <1>1 DEF Inv, ProcessInv, RunInv
<1>7. Here(d).lock = NoConn
  <2>1. at[d] \in 1 .. Len(store)
    BY <1>6, PlaceOf DEF Inv
  <2>2. Here(d).lock = d => pc[d] = "loading"
    BY <2>1, RolesAssumption DEF Inv, LockInv, Here
  <2> QED
    BY <1>1, <1>6, <2>2 DEF Free
<1>8. \A c \in Others(d) : pc[c] # "loading"
  BY <1>7, RolesAssumption DEF Inv, ProcessInv, DraftInv, Others, Here
<1> QED
  BY <1>1, <1>3, <1>5, <1>6, <1>7, <1>8 DEF files

(* ... and what is left to show of it. *)
LEMMA StatementKeeps ==
  ASSUME Inv, NEW d \in Conn, RunStatement(d), NEW s \in Content,
         s = Effect(Head(todo[d]), Here(d)), ~Fails(Head(todo[d]), Here(d)),
         Grown(s), s.lock = Here(d).lock,
         Others(d) # {} =>
           /\ Here(d).versions \subseteq s.versions
           /\ Whole(Here(d)) => Whole(s)
           /\ Here(d).table # "none" => s.table # "none"
           /\ d \notin Loaders /\ Here(d).triggers = Sync => s.triggers = Sync
           /\ Here(d).triggers = Sync \/ Owes(d) => s.triggers = Sync \/ Owes(d)',
         Complete(s) \/ at[d] \in torn \/ Rebuilds(at[d])',
         TypeInv' => Own(d)'
  PROVE  Inv' /\ pc' = pc
<1>1. /\ Moves(d, s) /\ pc' = pc /\ torn' = torn
      /\ pc[d] \notin {"closed", "ready", "loading", "lost"}
      /\ Here(d).lock = NoConn /\ \A c \in Others(d) : pc[c] # "loading"
  BY StatementStep
<1>2. Others(d) # {} => Beside(d, s)
  BY <1>1 DEF Beside
<1>3. Locks(d, s)
  BY <1>1 DEF Locks
<1>4. pc'[d] \in {"schema", "migrating"} \union Running
  BY <1>1 DEF Inv, TypeInv
<1>5. Opening(d)' => Opening(d)
  BY <1>1 DEF Opening
<1> QED
  BY <1>1, <1>2, <1>3, <1>4, <1>5, StepKeeps

LEMMA SchemaLeft ==
  ASSUME Inv, NEW d \in Conn, pc[d] = "schema", todo[d] # <<>>,
         NEW st, st = Head(todo[d])
  PROVE  \E k \in {1, 2, 3} :
           /\ k > 1 => 1 \in Here(d).versions
           /\ k > 2 => Here(d).table # "none"
           /\ Tail(todo[d]) = Rest(Schema, k + 1) /\ ~Fails(st, Here(d))
           /\ k = 1 => st[1] = "record_if_missing" /\ st[2] = 1
           /\ k = 2 => st[1] = "fts_if_missing"
           /\ k = 3 => st[1] = "triggers_if_missing"
<1>1. PICK k \in 1 .. 4 : /\ todo[d] = Rest(Schema, k)
                          /\ k > 1 => 1 \in Here(d).versions
                          /\ k > 2 => Here(d).table # "none"
  BY DEF Inv, ProcessInv, SchemaInv
<1>2. k \in 1 .. 3 /\ k \in {1, 2, 3}
  <2>1. Schema \in Seq(Stats) /\ Len(Schema) + 1 = 4
    BY SchemaStatements
  <2>2. Rest(Schema, 4) = <<>>
    BY <2>1, RestEnds
  <2> QED
    BY <1>1, <2>2
<1>3. st = Schema[k] /\ Tail(todo[d]) = Rest(Schema, k + 1)
  <2>1. k \in 1 .. Len(Schema) /\ Schema \in Seq(Stats)
    BY <1>2, SchemaStatements
  <2>2. st = Head(Rest(Schema, k)) /\ Tail(todo[d]) = Tail(Rest(Schema, k))
    BY <1>1
  <2> QED
    BY <2>1, <2>2, RestStep
<1>4. /\ k = 1 => st[1] = "record_if_missing" /\ st[2] = 1
      /\ k = 2 => st[1] = "fts_if_missing"
      /\ k = 3 => st[1] = "triggers_if_missing"
  BY <1>3, SchemaStatements DEF Word, Migration
<1>5. ~Fails(st, Here(d))
  BY <1>2, <1>4 DEF Fails
<1> QED
  BY <1>1, <1>2, <1>3, <1>4, <1>5

LEMMA SchemaStatement ==
  ASSUME Inv, NEW d \in Conn, RunStatement(d), pc[d] = "schema"
  PROVE  Inv' /\ pc' = pc
<1> DEFINE h == Here(d)
           st == Head(todo[d])
           s == Effect(st, h)
<1>1. /\ h \in Content /\ Grown(h) /\ at[d] \in 1 .. Len(store)
      /\ Complete(h) \/ at[d] \in torn \/ Rebuilds(at[d])
  BY PlaceOf DEF Inv, IndexInv, Here
<1>2. PICK k \in {1, 2, 3} :
        /\ k > 1 => 1 \in h.versions
        /\ k > 2 => h.table # "none"
        /\ Tail(todo[d]) = Rest(Schema, k + 1) /\ ~Fails(st, h)
        /\ k = 1 => st[1] = "record_if_missing" /\ st[2] = 1
        /\ k = 2 => st[1] = "fts_if_missing"
        /\ k = 3 => st[1] = "triggers_if_missing"
  BY SchemaLeft DEF RunStatement
<1>7. /\ k = 1 => s = [h EXCEPT !.versions = @ \union {1}]
      /\ k = 2 => s = [h EXCEPT !.table = IF @ = "none" THEN "new" ELSE @]
      /\ k = 3 => s = [h EXCEPT !.triggers = Sync]
  BY <1>2 DEF Effect
<1>8. /\ todo'[d] = Tail(todo[d]) /\ pc' = pc /\ Moves(d, s) /\ torn' = torn
  BY <1>2, StatementStep
<1> HIDE DEF h, st, s
<1>9. /\ s \in Content /\ s.lock = h.lock /\ s.rows = h.rows /\ s.fts = h.fts /\ s.made = h.made
      /\ h.versions \subseteq s.versions /\ s.versions \subseteq h.versions \union {1} /\ 1 \in s.versions
      /\ h.table # "none" => s.table = h.table
      /\ k = 1 => s.table = h.table /\ s.triggers = h.triggers
      /\ k = 2 => s.table # "none" /\ s.triggers = h.triggers
      /\ k = 3 => s.table = h.table /\ s.triggers = Sync
  BY <1>1, <1>2, <1>7 DEF Content, Sync
<1>10. Grown(s)
  <2>1. \A w \in {1} \union Versions : ~(w < 1)
    BY VersionsAssumption
  <2>2. 6 \in s.versions => 6 \in h.versions
    BY <1>9
  <2> QED
    BY <1>1, <1>9, <2>1, <2>2 DEF Grown
<1>11. Whole(h) => Whole(s)
  BY <1>9 DEF Whole
<1>12. Complete(h) => Complete(s)
  BY <1>9 DEF Complete
<1>13. Rebuilds(at[d]) => Rebuilds(at[d])'
  <2> DEFINE i == at[d]
  <2>1. ~Rebuilder(d)
    BY DEF Rebuilder
  <2>2. at' = at /\ (Rebuilds(i) => Rebuilds(i)')
    BY <1>8, <2>1, RebuildsStays DEF Inv, Moves
  <2> QED
    BY <2>2
<1>14. ~Owes(d)
  BY DEF Owes
<1>15. TypeInv' => Own(d)'
  <2>1. Here(d)' = s
    BY <1>1, <1>8, MovesFrame DEF Here, Inv
  <2>2. k = 3 => Made(d)'
    <3>1. k = 3 => Armed(at[d])'
      BY <1>8, <1>9, <2>1 DEF Armed, Here
    <3> QED
      BY <1>8, <1>9, <2>1, <3>1 DEF Made, Alone
  <2>3. SchemaInv(d)'
    <3>1. /\ todo'[d] = Rest(Schema, k + 1) /\ k + 1 \in 1 .. 4
          /\ 1 \in Here(d)'.versions
          /\ k + 1 > 2 => Here(d)'.table # "none"
          /\ k + 1 > 3 => Made(d)'
      BY <1>2, <1>8, <1>9, <2>1, <2>2
    <3> QED
      BY <3>1 DEF SchemaInv
  <2> QED
    BY <1>8, <2>3 DEF Own, RunInv, DraftInv, MigrateInv, Loads, Running
<1>16. h.triggers = Sync => s.triggers = Sync
  BY <1>2, <1>9
<1> QED
  BY <1>1, <1>2, <1>9, <1>10, <1>11, <1>12, <1>13, <1>14, <1>15, <1>16, StatementKeeps DEF h, st, s

(* The migrations before v, in order. *)
LEMMA UpToOrdered ==
  ASSUME NEW s, NEW v \in 2 .. 7, UpTo(s, v)
  PROVE  \A x \in s.versions, w \in {1} \union Versions : w < x => w \in s.versions
<1>1. SUFFICES ASSUME NEW x \in s.versions, NEW w \in {1} \union Versions, w < x
               PROVE  w \in s.versions
  OBVIOUS
<1>2. x = 1 \/ (x \in Versions /\ x < v)
  BY DEF UpTo
<1>5. \A y \in Versions : y \in 2 .. 6
  BY VersionsAssumption
<1>6. w \in 1 .. 6
  BY <1>5
<1>4. x \in 1 .. 6 /\ x < v /\ w \in 1 .. 6
  BY <1>2, <1>5, <1>6
<1>3. w < v
  BY <1>1, <1>4
<1> QED
  BY <1>3 DEF UpTo

LEMMA OlderStatement ==
  ASSUME Inv, NEW d \in Conn, RunStatement(d), pc[d] = "migrating", OlderInv(d)
  PROVE  Inv' /\ pc' = pc
<1> DEFINE h == Here(d)
           st == Head(todo[d])
           s == Effect(st, h)
<1>1. h \in Content /\ Grown(h) /\ at[d] \in 1 .. Len(store)
  BY PlaceOf DEF Inv
<1>2. PICK v \in Versions \ {6}, k \in 1 .. 2 :
        /\ todo[d] = Then(Rest(Statements(v), k), From(v + 1))
        /\ UpTo(h, v) /\ h.table # "none"
        /\ k = 2 => v \in h.made
  BY DEF OlderInv
<1>3. v \in 2 .. 5 /\ k \in {1, 2}
  BY VersionsAssumption
<1>4. /\ todo[d] # <<>> /\ st[1] = (IF k = 1 THEN "alter" ELSE "record") /\ st[2] = v
      /\ Tail(todo[d]) = Then(Rest(Statements(v), k + 1), From(v + 1))
      /\ k = 2 => Tail(todo[d]) = From(v + 1)
  BY <1>2, OlderLeft
<1>5. v \notin h.versions /\ 6 \notin h.versions
  BY <1>2, <1>3 DEF UpTo
<1>6. ~Fails(st, h)
  BY <1>3, <1>4, <1>5 DEF Fails
<1>7. /\ k = 1 => s = [h EXCEPT !.made = @ \union {v}]
      /\ k = 2 => s = [h EXCEPT !.versions = @ \union {v}]
  <2>1. CASE k = 1
    <3>1. st[1] = "alter" /\ st[2] = v
      BY <1>4, <2>1
    <3> QED
      BY <2>1, <3>1 DEF Effect
  <2>2. CASE k = 2
    <3>1. st[1] = "record" /\ st[2] = v
      BY <1>4, <2>2
    <3> QED
      BY <2>2, <3>1 DEF Effect
  <2> QED
    BY <1>3, <2>1, <2>2
<1>8. /\ todo'[d] = Tail(todo[d]) /\ pc' = pc /\ Moves(d, s) /\ torn' = torn
  BY <1>6, StatementStep
<1>9. Others(d) = {}
  BY <1>4, MigratesAlone
<1> HIDE DEF h, st, s
<1>10. /\ s \in Content /\ s.lock = h.lock /\ s.table = h.table
       /\ k = 1 => s.versions = h.versions /\ s.made = h.made \union {v}
       /\ k = 2 => s.versions = h.versions \union {v} /\ s.made = h.made
  BY <1>1, <1>3, <1>7 DEF Content
<1>11. k = 2 => UpTo(s, v + 1)
  <2>1. {w \in Versions : w < v + 1} = {w \in Versions : w < v} \union {v}
    <3>1. \A w \in Versions : w < v + 1 <=> w < v \/ w = v
      BY <1>3, VersionsAssumption
    <3> QED
      BY <3>1
  <2> QED
    BY <1>2, <1>10, <2>1 DEF UpTo
<1>12. 6 \notin s.versions
  BY <1>3, <1>5, <1>10
<1>13. Grown(s)
  <2>1. CASE k = 1
    BY <1>1, <1>5, <1>10, <2>1 DEF Grown
  <2>2. CASE k = 2
    <3>1. v + 1 \in 2 .. 7 /\ UpTo(s, v + 1)
      BY <1>3, <1>11, <2>2
    <3>2. \A x \in s.versions, w \in {1} \union Versions : w < x => w \in s.versions
      BY <3>1, UpToOrdered
    <3>3. s.versions \ {1, 6} \subseteq s.made
      BY <1>1, <1>2, <1>10, <2>2 DEF Grown
    <3> QED
      BY <1>12, <3>2, <3>3 DEF Grown
  <2> QED
    BY <1>3, <2>1, <2>2
<1>14. Complete(s)
  BY <1>12 DEF Complete
<1>15. TypeInv' => Own(d)'
  <2>1. Here(d)' = s
    BY <1>1, <1>8, MovesFrame DEF Here, Inv
  <2>2. OlderInv(d)' \/ SixInv(d)'
    <3>1. CASE k = 1
      <4>1. /\ todo'[d] = Then(Rest(Statements(v), 2), From(v + 1))
            /\ UpTo(Here(d)', v) /\ Here(d)'.table # "none" /\ v \in Here(d)'.made
        BY <1>2, <1>4, <1>8, <1>10, <2>1, <3>1, 1 + 1 = 2 DEF UpTo
      <4>2. UpTo(Here(d), v)'
        BY <4>1 DEF UpTo
      <4> QED
        BY <4>1, <4>2 DEF OlderInv
    <3>2. CASE k = 2
      <4>1. v \in 1 .. 6 /\ v # 6
        BY <1>3
      <4>2. \/ \E u \in Versions \ {6} :
                 todo'[d] = Then(Rest(Statements(u), 1), From(u + 1)) /\ UpTo(s, u)
            \/ todo'[d] = Rest(Statements(6), 1) /\ UpTo(s, 6)
        BY <1>4, <1>8, <1>11, <3>2, <4>1, MigrationsGoOn
      <4>3. CASE \E u \in Versions \ {6} :
                   todo'[d] = Then(Rest(Statements(u), 1), From(u + 1)) /\ UpTo(s, u)
        <5>1. PICK u \in Versions \ {6} :
                todo'[d] = Then(Rest(Statements(u), 1), From(u + 1)) /\ UpTo(s, u)
          BY <4>3
        <5>2. UpTo(Here(d), u)' /\ Here(d)'.table # "none"
          BY <1>2, <1>10, <2>1, <5>1 DEF UpTo
        <5> QED
          BY <5>1, <5>2 DEF OlderInv
      <4>4. CASE todo'[d] = Rest(Statements(6), 1) /\ UpTo(s, 6)
        BY <2>1, <4>4 DEF SixInv, SixStage, UpTo, Statements
      <4> QED
        BY <4>2, <4>3, <4>4
    <3> QED
      BY <1>3, <3>1, <3>2
  <2> QED
    BY <1>8, <2>2 DEF Own, RunInv, DraftInv, SchemaInv, MigrateInv, Loads, Running
<1> QED
  BY <1>6, <1>9, <1>10, <1>13, <1>14, <1>15, StatementKeeps DEF h, st, s

(* A statement of migration 6 on a file that has those before it.             *)
LEMMA SixEffect ==
  ASSUME NEW h \in Content, NEW k \in 1 .. 8, SixStage(h, k), 6 \notin h.versions,
         NEW st, st = Statements(6)[k], NEW s, s = Effect(st, h)
  PROVE  /\ ~Fails(st, h) /\ SixStage(s, k + 1)
         /\ s \in Content /\ s.lock = h.lock /\ s.rows = h.rows /\ s.made = h.made
         /\ s.versions = IF k = 8 THEN h.versions \union {6} ELSE h.versions
<1> USE VersionsAssumption DEF Content, Sync
<1>1. Exact(h.rows) \in SUBSET (Nat \X Row)
  BY ExactRows
<1>2. st[2] = 6
  BY SixStatements DEF Migration
<1>c1. CASE k = 1
  <2>1. st[1] = "drop_nodes_ai"
    BY <1>c1, SixStatements DEF Word
  <2>2. s = [h EXCEPT !.triggers = @ \ {"nodes_ai"}]
    BY <1>2, <2>1 DEF Effect
  <2>3. ~Fails(st, h)
    BY <1>2, <1>c1, <2>1 DEF Fails, SixStage
  <2>4. SixStage(s, 2)
    BY <1>1, <1>c1, <2>2 DEF SixStage
  <2>5. /\ s \in Content /\ s.lock = h.lock /\ s.rows = h.rows /\ s.made = h.made
        /\ s.versions = h.versions
    BY <1>1, <2>2
  <2> QED
    BY <1>c1, <2>3, <2>4, <2>5, 1 + 1 = 2
<1>c2. CASE k = 2
  <2>1. st[1] = "drop_nodes_ad"
    BY <1>c2, SixStatements DEF Word
  <2>2. s = [h EXCEPT !.triggers = @ \ {"nodes_ad"}]
    BY <1>2, <2>1 DEF Effect
  <2>3. ~Fails(st, h)
    BY <1>2, <1>c2, <2>1 DEF Fails, SixStage
  <2>4. SixStage(s, 3)
    BY <1>1, <1>c2, <2>2 DEF SixStage
  <2>5. /\ s \in Content /\ s.lock = h.lock /\ s.rows = h.rows /\ s.made = h.made
        /\ s.versions = h.versions
    BY <1>1, <2>2
  <2> QED
    BY <1>c2, <2>3, <2>4, <2>5, 2 + 1 = 3
<1>c3. CASE k = 3
  <2>1. st[1] = "drop_fts"
    BY <1>c3, SixStatements DEF Word
  <2>2. s = [h EXCEPT !.table = "none", !.fts = {}]
    BY <1>2, <2>1 DEF Effect
  <2>3. ~Fails(st, h)
    BY <1>2, <1>c3, <2>1 DEF Fails, SixStage
  <2>4. SixStage(s, 4)
    <3>1. h.triggers = {}
      BY <1>c3 DEF SixStage
    <3>2. s.table = "none" /\ s.triggers = h.triggers
      BY <2>2
    <3> QED
      BY <3>1, <3>2 DEF SixStage
  <2>5. /\ s \in Content /\ s.lock = h.lock /\ s.rows = h.rows /\ s.made = h.made
        /\ s.versions = h.versions
    BY <1>1, <2>2
  <2> QED
    BY <1>c3, <2>3, <2>4, <2>5, 3 + 1 = 4
<1>c4. CASE k = 4
  <2>1. st[1] = "create_fts"
    BY <1>c4, SixStatements DEF Word
  <2>2. s = [h EXCEPT !.table = "new"]
    BY <1>2, <2>1 DEF Effect
  <2>3. ~Fails(st, h)
    BY <1>2, <1>c4, <2>1 DEF Fails, SixStage
  <2>4. SixStage(s, 5)
    BY <1>1, <1>c4, <2>2 DEF SixStage
  <2>5. /\ s \in Content /\ s.lock = h.lock /\ s.rows = h.rows /\ s.made = h.made
        /\ s.versions = h.versions
    BY <1>1, <2>2
  <2> QED
    BY <1>c4, <2>3, <2>4, <2>5, 4 + 1 = 5
<1>c5. CASE k = 5
  <2>1. st[1] = "rebuild"
    BY <1>c5, SixStatements DEF Word
  <2>2. s = [h EXCEPT !.fts = Exact(h.rows)]
    BY <1>2, <2>1 DEF Effect
  <2>3. ~Fails(st, h)
    BY <1>2, <1>c5, <2>1 DEF Fails, SixStage
  <2>4. SixStage(s, 6)
    BY <1>1, <1>c5, <2>2 DEF SixStage
  <2>5. /\ s \in Content /\ s.lock = h.lock /\ s.rows = h.rows /\ s.made = h.made
        /\ s.versions = h.versions
    BY <1>1, <2>2
  <2> QED
    BY <1>c5, <2>3, <2>4, <2>5, 5 + 1 = 6
<1>c6. CASE k = 6
  <2>1. st[1] = "create_nodes_ai"
    BY <1>c6, SixStatements DEF Word
  <2>2. s = [h EXCEPT !.triggers = @ \union {"nodes_ai"}]
    BY <1>2, <2>1 DEF Effect
  <2>3. ~Fails(st, h)
    BY <1>2, <1>c6, <2>1 DEF Fails, SixStage
  <2>4. SixStage(s, 7)
    BY <1>1, <1>c6, <2>2 DEF SixStage
  <2>5. /\ s \in Content /\ s.lock = h.lock /\ s.rows = h.rows /\ s.made = h.made
        /\ s.versions = h.versions
    BY <1>1, <2>2
  <2> QED
    BY <1>c6, <2>3, <2>4, <2>5, 6 + 1 = 7
<1>c7. CASE k = 7
  <2>1. st[1] = "create_nodes_ad"
    BY <1>c7, SixStatements DEF Word
  <2>2. s = [h EXCEPT !.triggers = @ \union {"nodes_ad"}]
    BY <1>2, <2>1 DEF Effect
  <2>3. ~Fails(st, h)
    BY <1>2, <1>c7, <2>1 DEF Fails, SixStage
  <2>4. SixStage(s, 8)
    BY <1>1, <1>c7, <2>2 DEF SixStage
  <2>5. /\ s \in Content /\ s.lock = h.lock /\ s.rows = h.rows /\ s.made = h.made
        /\ s.versions = h.versions
    BY <1>1, <2>2
  <2> QED
    BY <1>c7, <2>3, <2>4, <2>5, 7 + 1 = 8
<1>c8. CASE k = 8
  <2>1. st[1] = "record"
    BY <1>c8, SixStatements DEF Word
  <2>2. s = [h EXCEPT !.versions = @ \union {6}]
    BY <1>2, <2>1 DEF Effect
  <2>3. ~Fails(st, h)
    BY <1>2, <1>c8, <2>1 DEF Fails, SixStage
  <2>4. SixStage(s, 9)
    BY <1>1, <1>c8, <2>2 DEF SixStage
  <2>5. /\ s \in Content /\ s.lock = h.lock /\ s.rows = h.rows /\ s.made = h.made
        /\ s.versions = h.versions \union {6}
    BY <1>1, <2>2
  <2> QED
    BY <1>c8, <2>3, <2>4, <2>5, 8 + 1 = 9
<1> QED
  BY <1>c1, <1>c2, <1>c3, <1>c4, <1>c5, <1>c6, <1>c7, <1>c8

(* What an open runs next does not fail, in schema.sql and in the migrations.   *)
LEMMA OpeningNeverFails ==
  ASSUME Inv, NEW d \in Conn, Opening(d), todo[d] # <<>>
  PROVE  ~Fails(Head(todo[d]), Here(d))
<1> DEFINE h == Here(d)
           st == Head(todo[d])
<1>1. CASE pc[d] = "schema"
  BY <1>1, SchemaLeft
<1>2. CASE pc[d] = "migrating" /\ OlderInv(d)
  <2>1. PICK v \in Versions \ {6}, k \in 1 .. 2 :
          todo[d] = Then(Rest(Statements(v), k), From(v + 1)) /\ UpTo(h, v)
    BY <1>2 DEF OlderInv
  <2>2. st[1] = (IF k = 1 THEN "alter" ELSE "record") /\ st[2] = v
    BY <2>1, OlderLeft
  <2>3. v \notin h.versions
    BY <2>1, VersionsAssumption DEF UpTo
  <2> QED
    BY <2>2, <2>3 DEF Fails
<1>3. CASE pc[d] = "migrating" /\ SixInv(d)
  <2>1. h \in Content
    BY <1>3, PlaceOf DEF Inv
  <2>2. PICK k \in 1 .. 8 : todo[d] = Rest(Statements(6), k) /\ UpTo(h, 6) /\ SixStage(h, k)
    BY <1>3 DEF SixInv
  <2>3. st = Statements(6)[k]
    BY <2>2, SixLeft
  <2>5. 6 \notin h.versions
    BY <2>2 DEF UpTo
  <2> HIDE DEF h, st
  <2>4. ~Fails(st, h)
    BY <2>1, <2>2, <2>3, <2>5, SixEffect
  <2> QED
    BY <2>4 DEF h, st
<1> QED
  BY <1>1, <1>2, <1>3 DEF Opening, Inv, ProcessInv, MigrateInv

LEMMA SixStatement ==
  ASSUME Inv, NEW d \in Conn, RunStatement(d), pc[d] = "migrating", SixInv(d)
  PROVE  Inv' /\ pc' = pc
<1> DEFINE h == Here(d)
           st == Head(todo[d])
           s == Effect(st, h)
<1>1. h \in Content /\ Grown(h) /\ at[d] \in 1 .. Len(store)
  BY PlaceOf DEF Inv
<1>2. PICK k \in 1 .. 8 : todo[d] = Rest(Statements(6), k) /\ UpTo(h, 6) /\ SixStage(h, k)
  BY DEF SixInv
<1>3. /\ todo[d] # <<>> /\ st = Statements(6)[k]
      /\ Tail(todo[d]) = Rest(Statements(6), k + 1)
      /\ k = 8 => Tail(todo[d]) = <<>>
  BY <1>2, SixLeft
<1>4. 6 \notin h.versions
  BY <1>2 DEF UpTo
<1>5. /\ ~Fails(st, h) /\ SixStage(s, k + 1)
      /\ s \in Content /\ s.lock = h.lock /\ s.rows = h.rows /\ s.made = h.made
      /\ s.versions = IF k = 8 THEN h.versions \union {6} ELSE h.versions
  <2> HIDE DEF h, st, s
  <2>1. s = Effect(st, h)
    BY DEF s
  <2>2. /\ h \in Content /\ k \in 1 .. 8 /\ SixStage(h, k) /\ 6 \notin h.versions
        /\ st = Statements(6)[k]
    BY <1>1, <1>2, <1>3, <1>4
  <2> QED
    BY <2>1, <2>2, SixEffect
<1>6. /\ todo'[d] = Tail(todo[d]) /\ pc' = pc /\ Moves(d, s) /\ torn' = torn
  BY <1>5, StatementStep
<1>7. Others(d) = {}
  BY <1>3, MigratesAlone
<1> HIDE DEF h, st, s
<1>8. k # 8 => UpTo(s, 6)
  BY <1>2, <1>5 DEF UpTo
<1>9. k = 8 => UpTo(s, 7) /\ s.triggers = Sync /\ s.table = "new" /\ s.fts = Exact(s.rows)
  <2>1. {w \in Versions : w < 7} = {w \in Versions : w < 6} \union {6}
    <3>1. \A w \in Versions : w < 7 <=> w < 6 \/ w = 6
      BY VersionsAssumption
    <3> QED
      BY <3>1, VersionsAssumption
  <2>2. k = 8 => UpTo(s, 7)
    BY <1>2, <1>5, <2>1 DEF UpTo
  <2> QED
    BY <1>5, <2>2 DEF SixStage
<1>10. Grown(s)
  <2>1. CASE k # 8
    BY <1>1, <1>4, <1>5, <2>1 DEF Grown
  <2>2. CASE k = 8
    <3>1. UpTo(s, 7) /\ 7 \in 2 .. 7
      BY <1>9, <2>2
    <3>2. \A x \in s.versions, w \in {1} \union Versions : w < x => w \in s.versions
      BY <3>1, UpToOrdered
    <3>3. s.versions \ {1, 6} \subseteq s.made
      BY <1>1, <1>5, <2>2 DEF Grown
    <3> QED
      BY <1>9, <2>2, <3>2, <3>3 DEF Grown
  <2> QED
    BY <2>1, <2>2
<1>11. Complete(s)
  BY <1>4, <1>5, <1>9 DEF Complete
<1>12. TypeInv' => Own(d)'
  <2>1. Here(d)' = s
    BY <1>1, <1>6, MovesFrame DEF Here, Inv
  <2>2. MigrateInv(d)'
    <3>1. CASE k # 8
      <4>1. k + 1 \in 1 .. 8 /\ todo'[d] = Rest(Statements(6), k + 1)
        BY <1>3, <1>6, <3>1
      <4>2. UpTo(Here(d), 6)' /\ SixStage(Here(d)', k + 1)
        BY <1>5, <1>8, <2>1, <3>1 DEF UpTo
      <4>3. SixInv(d)'
        BY <4>1, <4>2 DEF SixInv, SixStage
      <4> QED
        BY <4>3 DEF MigrateInv
    <3>2. CASE k = 8
      <4>1. todo'[d] = <<>> /\ UpTo(Here(d), 7)'
        BY <1>3, <1>6, <1>9, <2>1, <3>2 DEF UpTo
      <4>2. Here(d)'.triggers = Sync
        BY <1>9, <2>1, <3>2
      <4>3. Made(d)'
        BY <4>2 DEF Made, Armed, Alone, Here
      <4> QED
        BY <4>1, <4>3 DEF MigrateInv
    <3> QED
      BY <3>1, <3>2
  <2> QED
    BY <1>6, <2>2 DEF Own, RunInv, DraftInv, SchemaInv, Loads, Running
<1> QED
  BY <1>5, <1>7, <1>10, <1>11, <1>12, StatementKeeps DEF h, st, s

(* What a load does to the triggers before it begins and after it ended.      *)
LEMMA DropStatement ==
  ASSUME Inv, NEW d \in Conn, RunStatement(d), pc[d] = "dropping"
  PROVE  Inv' /\ pc' = pc
<1> DEFINE h == Here(d)
           st == Head(todo[d])
           s == Effect(st, h)
<1>1. /\ h \in Content /\ Grown(h) /\ at[d] \in 1 .. Len(store)
      /\ Complete(h) \/ at[d] \in torn \/ Rebuilds(at[d])
  BY PlaceOf DEF Inv, IndexInv, Here
<1>2. PICK k \in 1 .. 3 : todo[d] = Rest(DropTriggers, k)
  BY DEF Inv, ProcessInv, RunInv
<1>3. d \in Loaders /\ Whole(h)
  BY DEF Inv, ProcessInv, RunInv, Loads, Running
<1>4. k \in {1, 2}
  <2>1. Rest(DropTriggers, 3) = <<>>
    BY DropStatements, RestEnds, 2 + 1 = 3
  <2> QED
    BY <1>2, <2>1 DEF RunStatement
<1>5. st = DropTriggers[k] /\ Tail(todo[d]) = Rest(DropTriggers, k + 1)
  <2>1. k \in 1 .. Len(DropTriggers) /\ DropTriggers \in Seq(Stats)
    BY <1>4, DropStatements
  <2>2. st = Head(Rest(DropTriggers, k)) /\ Tail(todo[d]) = Tail(Rest(DropTriggers, k))
    BY <1>2
  <2> QED
    BY <2>1, <2>2, RestStep
<1>6. st[1] = IF k = 1 THEN "drop_nodes_ai" ELSE "drop_nodes_ad"
  BY <1>4, <1>5, DropStatements DEF Word
<1>7. ~Fails(st, h)
  BY <1>4, <1>6 DEF Fails
<1>8. s = [h EXCEPT !.triggers = @ \ {IF k = 1 THEN "nodes_ai" ELSE "nodes_ad"}]
  <2>1. CASE k = 1
    BY <1>6, <2>1 DEF Effect
  <2>2. CASE k = 2
    BY <1>6, <2>2 DEF Effect
  <2> QED
    BY <1>4, <2>1, <2>2
<1>9. /\ todo'[d] = Tail(todo[d]) /\ pc' = pc /\ Moves(d, s) /\ torn' = torn
  BY <1>7, StatementStep
<1> HIDE DEF h, st, s
<1>10. /\ s \in Content /\ s.lock = h.lock /\ s.rows = h.rows /\ s.fts = h.fts
       /\ s.made = h.made /\ s.versions = h.versions /\ s.table = h.table
  BY <1>1, <1>8 DEF Content
<1>11. Grown(s) /\ (Complete(h) => Complete(s)) /\ Whole(s)
  BY <1>1, <1>3, <1>10 DEF Grown, Complete, Whole
<1>12. Rebuilds(at[d])'
  BY <1>9, MovesFrame DEF Rebuilds, Rebuilder, Moves
<1>13. Owes(d)'
  BY <1>9 DEF Owes
<1>14. TypeInv' => Own(d)'
  <2>1. Here(d)' = s
    BY <1>1, <1>9, MovesFrame DEF Here, Inv
  <2>2. Armed(at[d])'
    BY <1>13 DEF Armed
  <2>3. Whole(Here(d))'
    BY <1>11, <2>1 DEF Whole
  <2>4. \E j \in 1 .. 3 : todo'[d] = Rest(DropTriggers, j)
    <3>1. k + 1 \in 1 .. 3 /\ todo'[d] = Rest(DropTriggers, k + 1)
      BY <1>4, <1>5, <1>9
    <3> QED
      BY <3>1
  <2> QED
    BY <1>3, <1>9, <2>2, <2>3, <2>4
    DEF Own, RunInv, DraftInv, SchemaInv, MigrateInv, Loads, Running, DropTriggers
<1> QED
  BY <1>1, <1>3, <1>7, <1>10, <1>11, <1>12, <1>13, <1>14, StatementKeeps DEF h, st, s

LEMMA AfterStatement ==
  ASSUME Inv, NEW d \in Conn, RunStatement(d), pc[d] \in {"after", "undoing"}
  PROVE  Inv' /\ pc' = pc
<1> DEFINE h == Here(d)
           st == Head(todo[d])
           s == Effect(st, h)
<1>1. /\ h \in Content /\ Grown(h) /\ at[d] \in 1 .. Len(store)
      /\ Complete(h) \/ at[d] \in torn \/ Rebuilds(at[d])
  BY PlaceOf DEF Inv, IndexInv, Here
<1>2. PICK k \in 1 .. 3 : todo[d] = Rest(AfterLoad, k) /\ (pc[d] = "undoing" => k \in 2 .. 3)
  BY DEF Inv, ProcessInv, RunInv
<1>3. d \in Loaders /\ Whole(h)
  BY DEF Inv, ProcessInv, RunInv, Loads, Running
<1>4. k \in {1, 2}
  <2>1. Rest(AfterLoad, 3) = <<>>
    BY AfterStatements, RestEnds, 2 + 1 = 3
  <2> QED
    BY <1>2, <2>1 DEF RunStatement
<1>5. st = AfterLoad[k] /\ Tail(todo[d]) = Rest(AfterLoad, k + 1)
  <2>1. k \in 1 .. Len(AfterLoad) /\ AfterLoad \in Seq(Stats)
    BY <1>4, AfterStatements
  <2>2. st = Head(Rest(AfterLoad, k)) /\ Tail(todo[d]) = Tail(Rest(AfterLoad, k))
    BY <1>2
  <2> QED
    BY <2>1, <2>2, RestStep
<1>6. st[1] = IF k = 1 THEN "rebuild" ELSE "triggers_if_missing"
  BY <1>4, <1>5, AfterStatements DEF Word
<1>7. ~Fails(st, h)
  <2>1. h.table # "none"
    BY <1>3 DEF Whole
  <2> QED
    BY <1>4, <1>6, <2>1 DEF Fails
<1>8. /\ k = 1 => s = [h EXCEPT !.fts = Exact(h.rows)]
      /\ k = 2 => s = [h EXCEPT !.triggers = Sync]
  <2>1. CASE k = 1
    BY <1>6, <2>1 DEF Effect
  <2>2. CASE k = 2
    BY <1>6, <2>2 DEF Effect
  <2> QED
    BY <1>4, <2>1, <2>2
<1>9. /\ todo'[d] = Tail(todo[d]) /\ pc' = pc /\ Moves(d, s) /\ torn' = torn
  BY <1>7, StatementStep
<1> HIDE DEF h, st, s
<1>10. /\ s \in Content /\ s.lock = h.lock /\ s.rows = h.rows
       /\ s.made = h.made /\ s.versions = h.versions /\ s.table = h.table
       /\ k = 1 => s.fts = Exact(s.rows) /\ s.triggers = h.triggers
       /\ k = 2 => s.fts = h.fts /\ s.triggers = Sync
  <2>1. Exact(h.rows) \in SUBSET (Nat \X Row)
    BY <1>1, ExactRows DEF Content
  <2>2. CASE k = 1
    BY <1>1, <1>8, <2>1, <2>2 DEF Content
  <2>3. CASE k = 2
    BY <1>1, <1>8, <2>3 DEF Content
  <2> QED
    BY <1>4, <2>2, <2>3
<1>11. Grown(s) /\ (Complete(h) => Complete(s)) /\ Whole(s)
  BY <1>1, <1>3, <1>4, <1>10 DEF Grown, Complete, Whole
<1>12. Complete(s) \/ at[d] \in torn \/ Rebuilds(at[d])'
  <2>1. CASE k = 1
    BY <1>10, <2>1 DEF Complete
  <2>2. CASE k = 2
    <3>1. todo[d] # AfterLoad
      BY <1>2, <2>2, AfterRebuild
    <3>2. ~Rebuilder(d)
      BY <3>1 DEF Rebuilder
    <3>3. Rebuilds(at[d]) => Rebuilds(at[d])'
      <4> DEFINE i == at[d]
      <4>1. at' = at /\ (Rebuilds(i) => Rebuilds(i)')
        BY <1>9, <3>2, RebuildsStays DEF Inv, Moves
      <4> QED
        BY <4>1
    <3> QED
      BY <1>1, <1>11, <3>3
  <2> QED
    BY <1>4, <2>1, <2>2
<1>13. k = 1 => Owes(d)'
  <2>1. k = 1 => todo'[d] = AfterFailedLoad
    BY <1>5, <1>9, AfterRebuild, 1 + 1 = 2
  <2> QED
    BY <1>9, <2>1 DEF Owes, AfterFailedLoad
<1>14. TypeInv' => Own(d)'
  <2>1. Here(d)' = s
    BY <1>1, <1>9, MovesFrame DEF Here, Inv
  <2>2. Armed(at[d])'
    <3>1. k = 2 => Here(d)'.triggers = Sync
      BY <1>10, <2>1
    <3> QED
      BY <1>4, <1>13, <3>1 DEF Armed, Here
  <2>3. Whole(Here(d))'
    BY <1>11, <2>1 DEF Whole
  <2>4. \E j \in 2 .. 3 : todo'[d] = Rest(AfterLoad, j)
    <3>1. k + 1 \in 2 .. 3 /\ todo'[d] = Rest(AfterLoad, k + 1)
      BY <1>4, <1>5, <1>9
    <3> QED
      BY <3>1
  <2>5. \E j \in 1 .. 3 : todo'[d] = Rest(AfterLoad, j)
    BY <2>4
  <2> QED
    BY <1>3, <1>9, <2>2, <2>3, <2>4, <2>5
    DEF Own, RunInv, DraftInv, SchemaInv, MigrateInv, Loads, Running, AfterLoad
<1>15. /\ h.triggers = Sync => s.triggers = Sync
       /\ k = 2 => s.triggers = Sync
  BY <1>4, <1>10
<1> QED
  BY <1>4, <1>3, <1>7, <1>10, <1>11, <1>12, <1>13, <1>14, <1>15, StatementKeeps DEF h, st, s

(* Every statement: none fails.                                             *)
LEMMA StatementRuns ==
  ASSUME Inv, NEW d \in Conn, RunStatement(d)
  PROVE  Inv' /\ pc' = pc
<1>1. todo[d] # <<>>
  BY DEF RunStatement
<1>2. pc[d] \in {"schema", "migrating", "dropping", "after", "undoing"}
  BY <1>1 DEF Inv, TypeInv, ProcessInv, RunInv, Running, Loads
<1>3. pc[d] = "migrating" => OlderInv(d) \/ SixInv(d)
  BY <1>1 DEF Inv, ProcessInv, MigrateInv
<1> QED
  BY <1>2, <1>3, SchemaStatement, OlderStatement, SixStatement, DropStatement, AfterStatement

-----------------------------------------------------------------------------
(* A load, and the files that a sync stores and deletes.                      *)

LEMMA LoadStatements ==
  /\ For(0, << "drop_nodes_ai", "drop_nodes_ad" >>) = Rest(DropTriggers, 1)
  /\ AfterLoad = Rest(AfterLoad, 1) /\ AfterFailedLoad = Rest(AfterLoad, 2)
  /\ AfterLoad # <<>> /\ AfterFailedLoad # <<>>
<1>1. AfterLoad # <<>>
  <2>1. 1 \in 1 .. Len(AfterLoad)
    BY AfterStatements
  <2> QED
    BY <2>1, AfterStatements, RestStep, RestEnds
<1>2. Rest(AfterLoad, 2) # <<>>
  <2>1. 2 \in 1 .. Len(AfterLoad)
    BY AfterStatements
  <2> QED
    BY <2>1, AfterStatements, RestStep
<1> QED
  BY <1>1, <1>2, DropStatements, AfterStatements, AfterRebuild, RestEnds DEF DropTriggers

(* Of a process that found its file whole. *)
LEMMA RunningKept ==
  ASSUME NEW d \in Conn, pc'[d] \in Running, Whole(Here(d))', Armed(at[d])',
         pc'[d] \in Loads => d \in Loaders,
         pc'[d] \in {"ready", "loading"} => todo'[d] = <<>>,
         pc'[d] = "dropping" => \E k \in 1 .. 3 : todo'[d] = Rest(DropTriggers, k),
         pc'[d] = "after" => \E k \in 1 .. 3 : todo'[d] = Rest(AfterLoad, k),
         pc'[d] = "undoing" => \E k \in 2 .. 3 : todo'[d] = Rest(AfterLoad, k),
         DraftInv(d)'
  PROVE  Own(d)'
<1>1. RunInv(d)'
  BY DEF RunInv, Running, Loads, DropTriggers, AfterLoad
<1>2. SchemaInv(d)' /\ MigrateInv(d)'
  BY DEF SchemaInv, MigrateInv, Running, Loads
<1> QED
  BY <1>1, <1>2 DEF Own

LEMMA StartLoadStep ==
  ASSUME Inv, NEW d \in Conn, StartLoad(d)
  PROVE  Inv'
<1>1. /\ pc[d] = "ready" /\ d \in Loaders /\ pc'[d] = "dropping" /\ todo'[d] = Rest(DropTriggers, 1)
      /\ UNCHANGED <<store, live, backup, snap, spoiled, restoring, at, torn>> /\ draft' = draft
      /\ pc' = [pc EXCEPT ![d] = pc'[d]] /\ todo' = [todo EXCEPT ![d] = todo'[d]]
      /\ draft' = [draft EXCEPT ![d] = draft'[d]]
  BY Going, NotDrafting, LoadStatements DEF StartLoad, files, Inv
<1>2. Whole(Here(d))' /\ Armed(at[d])'
  BY <1>1 DEF Inv, ProcessInv, RunInv, Running, Whole, Here, Armed, Owes
<1>3. Own(d)'
  BY <1>1, <1>2, RunningKept DEF Running, Loads, DraftInv
<1>4. ~Owes(d) /\ ~Rebuilder(d)
  BY <1>1 DEF Owes, Rebuilder
<1> QED
  BY <1>1, <1>3, <1>4, StillStep DEF Opening, Running, Loads

LEMMA LoadBusyStep ==
  ASSUME Inv, NEW d \in Conn, LoadBusy(d)
  PROVE  Inv'
<1>1. /\ InLoad(d) /\ Waits(d) /\ pc'[d] = "ready" /\ todo'[d] = <<>>
      /\ UNCHANGED <<store, live, backup, snap, spoiled, restoring, at>> /\ draft' = draft
      /\ pc' = [pc EXCEPT ![d] = pc'[d]] /\ todo' = [todo EXCEPT ![d] = todo'[d]]
      /\ draft' = [draft EXCEPT ![d] = draft'[d]]
      /\ torn' = IF Here(d).triggers # Sync \/ Lags(Here(d)) THEN torn \union {at[d]} ELSE torn
  BY Going, NotDrafting DEF LoadBusy, files, Tear, Inv
<1>2. pc[d] \in {"dropping", "after", "undoing"}
  BY <1>1 DEF InLoad, Waits, Inv, ProcessInv, RunInv
<1>3. Whole(Here(d))'
  BY <1>1, <1>2 DEF Inv, ProcessInv, RunInv, Running, Loads, Whole, Here
<1>4. Armed(at[d])'
  BY <1>1 DEF Armed, Here
<1>5. Own(d)'
  BY <1>1, <1>3, <1>4, RunningKept DEF Running, Loads, DraftInv
<1>6. at[d] \in torn' \/ (Here(d).triggers = Sync /\ Complete(Here(d)))
  BY <1>1 DEF Lags, Complete
<1>7. torn \subseteq torn'
  BY <1>1
<1> QED
  BY <1>1, <1>2, <1>5, <1>6, <1>7, StillStep DEF Opening, Running, Loads

LEMMA EndLoadStep ==
  ASSUME Inv, NEW d \in Conn, EndLoad(d)
  PROVE  Inv'
<1>1. /\ pc[d] \in {"after", "undoing"} /\ todo[d] = <<>> /\ pc'[d] = "ready" /\ todo'[d] = <<>>
      /\ UNCHANGED <<store, live, backup, snap, spoiled, restoring, at, torn>> /\ draft' = draft
      /\ pc' = [pc EXCEPT ![d] = pc'[d]] /\ todo' = [todo EXCEPT ![d] = todo'[d]]
      /\ draft' = [draft EXCEPT ![d] = draft'[d]]
  BY Going, NotDrafting DEF EndLoad, files, Inv
<1>2. ~Owes(d) /\ ~Rebuilder(d)
  BY <1>1, LoadStatements DEF Owes, Rebuilder
<1>3. Whole(Here(d))'
  BY <1>1 DEF Inv, ProcessInv, RunInv, Running, Loads, Whole, Here
<1>4. Armed(at[d])'
  <2>1. Armed(at[d])
    BY <1>1 DEF Inv, ProcessInv, RunInv, Running, Loads
  <2>2. \A e \in Conn \ {d} : pc'[e] = pc[e] /\ todo'[e] = todo[e]
    BY <1>1 DEF Inv, TypeInv
  <2>3. \A e \in Conn \ {d} : Owes(e) <=> Owes(e)'
    BY <2>2 DEF Owes, AfterLoad, AfterFailedLoad
  <2> QED
    BY <1>1, <1>2, <2>1, <2>3 DEF Armed
<1>5. Own(d)'
  BY <1>1, <1>3, <1>4, RunningKept DEF Running, Loads, DraftInv
<1> QED
  BY <1>1, <1>2, <1>5, StillStep DEF Opening, Running, Loads

LEMMA LoadFileStep ==
  ASSUME Inv, NEW d \in Conn, NEW i \in Id, NEW t \in Text, LoadFile(d, i, t)
  PROVE  Inv'
<1> DEFINE s == draft[d].content
           stored == <<i, t>> \in {s.rows[r] : r \in DOMAIN s.rows}
           next == IF stored THEN s ELSE Replaced(s, i, t)
<1>1. /\ pc[d] = "loading" /\ UNCHANGED <<store, live, backup, snap, spoiled, restoring, at, pc, todo, torn>>
      /\ NewRow(next.rows) <= MaxRow + 1
      /\ draft' = [draft EXCEPT ![d] = [content |-> next, left |-> @.left \ {i}]]
  BY DEF LoadFile, files
<1>2. /\ s \in Content /\ s.lock = NoConn /\ SameSchema(Here(d), s) /\ Here(d).lock = d
  BY <1>1 DEF Inv, ProcessInv, DraftInv
<1>3. next \in Content /\ next.lock = NoConn /\ SameSchema(Here(d), next)
  <2>1. CASE stored
    BY <1>2, <2>1
  <2>2. CASE ~stored
    <3> HIDE DEF s, stored
    <3>1. /\ next \in Content /\ SameSchema(s, next) /\ next.lock = s.lock
      BY <1>1, <1>2, <2>2, ReplacedIs
    <3> QED
      BY <1>2, <3>1 DEF SameSchema
  <2> QED
    BY <2>1, <2>2
<1>4. draft'[d].content = next /\ draft' = [draft EXCEPT ![d] = draft'[d]]
  BY <1>1 DEF Inv, TypeInv
<1> HIDE DEF s, stored, next
<1>5. DraftInv(d)'
  BY <1>1, <1>2, <1>3, <1>4 DEF DraftInv, Here, SameSchema
<1>6. Whole(Here(d))' /\ Armed(at[d])'
  BY <1>1 DEF Inv, ProcessInv, RunInv, Running, Loads, Whole, Here, Armed, Owes
<1>7. d \in Loaders /\ todo'[d] = <<>> /\ pc'[d] = "loading"
  BY <1>1 DEF Inv, ProcessInv, RunInv, Loads
<1>8. Own(d)'
  BY <1>5, <1>6, <1>7, RunningKept DEF Running, Loads
<1>9. pc' = [pc EXCEPT ![d] = pc'[d]] /\ todo' = [todo EXCEPT ![d] = todo'[d]]
  BY <1>1 DEF Inv, TypeInv
<1>10. Owes(d)' /\ Rebuilder(d)'
  BY <1>7 DEF Owes, Rebuilder
<1> QED
  BY <1>1, <1>4, <1>7, <1>8, <1>9, <1>10, StillStep DEF Opening, Running, Loads

LEMMA OneLoading ==
  ASSUME Inv, NEW d \in Conn, Here(d).lock \in {d, NoConn}
  PROVE  \A e \in Others(d) : pc[e] # "loading"
BY RolesAssumption DEF Inv, ProcessInv, DraftInv, Others, Here

LEMMA BeginLoadStep ==
  ASSUME Inv, NEW d \in Conn, BeginLoad(d)
  PROVE  Inv'
<1> DEFINE h == Here(d)
           s == [h EXCEPT !.lock = d]
<1>1. /\ pc[d] = "dropping" /\ h.lock = NoConn /\ pc'[d] = "loading" /\ todo'[d] = <<>>
      /\ store' = [store EXCEPT ![at[d]] = s]
      /\ UNCHANGED <<live, backup, snap, spoiled, restoring, at, torn>>
      /\ pc' = [pc EXCEPT ![d] = pc'[d]] /\ todo' = [todo EXCEPT ![d] = todo'[d]]
  BY Going DEF BeginLoad, Put, files, Inv
<1>2. draft'[d].content = h /\ draft' = [draft EXCEPT ![d] = draft'[d]]
  BY DEF BeginLoad, Inv, TypeInv
<1>3. /\ h \in Content /\ Grown(h) /\ at[d] \in 1 .. Len(store)
      /\ Complete(h) \/ at[d] \in torn \/ Rebuilds(at[d])
      /\ Whole(h) /\ d \in Loaders
  BY <1>1, PlaceOf DEF Inv, IndexInv, Here, ProcessInv, RunInv, Running, Loads
<1>4. Moves(d, s)
  BY <1>1, <1>2 DEF Moves
<1>5. \A e \in Others(d) : pc[e] # "loading"
  BY <1>1, OneLoading
<1> HIDE DEF h
<1>6. /\ s \in Content /\ s.lock = d /\ SameSchema(h, s) /\ s.rows = h.rows /\ s.fts = h.fts
  BY <1>3 DEF Content, SameSchema
<1>7. Grown(s) /\ Whole(s) /\ (Complete(h) => Complete(s))
  BY <1>3, <1>6 DEF Grown, Whole, Complete, SameSchema
<1> HIDE DEF s
<1>8. Owes(d)'
  BY <1>1 DEF Owes
<1>9. Beside(d, s)
  BY <1>5, <1>6, <1>7, <1>8 DEF Beside, SameSchema, h
<1>10. Rebuilds(at[d])'
  BY <1>1 DEF Rebuilds, Rebuilder
<1>11. TypeInv' => Own(d)'
  <2>1. Here(d)' = s
    BY <1>3, <1>4, MovesFrame DEF Here, Inv
  <2>2. DraftInv(d)'
    BY <1>1, <1>2, <1>3, <1>6, <2>1 DEF DraftInv, SameSchema
  <2>3. Whole(Here(d))' /\ Armed(at[d])'
    BY <1>7, <1>8, <2>1 DEF Whole, Armed
  <2> QED
    BY <1>1, <1>3, <2>2, <2>3, RunningKept DEF Running, Loads
<1>12. Locks(d, s)
  BY <1>1, <1>6 DEF Locks
<1> QED
  BY <1>1, <1>3, <1>4, <1>6, <1>7, <1>9, <1>10, <1>11, <1>12, StepKeeps DEF Opening, Running, Loads

LEMMA CommitLoadStep ==
  ASSUME Inv, NEW d \in Conn, CommitLoad(d)
  PROVE  Inv'
<1> DEFINE h == Here(d)
           s == draft[d].content
<1>1. /\ pc[d] = "loading" /\ pc'[d] = "after" /\ todo'[d] = AfterLoad
      /\ store' = [store EXCEPT ![at[d]] = s]
      /\ UNCHANGED <<live, backup, snap, spoiled, restoring, at, torn>>
      /\ pc' = [pc EXCEPT ![d] = pc'[d]] /\ todo' = [todo EXCEPT ![d] = todo'[d]]
  BY Going DEF CommitLoad, Put, files, Inv
<1>2. draft' = [draft EXCEPT ![d] = draft'[d]]
  BY DEF CommitLoad, Inv, TypeInv
<1>3. /\ h \in Content /\ Grown(h) /\ at[d] \in 1 .. Len(store)
      /\ Whole(h) /\ d \in Loaders
      /\ h.lock = d /\ s \in Content /\ s.lock = NoConn /\ SameSchema(h, s)
  BY <1>1, PlaceOf DEF Inv, Here, ProcessInv, RunInv, DraftInv, Running, Loads
<1>4. Moves(d, s)
  BY <1>1, <1>2 DEF Moves
<1>5. \A e \in Others(d) : pc[e] # "loading"
  BY <1>3, OneLoading
<1> HIDE DEF h, s
<1>6. Grown(s) /\ Whole(s)
  BY <1>3 DEF Grown, Whole, SameSchema
<1>7. Owes(d)' /\ Rebuilds(at[d])'
  BY <1>1 DEF Owes, Rebuilds, Rebuilder, AfterLoad
<1>8. Beside(d, s)
  BY <1>3, <1>5, <1>6, <1>7 DEF Beside, SameSchema, h
<1>9. TypeInv' => Own(d)'
  <2>1. Here(d)' = s
    BY <1>3, <1>4, MovesFrame DEF Here, Inv
  <2>2. Whole(Here(d))' /\ Armed(at[d])'
    BY <1>6, <1>7, <2>1 DEF Whole, Armed
  <2>3. \E k \in 1 .. 3 : todo'[d] = Rest(AfterLoad, k)
    BY <1>1, LoadStatements, 1 \in 1 .. 3
  <2> QED
    BY <1>1, <1>3, <2>2, <2>3, RunningKept DEF Running, Loads, DraftInv
<1>10. Locks(d, s)
  BY <1>3 DEF Locks
<1> QED
  BY <1>1, <1>3, <1>4, <1>6, <1>7, <1>8, <1>9, <1>10, StepKeeps DEF Opening, Running, Loads

LEMMA FailLoadStep ==
  ASSUME Inv, NEW d \in Conn, FailLoad(d)
  PROVE  Inv'
<1> DEFINE h == Here(d)
           s == [h EXCEPT !.lock = NoConn]
<1>1. /\ pc[d] = "loading" /\ pc'[d] = "undoing" /\ todo'[d] = AfterFailedLoad
      /\ store' = [store EXCEPT ![at[d]] = s]
      /\ UNCHANGED <<live, backup, snap, spoiled, restoring, at>>
      /\ pc' = [pc EXCEPT ![d] = pc'[d]] /\ todo' = [todo EXCEPT ![d] = todo'[d]]
      /\ torn' = IF Lags(h) THEN torn \union {at[d]} ELSE torn
  BY Going DEF FailLoad, Put, files, Tear, Inv
<1>2. draft' = [draft EXCEPT ![d] = draft'[d]]
  BY DEF FailLoad, Inv, TypeInv
<1>3. /\ h \in Content /\ Grown(h) /\ at[d] \in 1 .. Len(store)
      /\ Complete(h) \/ at[d] \in torn \/ Rebuilds(at[d])
      /\ Whole(h) /\ d \in Loaders /\ h.lock = d
  BY <1>1, PlaceOf DEF Inv, IndexInv, Here, ProcessInv, RunInv, DraftInv, Running, Loads
<1>4. Moves(d, s)
  <2>1. torn \subseteq torn'
    BY <1>1
  <2> QED
    BY <1>1, <1>2, <2>1 DEF Moves
<1>5. \A e \in Others(d) : pc[e] # "loading"
  BY <1>3, OneLoading
<1> HIDE DEF h
<1>6. /\ s \in Content /\ s.lock = NoConn /\ SameSchema(h, s) /\ s.rows = h.rows /\ s.fts = h.fts
  BY <1>3 DEF Content, SameSchema
<1>7. Grown(s) /\ Whole(s) /\ (Complete(h) => Complete(s))
  BY <1>3, <1>6 DEF Grown, Whole, Complete, SameSchema
<1> HIDE DEF s
<1>8. Owes(d)'
  BY <1>1 DEF Owes, AfterFailedLoad
<1>9. Beside(d, s)
  BY <1>5, <1>6, <1>7, <1>8 DEF Beside, SameSchema, h
<1>10. Complete(s) \/ at[d] \in torn'
  BY <1>1, <1>7 DEF Lags, Complete
<1>11. TypeInv' => Own(d)'
  <2>1. Here(d)' = s
    BY <1>3, <1>4, MovesFrame DEF Here, Inv
  <2>2. Whole(Here(d))' /\ Armed(at[d])'
    BY <1>7, <1>8, <2>1 DEF Whole, Armed
  <2>3. \E k \in 2 .. 3 : todo'[d] = Rest(AfterLoad, k)
    BY <1>1, LoadStatements, 2 \in 2 .. 3
  <2> QED
    BY <1>1, <1>3, <2>2, <2>3, RunningKept DEF Running, Loads, DraftInv
<1>12. Locks(d, s)
  BY <1>6 DEF Locks
<1> QED
  BY <1>1, <1>3, <1>4, <1>6, <1>7, <1>9, <1>10, <1>11, <1>12, StepKeeps DEF Opening, Running, Loads

(* A file stored or deleted: its triggers keep the index, or the load that        *)
(* dropped them will rebuild it.                                             *)
LEMMA WriteKeeps ==
  ASSUME Inv, NEW d \in Conn, pc[d] = "ready", Free(d), NEW s \in Content,
         SameSchema(Here(d), s), s.lock = Here(d).lock,
         Here(d).triggers = Sync /\ Here(d).fts = Exact(Here(d).rows) => s.fts = Exact(s.rows),
         Put(d, s), Wrote(d), UNCHANGED <<files, pc, at, todo, draft>>
  PROVE  Inv'
<1> DEFINE h == Here(d)
<1>1. /\ h \in Content /\ Grown(h) /\ at[d] \in 1 .. Len(store)
      /\ Complete(h) \/ at[d] \in torn \/ Rebuilds(at[d])
      /\ Whole(h) /\ Armed(at[d]) /\ todo[d] = <<>>
  BY PlaceOf DEF Inv, IndexInv, Here, ProcessInv, RunInv, Running, Loads
<1>2. h.lock = NoConn
  <2>1. h.lock = d => pc[d] = "loading"
    BY <1>1, RolesAssumption DEF Inv, LockInv, Here
  <2> QED
    BY <2>1 DEF Free
<1>3. Moves(d, s)
  <2>1. pc' = [pc EXCEPT ![d] = pc'[d]] /\ todo' = [todo EXCEPT ![d] = todo'[d]]
    BY DEF Inv, TypeInv
  <2> QED
    BY <2>1, NotDrafting DEF Moves, Put, Wrote, Tear, files, Inv
<1>4. \A e \in Others(d) : pc[e] # "loading"
  BY <1>2, OneLoading
<1> HIDE DEF h
<1>5. Grown(s) /\ Whole(s)
  BY <1>1 DEF Grown, Whole, SameSchema, h
<1>6. Beside(d, s)
  BY <1>1, <1>4, <1>5 DEF Beside, SameSchema, h, Owes
<1>7. Complete(s) \/ at[d] \in torn' \/ Rebuilds(at[d])'
  <2>1. CASE Rebuilds(at[d])
    BY <2>1 DEF Rebuilds, Rebuilder, AfterLoad
  <2>2. CASE at[d] \in torn
    BY <1>3, <2>2 DEF Moves
  <2>3. CASE h.triggers = Sync /\ Complete(h)
    <3>1. 6 \in h.versions
      BY <1>1, VersionsAssumption DEF Whole
    <3> QED
      BY <2>3, <3>1 DEF Complete, h
  <2>4. CASE \E e \in Conn : at[e] = at[d] /\ Owes(e) /\ ~Rebuilder(e)
    <3>1. PICK e \in Conn : at[e] = at[d] /\ Owes(e) /\ ~Rebuilder(e)
      BY <2>4
    <3>2. e \in Others(d) /\ pc[e] \in {"after", "undoing"}
      BY <3>1 DEF Owes, Rebuilder, Others
    <3>3. ~Unbuilt(e)
      BY <3>1, <3>2, AfterHasRebuild DEF Owes, Rebuilder, Unbuilt
    <3> QED
      BY <3>2, <3>3 DEF Wrote, Tear
  <2> QED
    BY <1>1, <2>1, <2>2, <2>3, <2>4 DEF Armed, Here, Rebuilds, h
<1>8. TypeInv' => Own(d)'
  <2>1. Here(d)' = s
    BY <1>1, <1>3, MovesFrame DEF Here, Inv
  <2>2. Armed(at[d])'
    <3>1. Here(d).triggers = Sync \/ Owes(d) => s.triggers = Sync
      BY DEF SameSchema, Owes
    <3> QED
      BY <1>1, <1>3, <3>1, ArmedStays
  <2>3. Whole(Here(d))'
    BY <1>5, <2>1 DEF Whole
  <2> QED
    BY <1>1, <2>2, <2>3, RunningKept DEF Running, Loads, DraftInv
<1>9. Locks(d, s)
  BY <1>2 DEF Locks, h
<1> QED
  BY <1>1, <1>3, <1>5, <1>6, <1>7, <1>8, <1>9, StepKeeps DEF Opening, Running, Loads

LEMMA WriteSteps ==
  ASSUME Inv, NEW d \in Conn, NEW i \in Id,
         DeleteFile(d, i) \/ \E t \in Text : StoreFile(d, i, t)
  PROVE  Inv'
<1> DEFINE h == Here(d)
<1>1. pc[d] = "ready"
  BY DEF DeleteFile, StoreFile
<1>2. h \in Content
  BY <1>1, PlaceOf DEF Inv
<1>3. CASE DeleteFile(d, i)
  <2> DEFINE s == Without(h, i)
  <2>1. /\ s \in Content /\ SameSchema(h, s) /\ s.lock = h.lock
        /\ h.triggers = Sync /\ h.fts = Exact(h.rows) => s.fts = Exact(s.rows)
    BY <1>2, WithoutIs
  <2>2. Free(d) /\ Put(d, s) /\ Wrote(d) /\ UNCHANGED <<files, pc, at, todo, draft>>
    BY <1>3 DEF DeleteFile
  <2> HIDE DEF s
  <2> QED
    BY <1>1, <2>1, <2>2, WriteKeeps
<1>4. CASE \E t \in Text : StoreFile(d, i, t)
  <2>1. PICK t \in Text : StoreFile(d, i, t)
    BY <1>4
  <2> DEFINE s == Replaced(h, i, t)
  <2>2. /\ Free(d) /\ Put(d, s) /\ Wrote(d) /\ UNCHANGED <<files, pc, at, todo, draft>>
        /\ NewRow(h.rows) <= MaxRow
    BY <2>1 DEF StoreFile
  <2>3. NewRow(h.rows) <= MaxRow + 1
    <3>1. h.rows \in Rows
      BY <1>2 DEF Content
    <3> QED
      BY <2>2, <3>1, NewRowIs, BoundsAssumption
  <2>4. /\ s \in Content /\ SameSchema(h, s) /\ s.lock = h.lock
        /\ h.triggers = Sync /\ h.fts = Exact(h.rows) => s.fts = Exact(s.rows)
    BY <1>2, <2>3, ReplacedIs
  <2> HIDE DEF s
  <2> QED
    BY <1>1, <2>2, <2>4, WriteKeeps
<1> QED
  BY <1>3, <1>4

-----------------------------------------------------------------------------
(* Processes that come and go, and files that are moved away or put in place.   *)

LEMMA EmptyIs ==
  /\ Empty \in Content /\ Empty.lock = NoConn /\ Grown(Empty) /\ Complete(Empty)
<1> DEFINE none == [r \in {} |-> r]
<1>1. none \in Rows
  <2>1. none \in [{} -> Row] /\ {} \subseteq 1 .. MaxRow + 1
    OBVIOUS
  <2> HIDE DEF none
  <2> QED
    BY <2>1, RowsFrom
<1>2. Empty = [rows |-> none, fts |-> {}, triggers |-> {}, table |-> "none",
               made |-> {}, versions |-> {}, lock |-> NoConn]
  BY DEF Empty
<1> HIDE DEF none
<1> QED
  BY <1>1, <1>2 DEF Content, Grown, Complete

LEMMA KeptIs ==
  ASSUME NEW t \in Seq(Content), NEW open, NEW named, NEW k, k = Kept(t, open, named)
  PROVE  /\ k \in Seq(Content) /\ Len(k) = Len(t)
         /\ \A i \in 1 .. Len(t) : k[i] \in {t[i], Empty}
         /\ \A c \in Conn : open[c] \in 1 .. Len(t) => k[open[c]] = t[open[c]]
         /\ named \in 1 .. Len(t) => k[named] = t[named]
<1>1. k = [i \in 1 .. Len(t) |->
             IF i = named \/ \E c \in Conn : open[c] = i THEN t[i] ELSE Empty]
  BY DEF Kept
<1>2. Empty \in Content /\ \A i \in 1 .. Len(t) : t[i] \in Content
  BY EmptyIs
<1>3. k \in Seq(Content) /\ Len(k) = Len(t)
  BY <1>1, <1>2
<1> QED
  BY <1>1, <1>3

Same(s, t) == SameSchema(s, t) /\ t.rows = s.rows /\ t.fts = s.fts

(* A process that goes on as it was, in a file that holds what it held.        *)
LEMMA ViewKept ==
  ASSUME NEW c \in Conn, Own(c),
         pc'[c] = pc[c], at'[c] = at[c], todo'[c] = todo[c], draft'[c] = draft[c],
         pc[c] # "closed" => Same(Here(c), Here(c)'),
         pc[c] = "loading" => Here(c)'.lock = c,
         pc[c] # "closed" /\ Armed(at[c]) => Armed(at[c])'
  PROVE  Own(c)'
<1>1. CASE pc[c] = "closed"
  BY <1>1 DEF Own, RunInv, DraftInv, SchemaInv, MigrateInv, Loads, Running
<1>2. CASE pc[c] # "closed"
  <2>1. /\ Here(c)'.triggers = Here(c).triggers /\ Here(c)'.table = Here(c).table
        /\ Here(c)'.made = Here(c).made /\ Here(c)'.versions = Here(c).versions
        /\ Here(c)'.rows = Here(c).rows /\ Here(c)'.fts = Here(c).fts
    BY <1>2 DEF Same, SameSchema
  <2>2. Armed(at[c]) => Armed(at[c])'
    BY <1>2
  <2>3. RunInv(c)'
    BY <2>1, <2>2 DEF Own, RunInv, Whole, AfterLoad, DropTriggers
  <2>4. DraftInv(c)'
    BY <2>1 DEF Own, DraftInv, SameSchema
  <2>5. Made(c) => Made(c)'
    BY <2>1, <2>2 DEF Made, Alone
  <2>6. SchemaInv(c)'
    BY <2>1, <2>5 DEF Own, SchemaInv, Schema
  <2>7. MigrateInv(c)'
    <3>1. \A v : UpTo(Here(c), v) => UpTo(Here(c)', v)
      BY <2>1 DEF UpTo
    <3>2. OlderInv(c) => OlderInv(c)'
      <4>1. SUFFICES ASSUME OlderInv(c) PROVE OlderInv(c)'
        OBVIOUS
      <4>2. PICK v \in Versions \ {6}, k \in 1 .. 2 :
              /\ todo[c] = Then(Rest(Statements(v), k), From(v + 1))
              /\ UpTo(Here(c), v) /\ Here(c).table # "none"
              /\ k = 2 => v \in Here(c).made
        BY <4>1 DEF OlderInv
      <4>3. UpTo(Here(c), v)'
        BY <2>1, <4>2 DEF UpTo
      <4> QED
        BY <2>1, <4>2, <4>3 DEF OlderInv
    <3>3. SixInv(c) => SixInv(c)'
      <4>1. SUFFICES ASSUME SixInv(c) PROVE SixInv(c)'
        OBVIOUS
      <4>2. PICK k \in 1 .. 8 : /\ todo[c] = Rest(Statements(6), k)
                                /\ UpTo(Here(c), 6) /\ SixStage(Here(c), k)
        BY <4>1 DEF SixInv
      <4>3. UpTo(Here(c), 6)' /\ SixStage(Here(c)', k)
        BY <2>1, <4>2 DEF UpTo, SixStage
      <4>4. SixStage(Here(c), k)'
        BY <4>3 DEF SixStage
      <4> QED
        BY <4>2, <4>3, <4>4 DEF SixInv
    <3>4. UpTo(Here(c), 7) => UpTo(Here(c), 7)'
      BY <2>1 DEF UpTo
    <3> QED
      BY <2>5, <3>2, <3>3, <3>4 DEF Own, MigrateInv
  <2> QED
    BY <2>3, <2>4, <2>6, <2>7 DEF Own
<1> QED
  BY <1>1, <1>2

(* File i after a step that all of P sit out: as it was, but for a transaction  *)
(* of another that is rolled back, or new and open in none of them.           *)
Stays(i, P) ==
  /\ i \in 1 .. Len(store) /\ Same(store[i], store'[i])
  /\ \/ store'[i].lock = store[i].lock /\ store[i].lock \in P \union {NoConn}
     \/ store'[i].lock = NoConn /\ store[i].lock \notin P
Appears(i, P) ==
  /\ store'[i].lock = NoConn /\ (Complete(store'[i]) \/ i \in torn')
  /\ \A e \in P : at[e] # i

LEMMA FilesKept ==
  ASSUME Inv, NEW P, P \subseteq Conn, TypeInv', TurnInv', LostInv', SnapInv',
         torn \subseteq torn',
         \A e \in P : pc'[e] = pc[e] /\ at'[e] = at[e] /\ todo'[e] = todo[e] /\ draft'[e] = draft[e],
         \A i \in 1 .. Len(store') : Stays(i, P) \/ Appears(i, P),
         \A e \in Conn \ P :
           /\ Own(e)'
           /\ Owes(e) => at[e] \in torn' \/ \A f \in P : at[f] # at[e]
           /\ Rebuilder(e) => at[e] \in torn' \/ Complete(store'[at[e]])
  PROVE  Inv'
<1>1. LockInv'
  <2>1. SUFFICES ASSUME NEW i \in 1 .. Len(store'), store'[i].lock # NoConn
                 PROVE  at'[store'[i].lock] = i /\ pc'[store'[i].lock] = "loading"
    BY DEF LockInv
  <2>2. i \in 1 .. Len(store) /\ store'[i].lock = store[i].lock /\ store[i].lock \in P
    BY <2>1 DEF Stays, Appears
  <2> QED
    BY <2>1, <2>2 DEF Inv, LockInv
<1>2. ProcessInv'
  <2>1. SUFFICES ASSUME NEW c \in P PROVE Own(c)'
    BY DEF ProcessInv, Own
  <2>2. CASE pc[c] = "closed"
    BY <2>1, <2>2, ViewKept DEF Inv, ProcessInv, Own
  <2>3. CASE pc[c] # "closed"
    <3>1. at'[c] = at[c] /\ pc'[c] = pc[c] /\ c \in Conn
      BY <2>1
    <3>2. at[c] \in 1 .. Len(store')
      <4>1. at'[c] \in 0 .. Len(store') /\ at'[c] # 0 /\ Len(store') \in Nat
        BY <2>3, <3>1 DEF TypeInv
      <4> QED
        BY <3>1, <4>1
    <3>3. Stays(at[c], P)
      BY <2>1, <3>2 DEF Appears
    <3>4. Same(Here(c), Here(c)')
      BY <3>1, <3>3 DEF Stays, Here
    <3>5. pc[c] = "loading" => Here(c)'.lock = c
      BY <2>1, <3>1, <3>3 DEF Stays, Here, Inv, ProcessInv, DraftInv
    <3>6. Armed(at[c]) => Armed(at[c])'
      <4>1. \A e \in P : Owes(e) <=> Owes(e)'
        BY DEF Owes, AfterLoad, AfterFailedLoad
      <4>2. store[at[c]].triggers = Sync => store'[at[c]].triggers = Sync
        BY <3>3 DEF Stays, Same, SameSchema
      <4>3. ASSUME NEW e \in Conn, at[e] = at[c], Owes(e)
            PROVE  at[c] \in torn' \/ (at'[e] = at[c] /\ Owes(e)')
        <5>1. CASE e \in P
          BY <4>1, <4>3, <5>1
        <5>2. CASE e \notin P
          BY <2>1, <4>3, <5>2
        <5> QED
          BY <5>1, <5>2
      <4> QED
        BY <3>1, <4>2, <4>3 DEF Armed
    <3>7. Own(c)
      BY <3>1 DEF Inv, ProcessInv, Own
    <3> QED
      BY <2>1, <3>1, <3>4, <3>5, <3>6, <3>7, ViewKept
  <2> QED
    BY <2>2, <2>3
<1>3. IndexInv'
  <2>1. SUFFICES ASSUME NEW i \in 1 .. Len(store') \ torn'
                 PROVE  Rebuilds(i)' \/ Complete(store'[i])
    BY DEF IndexInv, Complete
  <2>2. CASE Stays(i, P)
    <3>1. Rebuilds(i) \/ Complete(store[i])
      BY <2>1, <2>2 DEF Inv, IndexInv, Stays
    <3>2. Rebuilds(i) => Rebuilds(i)' \/ Complete(store'[i])
      <4>1. SUFFICES ASSUME NEW e \in Conn, at[e] = i, Rebuilder(e)
                     PROVE  Rebuilds(i)' \/ Complete(store'[i])
        BY DEF Rebuilds
      <4>2. CASE e \in P
        BY <4>1, <4>2 DEF Rebuilds, Rebuilder, AfterLoad
      <4>3. CASE e \notin P
        BY <2>1, <4>1, <4>3
      <4> QED
        BY <4>2, <4>3
    <3>3. Complete(store[i]) => Complete(store'[i])
      BY <2>2 DEF Stays, Same, SameSchema, Complete
    <3> QED
      BY <3>1, <3>2, <3>3
  <2>3. CASE Appears(i, P)
    BY <2>1, <2>3 DEF Appears
  <2> QED
    BY <2>1, <2>2, <2>3
<1> QED
  BY <1>1, <1>2, <1>3 DEF Inv

LEMMA Locker ==
  ASSUME Inv, NEW i \in 1 .. Len(store)
  PROVE  /\ store[i] \in Content /\ Grown(store[i]) /\ store[i].lock \in Conn \union {NoConn}
         /\ store[i].lock # NoConn => pc[store[i].lock] = "loading"
<1>1. store[i] \in Content
  BY DEF Inv, TypeInv
<1> QED
  BY <1>1 DEF Inv, TypeInv, LockInv, Content

(* The end of a process, which leaves its file as s.                          *)
LEMMA LeaveKeeps ==
  ASSUME Inv, NEW d \in Conn, pc[d] # "closed", NEW s \in Content, Same(Here(d), s),
         s.lock = (IF Here(d).lock = d THEN NoConn ELSE Here(d).lock),
         Leave(d, s), UNCHANGED files, torn \subseteq torn',
         Owes(d) => at[d] \in torn' \/ Others(d) = {},
         Rebuilder(d) => at[d] \in torn' \/ Complete(Here(d))
  PROVE  Inv'
<1> DEFINE t == [store EXCEPT ![at[d]] = s]
           P == Conn \ {d}
<1>1. /\ at[d] \in 1 .. Len(store) /\ Len(store) \in Nat /\ store \in Seq(Content)
      /\ Here(d) \in Content /\ Grown(Here(d))
  BY PlaceOf DEF Inv, TypeInv
<1>2. /\ t \in Seq(Content) /\ Len(t) = Len(store) /\ t[at[d]] = s
      /\ \A i \in 1 .. Len(store) : i # at[d] => t[i] = store[i]
  BY <1>1
<1>3. store' = Kept(t, at', live) /\ UNCHANGED <<live, backup, snap, spoiled, restoring>>
  BY DEF Leave, files
<1>4. /\ pc'[d] = "closed" /\ todo'[d] = <<>> /\ at'[d] = 0
      /\ \A e \in P : pc'[e] = pc[e] /\ at'[e] = at[e] /\ todo'[e] = todo[e] /\ draft'[e] = draft[e]
      /\ pc' \in [Conn -> {"closed", "schema", "migrating", "lost"} \union Running]
      /\ todo' = [c \in Conn |-> todo'[c]] /\ draft' = [c \in Conn |-> draft'[c]]
      /\ at' \in [Conn -> 0 .. Len(store)]
  <2>1. /\ pc' = [pc EXCEPT ![d] = "closed"] /\ todo' = [todo EXCEPT ![d] = <<>>]
        /\ at' = [at EXCEPT ![d] = 0] /\ draft' = [draft EXCEPT ![d] = NoDraft]
    BY DEF Leave, Go
  <2>2. /\ todo' = [c \in Conn |-> todo'[c]] /\ todo'[d] = <<>>
        /\ \A e \in P : todo'[e] = todo[e]
    BY <2>1 DEF Inv, TypeInv
  <2>3. /\ draft' = [c \in Conn |-> draft'[c]]
        /\ \A e \in P : draft'[e] = draft[e]
    BY <2>1 DEF Inv, TypeInv
  <2>4. /\ pc' \in [Conn -> {"closed", "schema", "migrating", "lost"} \union Running]
        /\ pc'[d] = "closed" /\ \A e \in P : pc'[e] = pc[e]
    BY <2>1 DEF Inv, TypeInv
  <2>5. /\ at' \in [Conn -> 0 .. Len(store)] /\ at'[d] = 0 /\ \A e \in P : at'[e] = at[e]
    BY <1>1, <2>1 DEF Inv, TypeInv
  <2> QED
    BY <2>2, <2>3, <2>4, <2>5
<1> HIDE DEF t
<1>5. /\ store' \in Seq(Content) /\ Len(store') = Len(t)
      /\ \A i \in 1 .. Len(t) : store'[i] \in {t[i], Empty}
      /\ \A c \in Conn : at'[c] \in 1 .. Len(t) => store'[at'[c]] = t[at'[c]]
  BY <1>2, <1>3, KeptIs
<1>6. TypeInv'
  <2>1. ASSUME NEW i \in 1 .. Len(store') PROVE Grown(store'[i])
    <3>1. Grown(s)
      BY <1>1 DEF Same, SameSchema, Grown
    <3>2. Grown(t[i])
      BY <1>2, <1>5, <3>1 DEF Inv, TypeInv
    <3> QED
      BY <1>2, <1>5, <3>2, EmptyIs
  <2>2. live' \in 0 .. Len(store') /\ backup' \in 0 .. Len(store')
    BY <1>2, <1>3, <1>5 DEF Inv, TypeInv
  <2>3. \A c \in Conn : pc'[c] = "closed" <=> at'[c] = 0
    BY <1>4 DEF Inv, TypeInv
  <2> QED
    BY <1>2, <1>4, <1>5, <2>1, <2>2, <2>3 DEF TypeInv
<1>7. TurnInv'
  <2>1. SUFFICES ASSUME NEW x \in Conn, NEW y \in Conn, Opening(x)', Opening(y)',
                        at'[x] = at'[y], ~Current(store'[at'[x]])
                 PROVE  x = y
    BY DEF TurnInv, Here, Current
  <2>2. Opening(x) /\ Opening(y) /\ at'[x] = at[x] /\ at'[y] = at[y]
    BY <1>4, <2>1 DEF Opening
  <2>3. at[x] \in 1 .. Len(store)
    BY <2>2, PlaceOf DEF Inv, Opening
  <2>4. store'[at[x]] = t[at[x]]
    BY <1>2, <1>5, <2>2, <2>3
  <2>5. ~Current(store[at[x]])
    BY <1>2, <2>1, <2>2, <2>3, <2>4 DEF Current, Same, SameSchema, Here
  <2> QED
    BY <2>1, <2>2, <2>5 DEF Inv, TurnInv, Here
<1>14. LostInv'
  BY <1>3, <1>4 DEF Inv, LostInv
<1>8. SnapInv'
  BY <1>3 DEF Inv, SnapInv, Grown, Complete
<1>9. ASSUME NEW i \in 1 .. Len(store')
      PROVE  Stays(i, P) \/ Appears(i, P)
  <2>1. i \in 1 .. Len(store)
    BY <1>2, <1>5
  <2>2. \A e \in P : at[e] = i => store'[i] = t[i]
    BY <1>2, <1>4, <1>5, <2>1
  <2>3. CASE store'[i] = t[i]
    <3>1. Same(store[i], store'[i])
      BY <1>2, <2>1, <2>3 DEF Same, SameSchema, Here
    <3>2. store[i].lock \in Conn \union {NoConn}
      BY <2>1, Locker
    <3>3. CASE i = at[d]
      BY <1>2, <2>1, <2>3, <3>1, <3>2, <3>3 DEF Stays, Here
    <3>4. CASE i # at[d]
      <4>1. store[i].lock # d
        BY <2>1, <3>4, RolesAssumption DEF Inv, LockInv
      <4> QED
        BY <1>2, <2>1, <2>3, <3>1, <3>2, <3>4, <4>1 DEF Stays
    <3> QED
      BY <3>3, <3>4
  <2>4. CASE store'[i] # t[i]
    <3>1. store'[i] = Empty /\ \A e \in P : at[e] # i
      BY <1>5, <1>2, <2>1, <2>2, <2>4
    <3> QED
      BY <3>1, EmptyIs DEF Appears
  <2> QED
    BY <2>3, <2>4
<1>10. Own(d)'
  BY <1>4 DEF Own, RunInv, DraftInv, SchemaInv, MigrateInv, Loads, Running
<1>11. Owes(d) => at[d] \in torn' \/ \A f \in P : at[f] # at[d]
  BY DEF Others
<1>12. P \subseteq Conn /\ \A e \in Conn \ P : e = d
  OBVIOUS
<1>15. Complete(Here(d)) => Complete(store'[at[d]])
  <2>1. store'[at[d]] \in {s, Empty}
    BY <1>1, <1>2, <1>5
  <2> QED
    BY <2>1, EmptyIs DEF Same, SameSchema, Complete
<1>13. \A e \in Conn \ P :
         /\ Own(e)'
         /\ Owes(e) => at[e] \in torn' \/ \A f \in P : at[f] # at[e]
         /\ Rebuilder(e) => at[e] \in torn' \/ Complete(store'[at[e]])
  BY <1>10, <1>11, <1>12, <1>15
<1> HIDE DEF P
<1> QED
  BY <1>4, <1>6, <1>7, <1>8, <1>9, <1>12, <1>13, <1>14, FilesKept

LEMMA ExitStep ==
  ASSUME Inv, NEW d \in Conn, Exit(d)
  PROVE  Inv'
<1>1. pc[d] \in {"ready", "lost"} /\ Leave(d, Here(d)) /\ UNCHANGED files /\ torn' = torn
  BY DEF Exit
<1>2. Here(d) \in Content /\ at[d] \in 1 .. Len(store)
  BY <1>1, PlaceOf DEF Inv
<1>3. Here(d).lock # d
  BY <1>1, <1>2, RolesAssumption DEF Inv, LockInv, Here
<1> QED
  BY <1>1, <1>2, <1>3, LeaveKeeps DEF Same, SameSchema, Owes, Rebuilder

(* An open that waited too long leaves what it did. *)
LEMMA OpenBusyStep ==
  ASSUME Inv, NEW d \in Conn, OpenBusy(d)
  PROVE  Inv'
<1>1. /\ pc[d] \in {"schema", "migrating"} /\ Leave(d, Here(d))
      /\ UNCHANGED files /\ torn' = torn
  BY DEF OpenBusy, Opening
<1>2. Here(d) \in Content /\ at[d] \in 1 .. Len(store)
  BY <1>1, PlaceOf DEF Inv
<1>3. Here(d).lock # d
  BY <1>1, <1>2, RolesAssumption DEF Inv, LockInv, Here
<1> QED
  BY <1>1, <1>2, <1>3, LeaveKeeps DEF Same, SameSchema, Owes, Rebuilder

LEMMA CrashStep ==
  ASSUME Inv, NEW d \in Conn, Crash(d)
  PROVE  Inv'
<1> DEFINE h == Here(d)
           s == Unlocked(d)
<1>1. /\ pc[d] # "closed" /\ Leave(d, s) /\ UNCHANGED files
      /\ torn' = IF InLoad(d) /\ (Others(d) # {} \/ Lags(h)) THEN torn \union {at[d]} ELSE torn
  BY DEF Crash, Tear
<1>2. h \in Content
  BY <1>1, PlaceOf DEF Inv
<1>3. /\ s \in Content /\ Same(h, s) /\ s.lock = IF h.lock = d THEN NoConn ELSE h.lock
  BY <1>2 DEF Content, Same, SameSchema, Unlocked
<1>4. Owes(d) => at[d] \in torn' \/ Others(d) = {}
  BY <1>1 DEF Owes, InLoad
<1>5. Rebuilder(d) => at[d] \in torn' \/ Complete(h)
  BY <1>1 DEF Rebuilder, InLoad, Lags, Complete
<1>6. torn \subseteq torn'
  BY <1>1
<1> HIDE DEF h, s
<1> QED
  BY <1>1, <1>3, <1>4, <1>5, <1>6, LeaveKeeps DEF h

(* A file put in place, or one moved away, under processes that stay as they are. *)
LEMMA FilesMove ==
  ASSUME Inv, UNCHANGED <<pc, at, todo, draft>>, torn \subseteq torn', LostInv', SnapInv',
         store' \in Seq(Content), Len(store) \in Nat, Len(store) <= Len(store'),
         live' \in 0 .. Len(store'), backup' \in 0 .. Len(store'),
         \A i \in 1 .. Len(store') : Grown(store'[i]),
         \A i \in 1 .. Len(store') : Stays(i, Conn) \/ Appears(i, Conn)
  PROVE  Inv'
<1>1. TypeInv'
  <2>1. Len(store') \in Nat
    OBVIOUS
  <2>2. at' \in [Conn -> 0 .. Len(store')]
    BY <2>1 DEF Inv, TypeInv
  <2> QED
    BY <2>2 DEF Inv, TypeInv
<1>2. TurnInv'
  <2>1. SUFFICES ASSUME NEW x \in Conn, NEW y \in Conn, Opening(x), Opening(y),
                        at[x] = at[y], ~Current(store'[at[x]])
                 PROVE  x = y
    BY DEF TurnInv, Opening, Here, Current
  <2>2. at[x] \in 1 .. Len(store')
    BY <2>1, PlaceOf DEF Inv, Opening
  <2>3. Same(store[at[x]], store'[at[x]])
    BY <2>2 DEF Stays, Appears
  <2> QED
    BY <2>1, <2>3 DEF Inv, TurnInv, Here, Current, Same, SameSchema
<1> QED
  BY <1>1, <1>2, FilesKept

LEMMA StillThere ==
  ASSUME Inv, NEW i \in 1 .. Len(store), NEW P, P \subseteq Conn,
         store'[i] = store[i], store[i].lock \in P \union {NoConn}
  PROVE  Stays(i, P)
BY DEF Stays, Same, SameSchema

(* A file that a restore or an open makes.                                    *)
LEMMA Appended ==
  ASSUME Inv, NEW s \in Content, store' = Append(store, s)
  PROVE  /\ store' \in Seq(Content) /\ Len(store') = Len(store) + 1 /\ Len(store) \in Nat
         /\ \A i \in 1 .. Len(store) : store'[i] = store[i]
         /\ store'[Len(store) + 1] = s
         /\ \A i \in 1 .. Len(store') : i \in 1 .. Len(store) \/ i = Len(store) + 1
         /\ \A c \in Conn : at[c] # Len(store) + 1
<1>1. store \in Seq(Content) /\ Len(store) \in Nat
  BY DEF Inv, TypeInv
<1>2. \A c \in Conn : at[c] \in 0 .. Len(store)
  BY DEF Inv, TypeInv
<1> QED
  BY <1>1, <1>2

(* A file that nobody can tell the content of from now on. *)
LEMMA LoseKeeps ==
  ASSUME Inv, NEW s \in Seq(Content), NEW i \in 1 .. Len(s), Lose(i, s),
         Len(store) <= Len(s), \A j \in 1 .. Len(store) : s[j] = store[j],
         \A j \in 1 .. Len(s) : j \in 1 .. Len(store) \/ j = i,
         at' \in [Conn -> 0 .. Len(s)],
         \A e \in Conn : at'[e] = at[e] \/ (at'[e] = i /\ pc[e] = "closed"),
         live' \in 0 .. Len(s), backup' \in 0 .. Len(s), torn \subseteq torn', SnapInv'
  PROVE  Inv'
<1> DEFINE P == {e \in Conn : at'[e] # i}
<1>1. /\ store' = [s EXCEPT ![i] = Empty] /\ spoiled' = spoiled \union {i}
      /\ pc' = [c \in Conn |-> IF at'[c] = i THEN "lost" ELSE pc[c]]
      /\ todo' = [c \in Conn |-> IF at'[c] = i THEN <<>> ELSE todo[c]]
      /\ draft' = [c \in Conn |-> IF at'[c] = i THEN NoDraft ELSE draft[c]]
  BY DEF Lose
<1>2. /\ store' \in Seq(Content) /\ Len(store') = Len(s) /\ store'[i] = Empty
      /\ \A j \in 1 .. Len(s) : j # i => store'[j] = s[j]
      /\ Len(s) \in Nat /\ Len(store) \in Nat
  BY <1>1, EmptyIs DEF Inv, TypeInv
<1>3. /\ P \subseteq Conn
      /\ \A e \in P : pc'[e] = pc[e] /\ at'[e] = at[e] /\ todo'[e] = todo[e] /\ draft'[e] = draft[e]
      /\ \A e \in Conn \ P : pc'[e] = "lost" /\ todo'[e] = <<>> /\ at'[e] = i
      /\ \A e \in Conn \ P : pc[e] = "closed" \/ at[e] = i
  BY <1>1
<1>4. TypeInv'
  <2>1. \A j \in 1 .. Len(store') : Grown(store'[j])
    BY <1>2, Locker, EmptyIs
  <2>2. pc' \in [Conn -> {"closed", "schema", "migrating", "lost"} \union Running]
    BY <1>1 DEF Inv, TypeInv
  <2>3. todo' = [c \in Conn |-> todo'[c]] /\ draft' = [c \in Conn |-> draft'[c]]
    BY <1>1
  <2>4. ASSUME NEW c \in Conn PROVE pc'[c] = "closed" <=> at'[c] = 0
    <3>1. CASE at'[c] = i
      <4>1. pc'[c] = "lost" /\ at'[c] # 0
        BY <1>1, <3>1
      <4> QED
        BY <4>1
    <3>2. CASE at'[c] # i
      <4>1. at'[c] = at[c] /\ pc'[c] = pc[c]
        BY <1>1, <3>2
      <4> QED
        BY <4>1 DEF Inv, TypeInv
    <3> QED
      BY <3>1, <3>2
  <2> QED
    BY <1>2, <2>1, <2>2, <2>3, <2>4 DEF TypeInv
<1>5. TurnInv'
  <2>1. SUFFICES ASSUME NEW x \in Conn, NEW y \in Conn, Opening(x)', Opening(y)',
                        at'[x] = at'[y], ~Current(store'[at'[x]])
                 PROVE  x = y
    BY DEF TurnInv, Here, Current
  <2>2. x \in P /\ y \in P
    BY <1>3, <2>1 DEF Opening
  <2>3. Opening(x) /\ Opening(y) /\ at[x] = at[y] /\ at'[x] = at[x] /\ at[x] # i
    BY <1>3, <2>1, <2>2 DEF Opening
  <2>4. at[x] \in 1 .. Len(store)
    BY <2>3, PlaceOf DEF Inv, Opening
  <2>5. store'[at[x]] = store[at[x]]
    BY <1>2, <2>3, <2>4
  <2> QED
    BY <2>1, <2>3, <2>5 DEF Inv, TurnInv, Here
<1>6. LostInv'
  <2>1. 0 \notin spoiled' /\ i \in spoiled'
    BY <1>1 DEF Inv, LostInv
  <2>2. ASSUME NEW c \in Conn PROVE at'[c] \in spoiled' <=> pc'[c] = "lost"
    <3>1. CASE at'[c] = i
      BY <1>1, <2>1, <3>1
    <3>2. CASE at'[c] # i
      <4>1. at'[c] = at[c] /\ pc'[c] = pc[c]
        BY <1>1, <3>2
      <4> QED
        BY <1>1, <3>2, <4>1 DEF Inv, LostInv
    <3> QED
      BY <3>1, <3>2
  <2> QED
    BY <2>1, <2>2 DEF LostInv
<1>7. ASSUME NEW j \in 1 .. Len(store')
      PROVE  Stays(j, P) \/ Appears(j, P)
  <2>1. CASE j = i
    BY <1>2, <1>3, <2>1, EmptyIs DEF Appears
  <2>2. CASE j # i
    <3>1. j \in 1 .. Len(store) /\ store'[j] = store[j]
      BY <1>2, <2>2
    <3>2. store[j].lock # NoConn => store[j].lock \in P
      <4>1. SUFFICES ASSUME store[j].lock # NoConn PROVE store[j].lock \in P
        OBVIOUS
      <4>2. /\ store[j].lock \in Conn /\ pc[store[j].lock] = "loading" /\ at[store[j].lock] = j
        BY <3>1, <4>1, Locker DEF Inv, LockInv
      <4> QED
        BY <2>2, <4>2
    <3> HIDE DEF P
    <3> QED
      BY <1>3, <3>1, <3>2, StillThere
  <2> QED
    BY <2>1, <2>2
<1>8. ASSUME NEW e \in Conn \ P
      PROVE  /\ Own(e)'
             /\ Owes(e) => at[e] \in torn' \/ \A f \in P : at[f] # at[e]
             /\ Rebuilder(e) => at[e] \in torn' \/ Complete(store'[at[e]])
  <2>1. Own(e)'
    BY <1>3 DEF Own, RunInv, DraftInv, SchemaInv, MigrateInv, Loads, Running
  <2>2. Owes(e) \/ Rebuilder(e) => at[e] = i
    BY <1>3 DEF Owes, Rebuilder
  <2>3. \A f \in P : at[f] # i
    BY <1>3
  <2> QED
    BY <1>2, <2>1, <2>2, <2>3, EmptyIs
<1> HIDE DEF P
<1> QED
  BY <1>3, <1>4, <1>5, <1>6, <1>7, <1>8, FilesKept

(* What every file is like where none is made. *)
LEMMA Files ==
  ASSUME Inv
  PROVE  /\ store \in Seq(Content) /\ Len(store) \in Nat /\ Len(store) <= Len(store)
         /\ live \in 0 .. Len(store) /\ backup \in 0 .. Len(store)
         /\ \A j \in 1 .. Len(store) : j \in 1 .. Len(store)
         /\ at \in [Conn -> 0 .. Len(store)]
         /\ \A e \in Conn : at[e] = 0 <=> pc[e] = "closed"
BY DEF Inv, TypeInv

LEMMA RestoredStep ==
  ASSUME Inv, Restored, NEW s \in Content, Grown(s), s.lock = NoConn, NEW isTorn, NEW isSpoiled,
         Complete(s) \/ isTorn, RestoreInto(s, isTorn, isSpoiled)
  PROVE  Inv'
<1> DEFINE n == IF live = 0 THEN Len(store) + 1 ELSE live
<1>1. /\ live' = n /\ torn' = (IF isTorn THEN torn \union {n} ELSE torn) /\ at' = at
      /\ backup' = backup
  BY DEF RestoreInto, Restored
<1>2. torn \subseteq torn' /\ (Complete(s) \/ n \in torn')
  BY <1>1
<1>3. SnapInv'
  BY DEF Inv, SnapInv, Restored, Grown, Complete
<1>4. CASE live # 0 /\ Attached(live)
  <2>1. Lose(live, store) /\ n = live
    BY <1>4 DEF RestoreInto
  <2> QED
    BY <1>1, <1>2, <1>3, <2>1, Files, LoseKeeps
<1>5. CASE ~(live # 0 /\ Attached(live))
  <2>1. /\ store' = IF live = 0 THEN Append(store, s) ELSE [store EXCEPT ![live] = s]
        /\ spoiled' = IF isSpoiled THEN spoiled \union {n} ELSE spoiled
        /\ UNCHANGED <<pc, todo, draft>>
    BY <1>1, <1>5 DEF RestoreInto
  <2>2. /\ store' \in Seq(Content) /\ Len(store) \in Nat /\ Len(store) <= Len(store')
        /\ n \in 1 .. Len(store') /\ store'[n] = s
        /\ \A i \in 1 .. Len(store') : i = n \/ (i \in 1 .. Len(store) /\ store'[i] = store[i])
        /\ \A c \in Conn : at[c] # n
    <3>1. CASE live = 0
      BY <2>1, <3>1, Appended
    <3>2. CASE live # 0
      BY <1>5, <2>1, <3>2, Files DEF Attached
    <3> QED
      BY <3>1, <3>2
  <2>3. live' \in 0 .. Len(store') /\ backup' \in 0 .. Len(store')
    BY <1>1, <2>2, Files
  <2>4. \A i \in 1 .. Len(store') : Grown(store'[i])
    BY <2>2, Locker
  <2> HIDE DEF n
  <2>5. ASSUME NEW i \in 1 .. Len(store')
        PROVE  Stays(i, Conn) \/ Appears(i, Conn)
    <3>1. CASE i = n
      BY <1>2, <2>2, <3>1 DEF Appears, Complete
    <3>2. CASE i # n
      BY <2>2, <3>2, Locker, StillThere
    <3> QED
      BY <3>1, <3>2
  <2>6. LostInv'
    BY <1>1, <2>1, <2>2 DEF Inv, LostInv
  <2> QED
    BY <1>1, <1>2, <1>3, <2>1, <2>2, <2>3, <2>4, <2>5, <2>6, FilesMove
<1> QED
  BY <1>4, <1>5

LEMMA RestoreSteps ==
  ASSUME Inv, RestoreCopy \/ RestoreFails
  PROVE  Inv'
<1>1. CASE RestoreCopy
  <2>1. Restored /\ RestoreInto(snap[1].content, snap[1].torn, snap[1].spoiled)
    BY <1>1 DEF RestoreCopy
  <2>2. /\ snap[1].content \in Content /\ Grown(snap[1].content)
        /\ snap[1].content.lock = NoConn
        /\ snap[1].torn \/ Complete(snap[1].content)
    BY <2>1 DEF Inv, SnapInv, Restored
  <2> QED
    BY <2>1, <2>2, RestoredStep
<1>2. CASE Restored /\ RestoreInto(Empty, FALSE, FALSE)
  BY <1>2, EmptyIs, RestoredStep
<1>3. CASE Restored /\ UNCHANGED <<store, live, torn, spoiled, pc, at, todo, draft>>
  <2>1. SnapInv' /\ LostInv'
    BY <1>3 DEF Inv, SnapInv, LostInv, Restored, Grown, Complete
  <2>2. ASSUME NEW i \in 1 .. Len(store') PROVE Stays(i, Conn)
    BY <1>3, Locker, StillThere
  <2>3. backup' = backup
    BY <1>3 DEF Restored
  <2> QED
    BY <1>3, <2>1, <2>2, <2>3, Files, Locker, FilesMove
<1> QED
  BY <1>1, <1>2, <1>3 DEF RestoreFails

LEMMA RenameStep ==
  ASSUME Inv, RestoreRename
  PROVE  Inv'
<1>1. /\ snap # <<>> /\ restoring' = TRUE /\ UNCHANGED <<snap, at, torn>>
      /\ live' = 0 /\ backup' \in {backup, live}
  BY DEF RestoreRename
<1>2. SnapInv'
  BY <1>1 DEF Inv, SnapInv, Grown, Complete
<1>3. CASE live # 0 /\ Attached(live)
  <2>1. Lose(live, store)
    BY <1>3 DEF RestoreRename
  <2> QED
    BY <1>1, <1>2, <1>3, <2>1, Files, LoseKeeps
<1>4. CASE ~(live # 0 /\ Attached(live))
  <2>1. store' = Kept(store, at, 0) /\ UNCHANGED <<spoiled, pc, todo, draft>>
    BY <1>4 DEF RestoreRename
  <2>2. /\ store' \in Seq(Content) /\ Len(store') = Len(store)
        /\ \A i \in 1 .. Len(store) : store'[i] \in {store[i], Empty}
        /\ \A c \in Conn : at[c] \in 1 .. Len(store) => store'[at[c]] = store[at[c]]
    BY <2>1, KeptIs, Files
  <2>3. \A i \in 1 .. Len(store') : Grown(store'[i])
    BY <2>2, Locker, EmptyIs
  <2>4. ASSUME NEW i \in 1 .. Len(store')
        PROVE  Stays(i, Conn) \/ Appears(i, Conn)
    <3>1. CASE store'[i] = store[i]
      BY <2>2, <3>1, Locker, StillThere
    <3>2. CASE store'[i] # store[i]
      <4>1. store'[i] = Empty /\ \A c \in Conn : at[c] # i
        BY <2>2, <3>2
      <4> QED
        BY <4>1, EmptyIs DEF Appears
    <3> QED
      BY <3>1, <3>2
  <2>5. LostInv'
    BY <1>1, <2>1 DEF Inv, LostInv
  <2>6. live' \in 0 .. Len(store') /\ backup' \in 0 .. Len(store')
    BY <1>1, <2>2, Files
  <2> QED
    BY <1>1, <1>2, <2>1, <2>2, <2>3, <2>4, <2>5, <2>6, Files, FilesMove
<1> QED
  BY <1>3, <1>4

LEMMA SnapshotStep ==
  ASSUME Inv, Snapshot
  PROVE  Inv'
<1> DEFINE s == store'[live]
           copy == [s EXCEPT !.lock = NoConn]
<1>1. /\ live # 0 /\ snap'[1].content = copy /\ snap'[1].torn = (live \in torn \/ Loading(live))
      /\ UNCHANGED <<live, backup, at, torn, restoring>> /\ snap' # <<>>
  BY DEF Snapshot
<1>2. live \in 1 .. Len(store)
  BY <1>1, Files
<1>3. \/ Lose(live, store)
      \/ UNCHANGED <<store, spoiled, pc, todo, draft>>
  BY DEF Snapshot
<1>4. /\ s \in Content /\ Grown(s)
      /\ Complete(s) \/ live \in torn \/ Loading(live)
  <2>1. CASE Lose(live, store)
    <3>1. s = Empty
      BY <1>2, <2>1, Files DEF Lose
    <3> HIDE DEF s
    <3> QED
      BY <3>1, EmptyIs
  <2>2. CASE UNCHANGED <<store, spoiled, pc, todo, draft>>
    <3>1. s = store[live]
      BY <2>2
    <3>2. Rebuilds(live) => Loading(live)
      BY DEF Rebuilds, Rebuilder, Loading, InLoad
    <3> HIDE DEF s
    <3> QED
      BY <1>2, <3>1, <3>2, Locker DEF Inv, IndexInv
  <2> QED
    BY <1>3, <2>1, <2>2
<1> HIDE DEF s
<1>5. copy \in Content /\ copy.lock = NoConn /\ Grown(copy) /\ (Complete(s) => Complete(copy))
  BY <1>4 DEF Content, Grown, Complete
<1> HIDE DEF copy
<1>6. SnapInv'
  BY <1>1, <1>4, <1>5 DEF SnapInv, Grown, Complete
<1>7. CASE Lose(live, store)
  BY <1>1, <1>2, <1>6, <1>7, Files, LoseKeeps
<1>8. CASE UNCHANGED <<store, spoiled, pc, todo, draft>>
  <2>1. LostInv'
    BY <1>1, <1>8 DEF Inv, LostInv
  <2>2. ASSUME NEW i \in 1 .. Len(store') PROVE Stays(i, Conn)
    BY <1>8, Locker, StillThere
  <2> QED
    BY <1>1, <1>6, <1>8, <2>1, <2>2, Files, Locker, FilesMove
<1> QED
  BY <1>3, <1>7, <1>8

LEMMA OpenStep ==
  ASSUME Inv, NEW d \in Conn, Open(d)
  PROVE  Inv'
<1> DEFINE P == Conn \ {d}
<1>1. pc[d] = "closed" /\ UNCHANGED <<backup, snap, restoring, torn>>
  BY DEF Open
<1>2. PICK a, s : /\ OpenFile(d, a, s)
                  /\ \/ s = store /\ a = live /\ live # 0
                     \/ s = Append(store, Empty) /\ a = Len(store) + 1
  BY DEF Open
<1>3. at' = [at EXCEPT ![d] = a] /\ live' = a
  BY <1>2 DEF OpenFile
<1>4. /\ s \in Seq(Content) /\ a \in 1 .. Len(s) /\ Len(store) <= Len(s)
      /\ Len(s) \in Nat /\ Len(store) \in Nat
      /\ \A i \in 1 .. Len(store) : s[i] = store[i]
      /\ \A i \in 1 .. Len(s) : i \in 1 .. Len(store) \/ (s[i] = Empty /\ i = Len(store) + 1 /\ i = a)
      /\ \A c \in Conn : at[c] # Len(store) + 1
  <2>1. store \in Seq(Content) /\ Len(store) \in Nat /\ Empty \in Content
    BY Files, EmptyIs
  <2>2. \A c \in Conn : at[c] # Len(store) + 1
    BY Files
  <2>3. CASE s = store /\ a = live /\ live # 0
    BY <2>1, <2>2, <2>3, Files
  <2>4. CASE s = Append(store, Empty) /\ a = Len(store) + 1
    BY <2>1, <2>2, <2>4
  <2> QED
    BY <1>2, <2>3, <2>4
<1>5. /\ at' \in [Conn -> 0 .. Len(s)] /\ at'[d] = a /\ \A e \in P : at'[e] = at[e]
      /\ at[d] = 0
  <2>1. at \in [Conn -> 0 .. Len(s)] /\ at[d] = 0
    BY <1>1, <1>4, Files
  <2> QED
    BY <1>3, <1>4, <2>1
<1>6. SnapInv'
  BY <1>1 DEF Inv, SnapInv, Grown, Complete
<1>7. live' \in 0 .. Len(s) /\ backup' \in 0 .. Len(s)
  BY <1>1, <1>3, <1>4, Files
<1>8. CASE Lose(a, s)
  BY <1>1, <1>4, <1>5, <1>6, <1>7, <1>8, LoseKeeps
<1>9. CASE /\ a \notin spoiled /\ ~Races(a, s)
           /\ store' = s /\ Go(d, "schema", Schema) /\ UNCHANGED <<draft, spoiled>>
  <2>1. /\ pc'[d] = "schema" /\ todo'[d] = Schema
        /\ pc' = [pc EXCEPT ![d] = "schema"] /\ todo' = [todo EXCEPT ![d] = todo'[d]]
        /\ \A e \in P : pc'[e] = pc[e] /\ todo'[e] = todo[e]
    BY <1>9, Going DEF Inv
  <2>2. TypeInv'
    <3>1. \A i \in 1 .. Len(store') : Grown(store'[i])
      BY <1>4, <1>9, Locker, EmptyIs
    <3>2. pc' \in [Conn -> {"closed", "schema", "migrating", "lost"} \union Running]
      BY <2>1 DEF Inv, TypeInv
    <3>3. todo' = [c \in Conn |-> todo'[c]] /\ draft' = [c \in Conn |-> draft'[c]]
      BY <1>9, <2>1 DEF Inv, TypeInv
    <3>4. \A c \in Conn : pc'[c] = "closed" <=> at'[c] = 0
      BY <1>4, <1>5, <2>1, Files
    <3> QED
      BY <1>4, <1>5, <1>7, <1>9, <3>1, <3>2, <3>3, <3>4 DEF TypeInv
  <2>3. TurnInv'
    <3>1. SUFFICES ASSUME NEW x \in Conn, NEW y \in Conn, Opening(x)', Opening(y)',
                          at'[x] = at'[y], ~Current(s[at'[x]]), x # y
                   PROVE  FALSE
      BY <1>9 DEF TurnInv, Here, Current
    <3>2. ASSUME NEW z \in P, Opening(z)'
          PROVE  Opening(z) /\ at[z] \in 1 .. Len(store) /\ at'[z] = at[z]
      <4>1. Opening(z) /\ at'[z] = at[z]
        BY <1>5, <2>1, <3>2 DEF Opening
      <4> QED
        BY <4>1, PlaceOf DEF Inv, Opening
    <3>3. CASE x # d /\ y # d
      BY <1>4, <3>1, <3>2, <3>3 DEF Inv, TurnInv, Here
    <3>4. CASE x = d
      BY <1>5, <1>9, <3>1, <3>2, <3>4 DEF Races
    <3>5. CASE y = d
      BY <1>5, <1>9, <3>1, <3>2, <3>5 DEF Races
    <3> QED
      BY <3>3, <3>4, <3>5
  <2>4. LostInv'
    BY <1>1, <1>5, <1>9, <2>1 DEF Inv, LostInv
  <2>5. ASSUME NEW i \in 1 .. Len(store')
        PROVE  Stays(i, P) \/ Appears(i, P)
    <3>1. CASE i \in 1 .. Len(store)
      <4>1. store[i].lock \in P \union {NoConn}
        BY <1>1, <3>1, Locker
      <4> QED
        BY <1>4, <1>9, <3>1, <4>1, StillThere
    <3>2. CASE s[i] = Empty /\ i = Len(store) + 1
      BY <1>4, <1>9, <3>2, EmptyIs DEF Appears
    <3> QED
      BY <1>4, <1>9, <3>1, <3>2
  <2>6. Own(d)'
    <3>1. Schema = Rest(Schema, 1)
      BY SchemaStatements, RestEnds
    <3>2. SchemaInv(d)'
      <4>1. /\ todo'[d] = Rest(Schema, 1) /\ 1 \in 1 .. 4 /\ ~(1 > 1) /\ ~(1 > 2) /\ ~(1 > 3)
        BY <2>1, <3>1
      <4> QED
        BY <4>1 DEF SchemaInv, Schema
    <3> QED
      BY <2>1, <3>2 DEF Own, RunInv, DraftInv, MigrateInv, Loads, Running
  <2>7. ~Owes(d) /\ ~Rebuilder(d)
    BY <1>1 DEF Owes, Rebuilder
  <2>8. P \subseteq Conn /\ \A e \in Conn \ P : e = d
    OBVIOUS
  <2>9. \A e \in P : pc'[e] = pc[e] /\ at'[e] = at[e] /\ todo'[e] = todo[e] /\ draft'[e] = draft[e]
    BY <1>5, <1>9, <2>1
  <2> HIDE DEF P
  <2> QED
    BY <1>1, <1>6, <2>2, <2>3, <2>4, <2>5, <2>6, <2>7, <2>8, <2>9, FilesKept
<1> QED
  BY <1>2, <1>8, <1>9 DEF OpenFile

-----------------------------------------------------------------------------
(* The invariant holds at first and after every step.                         *)

LEMMA OlderIs ==
  ASSUME NEW i \in Id, NEW t \in Text, NEW o, o = Older(i, t)
  PROVE  o \in Content /\ o.lock = NoConn /\ Grown(o) /\ Complete(o)
<1> DEFINE rows == [r \in {1} |-> <<i, t>>]
<1>1. MaxRow \in Nat
  BY BoundsAssumption
<1>2. o = [rows |-> rows, fts |-> Exact(rows), triggers |-> Sync,
           table |-> IF 6 \in InitVersions THEN "new" ELSE "old",
           made |-> InitVersions, versions |-> InitVersions, lock |-> NoConn]
  <2> DEFINE none == [r \in {} |-> r]
  <2>1. o = [Empty EXCEPT !.rows = rows, !.fts = Exact(rows), !.triggers = Sync,
                          !.table = IF 6 \in InitVersions THEN "new" ELSE "old",
                          !.made = InitVersions, !.versions = InitVersions]
    BY DEF Older
  <2>2. Empty = [rows |-> none, fts |-> {}, triggers |-> {}, table |-> "none",
                 made |-> {}, versions |-> {}, lock |-> NoConn]
    BY DEF Empty
  <2> HIDE DEF none, rows
  <2> QED
    BY <2>1, <2>2
<1>3. rows \in Rows
  <2>1. rows \in [{1} -> Row] /\ {1} \subseteq 1 .. MaxRow + 1
    BY <1>1 DEF Row
  <2> HIDE DEF rows
  <2> QED
    BY <2>1, RowsFrom
<1> HIDE DEF rows
<1>4. Exact(rows) \in SUBSET (Nat \X Row)
  BY <1>3, ExactRows
<1>5. PICK n \in 1 .. 6 : InitVersions = {1} \union {v \in Versions : v <= n}
  BY HistoryAssumption
<1>6. InitVersions \subseteq {1} \union Versions /\ InitVersions \subseteq 1 .. 6
  <2>1. \A y \in Versions : y \in 1 .. 6
    BY VersionsAssumption
  <2> QED
    BY <1>5, <2>1
<1>7. \A v \in InitVersions, w \in {1} \union Versions : w < v => w \in InitVersions
  <2>1. SUFFICES ASSUME NEW v \in InitVersions, NEW w \in {1} \union Versions, w < v
                 PROVE  w \in InitVersions
    OBVIOUS
  <2>2. v = 1 \/ (v \in Versions /\ v <= n)
    BY <1>5
  <2>3. \A y \in {1} \union Versions : y \in 1 .. 6
    BY VersionsAssumption
  <2>4. w = 1 \/ w <= n
    BY <1>5, <2>1, <2>2, <2>3
  <2> QED
    BY <1>5, <2>4
<1>8. o \in Content
  BY <1>2, <1>3, <1>4, <1>6 DEF Content
<1> QED
  BY <1>2, <1>7, <1>8 DEF Grown, Complete

LEMMA InitInv ==
  ASSUME Init
  PROVE  Inv
<1>1. /\ store \in Seq(Content) /\ Len(store) \in 0 .. 1
      /\ \A i \in 1 .. Len(store) :
           store[i].lock = NoConn /\ Grown(store[i]) /\ Complete(store[i])
      /\ live \in 0 .. Len(store)
  <2>1. CASE store = <<>> /\ live = 0
    BY <2>1
  <2>2. CASE (\E i \in Id, t \in Text : store = << Older(i, t) >>) /\ live = 1
    <3>1. PICK i \in Id, t \in Text : store = << Older(i, t) >>
      BY <2>2
    <3> DEFINE o == Older(i, t)
    <3>2. o \in Content /\ o.lock = NoConn /\ Grown(o) /\ Complete(o) /\ store = << o >>
      BY <3>1, OlderIs
    <3> HIDE DEF o
    <3>3. store \in Seq(Content) /\ Len(store) = 1 /\ store[1] = o
      BY <3>2
    <3> QED
      BY <2>2, <3>2, <3>3
  <2> QED
    BY <2>1, <2>2 DEF Init
<1>2. /\ backup = 0 /\ snap = <<>> /\ torn = {} /\ spoiled = {} /\ restoring = FALSE
      /\ pc = [c \in Conn |-> "closed"] /\ at = [c \in Conn |-> 0]
      /\ todo = [c \in Conn |-> <<>>] /\ draft = [c \in Conn |-> NoDraft]
  BY DEF Init
<1>3. TypeInv
  <2>1. todo = [c \in Conn |-> todo[c]] /\ draft = [c \in Conn |-> draft[c]]
    BY <1>2
  <2>2. /\ at \in [Conn -> 0 .. Len(store)]
        /\ pc \in [Conn -> {"closed", "schema", "migrating", "lost"} \union Running]
        /\ \A c \in Conn : pc[c] = "closed" <=> at[c] = 0
    BY <1>1, <1>2
  <2> QED
    BY <1>1, <1>2, <2>1, <2>2 DEF TypeInv
<1>4. LockInv /\ IndexInv
  BY <1>1 DEF LockInv, IndexInv
<1>5. TurnInv /\ SnapInv /\ LostInv
  BY <1>2 DEF TurnInv, SnapInv, LostInv, Opening
<1>6. ProcessInv
  BY <1>2 DEF ProcessInv, RunInv, DraftInv, SchemaInv, MigrateInv, Loads, Running
<1> QED
  BY <1>3, <1>4, <1>5, <1>6 DEF Inv

LEMMA NextInv ==
  ASSUME Inv, [Next]_vars
  PROVE  Inv'
<1>1. CASE Next
  <2>1. ASSUME NEW d \in Conn,
               \/ Open(d) \/ OpenBusy(d) \/ RunStatement(d) \/ ReadVersion(d) \/ Opened(d)
               \/ StartLoad(d) \/ BeginLoad(d) \/ LoadBusy(d) \/ CommitLoad(d) \/ FailLoad(d)
               \/ EndLoad(d) \/ Exit(d) \/ Crash(d)
        PROVE  Inv'
    BY <2>1, OpenStep, OpenBusyStep, StatementRuns, ReadVersionStep, OpenedStep, StartLoadStep,
       BeginLoadStep, LoadBusyStep, CommitLoadStep, FailLoadStep, EndLoadStep, ExitStep, CrashStep
  <2>2. ASSUME NEW d \in Conn, NEW i \in Id,
               DeleteFile(d, i) \/ \E t \in Text : StoreFile(d, i, t) \/ LoadFile(d, i, t)
        PROVE  Inv'
    BY <2>2, WriteSteps, LoadFileStep
  <2>3. CASE Snapshot \/ RestoreRename \/ RestoreCopy \/ RestoreFails
    BY <2>3, SnapshotStep, RenameStep, RestoreSteps
  <2> QED
    BY <1>1, <2>1, <2>2, <2>3 DEF Next
<1>2. CASE UNCHANGED vars
  <2>1. /\ UNCHANGED <<store, live, backup, snap, spoiled, restoring, torn, pc, at, todo, draft>>
    BY <1>2 DEF vars
  <2>2. SnapInv' /\ LostInv'
    BY <2>1 DEF Inv, SnapInv, LostInv, Grown, Complete
  <2>3. ASSUME NEW i \in 1 .. Len(store') PROVE Stays(i, Conn)
    BY <2>1, Locker, StillThere
  <2> QED
    BY <2>1, <2>2, <2>3, Files, Locker, FilesMove
<1> QED
  BY <1>1, <1>2

(* The statements of opens and loads are found where a crash may have left any   *)
(* of them, and no process sees another's transaction.                        *)
THEOREM DatabaseHolds == Spec => []Inv
<1>1. Init => Inv
  BY InitInv
<1>2. Inv /\ [Next]_vars => Inv'
  BY NextInv
<1> QED
  BY <1>1, <1>2, PTL DEF Spec

-----------------------------------------------------------------------------
(* A search of a file that is open, at any moment: the full-text index has an   *)
(* entry for each node and no other, unless something came between the          *)
(* statements of a load; and no transaction is left open by a process that is   *)
(* gone (SearchSound, which the run `database` checks).                       *)
THEOREM SearchIsSound == Spec => []SearchSound
<1>1. Inv => SearchSound
  <2>1. SUFFICES ASSUME Inv PROVE SearchSound
    OBVIOUS
  <2>2. TypeOK
    <3>1. \A i \in 1 .. Len(store) : store[i].triggers \subseteq Sync
      BY <2>1, Locker DEF Content
    <3> QED
      BY <2>1, <3>1 DEF Inv, TypeInv, LockInv, TypeOK
  <2>3. SearchExact
    <3>1. SUFFICES ASSUME NEW i \in 1 .. Len(store) \ torn, Undisturbed(i)
                   PROVE  store[i].fts = Exact(store[i].rows)
      BY DEF SearchExact, Lags
    <3>2. PICK c \in Conn : at[c] = i /\ pc[c] = "ready"
      BY <3>1 DEF Undisturbed, Ready
    <3>3. Whole(store[i])
      BY <2>1, <3>2 DEF Inv, ProcessInv, RunInv, Running, Here
    <3>4. 6 \in store[i].versions
      BY <3>3, VersionsAssumption DEF Whole
    <3>5. ~Rebuilds(i)
      BY <3>1 DEF Undisturbed, Loading, InLoad, Rebuilds, Rebuilder
    <3>6. Complete(store[i])
      BY <2>1, <3>1, <3>5 DEF Inv, IndexInv
    <3> QED
      BY <3>4, <3>6 DEF Complete
  <2> QED
    BY <2>2, <2>3 DEF SearchSound
<1> QED
  BY <1>1, DatabaseHolds, PTL

(* Who of the processes was opening its file and is no longer. *)
LEMMA OpeningEnds ==
  ASSUME Inv, Next, NEW c \in Conn, Opening(c), ~Opening(c)'
  PROVE  \/ Opened(c) /\ pc'[c] = "ready" /\ UNCHANGED <<store, at>>
         \/ Crash(c) /\ pc'[c] = "closed" /\ crashes' = crashes + 1
         \/ OpenBusy(c) /\ pc'[c] = "closed"
         \/ pc'[c] = "lost"
<1>1. \A d \in Conn : RunStatement(d) => pc' = pc
  BY StatementRuns
<1>2. ASSUME NEW d \in Conn, NEW where, NEW sts, Go(d, where, sts)
      PROVE  pc'[d] = where /\ (d # c => pc'[c] = pc[c])
  BY <1>2, Going DEF Inv
<1>3. ASSUME NEW d \in Conn, ReadVersion(d)
      PROVE  Opening(c)'
  <2>1. Go(d, "migrating", Pending(Here(d)))
    BY <1>3 DEF ReadVersion
  <2> QED
    BY <1>2, <2>1 DEF Opening
<1>4. ASSUME NEW i, NEW s, Lose(i, s)
      PROVE  pc'[c] \in {"lost", pc[c]}
  BY <1>4 DEF Lose
<1>5. ASSUME NEW d \in Conn, Open(d)
      PROVE  Opening(c)' \/ pc'[c] = "lost"
  <2>1. PICK i, s : OpenFile(d, i, s)
    BY <1>5 DEF Open
  <2>2. CASE Lose(i, s)
    BY <1>4, <2>2 DEF Opening
  <2>3. CASE Go(d, "schema", Schema)
    BY <1>2, <2>3 DEF Opening
  <2> QED
    BY <2>1, <2>2, <2>3 DEF OpenFile
<1>6. ASSUME NEW d \in Conn, Opened(d)
      PROVE  Opened(c) /\ pc'[c] = "ready" /\ UNCHANGED <<store, at>>
  <2>1. Go(d, "ready", <<>>)
    BY <1>6 DEF Opened
  <2> QED
    BY <1>2, <1>6, <2>1 DEF Opening, Opened
<1>7. ASSUME NEW d \in Conn, Crash(d) \/ OpenBusy(d)
      PROVE  /\ pc'[c] = "closed"
             /\ (Crash(c) /\ crashes' = crashes + 1) \/ OpenBusy(c)
  <2>1. Go(d, "closed", <<>>)
    BY <1>7 DEF Crash, OpenBusy, Leave
  <2>2. d = c
    BY <1>2, <2>1 DEF Opening
  <2> QED
    BY <1>2, <1>7, <2>1, <2>2 DEF Crash
<1>8. ASSUME NEW d \in Conn,
             StartLoad(d) \/ BeginLoad(d) \/ LoadBusy(d) \/ CommitLoad(d) \/ FailLoad(d)
               \/ EndLoad(d) \/ Exit(d)
      PROVE  pc'[c] = pc[c]
  <2>1. PICK where, sts : Go(d, where, sts)
    BY <1>8 DEF StartLoad, BeginLoad, LoadBusy, CommitLoad, FailLoad, EndLoad, Exit, Leave
  <2>2. ~Opening(d)
    BY <1>8 DEF StartLoad, BeginLoad, LoadBusy, InLoad, CommitLoad, FailLoad, EndLoad, Exit, Opening
  <2> QED
    BY <1>2, <2>1, <2>2
<1>9. ASSUME NEW d \in Conn, NEW i \in Id,
             DeleteFile(d, i) \/ \E t \in Text : StoreFile(d, i, t) \/ LoadFile(d, i, t)
      PROVE  pc' = pc
  BY <1>9 DEF DeleteFile, StoreFile, LoadFile
<1>10. Snapshot \/ RestoreRename \/ RestoreCopy \/ RestoreFails => pc'[c] \in {"lost", pc[c]}
  <2>1. (\E i, s : Lose(i, s)) => pc'[c] \in {"lost", pc[c]}
    BY <1>4
  <2> QED
    BY <2>1 DEF Snapshot, RestoreRename, RestoreCopy, RestoreFails, RestoreInto
<1> QED
  BY <1>1, <1>3, <1>5, <1>6, <1>7, <1>8, <1>9, <1>10 DEF Next, Opening

(* An open ends with the whole schema, and with the triggers unless another      *)
(* process is loading or tore the index; only a kill, or a wait for another       *)
(* process that took too long, stops it, never what it finds in the file         *)
(* (OpensWell, which the run `database` checks).                             *)
THEOREM OpensAreWell == Spec => OpensWell
<1> DEFINE Repairs == \A c \in Conn : Opening(c) /\ pc'[c] = "ready" =>
                        /\ Whole(store'[at[c]])
                        /\ \/ store'[at[c]].triggers = Sync
                           \/ ~(Loaders \subseteq {c}) /\ (at[c] \in torn \/ Loading(at[c]))
           NoneFails == \A c \in Conn : Opening(c) /\ pc'[c] = "closed" =>
                          \/ crashes' = crashes + 1
                          \/ Waits(c) /\ ~Fails(Head(todo[c]), Here(c))
<1>1. Inv /\ [Next]_vars => [Repairs]_vars
  <2>1. SUFFICES ASSUME Inv, Next, NEW c \in Conn, Opening(c), pc'[c] = "ready"
                 PROVE  /\ Whole(store'[at[c]])
                        /\ \/ store'[at[c]].triggers = Sync
                           \/ ~(Loaders \subseteq {c}) /\ (at[c] \in torn \/ Loading(at[c]))
    OBVIOUS
  <2>2. ~Opening(c)'
    BY <2>1 DEF Opening
  <2>3. Opened(c) /\ UNCHANGED <<store, at>>
    BY <2>1, <2>2, OpeningEnds
  <2>4. Whole(Here(c)) /\ Armed(at[c]) /\ Alone(c)
    BY <2>1, <2>3, OpenedFile DEF Made
  <2>5. \A d \in Conn : Owes(d) => InLoad(d)
    BY DEF Owes, InLoad
  <2>6. (\E d \in Conn : at[d] = at[c] /\ Owes(d)) => Loading(at[c])
    BY <2>5 DEF Loading
  <2> QED
    BY <2>3, <2>4, <2>6 DEF Armed, Alone, Here
<1>2. Inv /\ [Next]_vars => [NoneFails]_vars
  <2>1. SUFFICES ASSUME Inv, Next, NEW c \in Conn, Opening(c), pc'[c] = "closed"
                 PROVE  \/ crashes' = crashes + 1
                        \/ Waits(c) /\ ~Fails(Head(todo[c]), Here(c))
    OBVIOUS
  <2>2. ~Opening(c)'
    BY <2>1 DEF Opening
  <2>3. CASE OpenBusy(c)
    <3>1. Waits(c) /\ todo[c] # <<>>
      BY <2>1, <2>3 DEF OpenBusy, Opening, Waits
    <3> QED
      BY <2>1, <3>1, OpeningNeverFails
  <2> QED
    BY <2>1, <2>2, <2>3, OpeningEnds
<1> HIDE DEF Repairs, NoneFails
<1>3. Spec => [][Repairs]_vars /\ [][NoneFails]_vars
  BY <1>1, <1>2, DatabaseHolds, PTL DEF Spec
<1> QED
  BY <1>3 DEF Repairs, NoneFails, OpensWell, OpenRepairs, NoOpenFails
=============================================================================
