----------------------------- MODULE TableProofs -----------------------------
(***************************************************************************)
(* What the proofs about one node and about many use of ChainTables: the   *)
(* rows of a table, the table made of a set of blocks, what a fork has     *)
(* that checkTempChain has verified, and luck as a sum over blocks.        *)
(***************************************************************************)
EXTENDS ChainTables, FiniteSetTheorems, WellFoundedInduction, TLAPS

\* The fields of a block that the tables are keyed and linked by.
LEMMA BlockFields ==
    ASSUME NEW b \in Blocks
    PROVE  /\ b.index \in Index /\ b.hash \in Nat \ {NoHash} /\ b.prev \in Nat \ {NoHash}
           /\ b.txs \subseteq Tx /\ b.txs # {}
           /\ b # NoRow
BY BlocksAssumption DEF BlockType, Made

\* The fields of a block that handleBlock may be called with.
LEMMA ReceivedFields ==
    ASSUME NEW b \in Received
    PROVE  b.index \in Index /\ b.hash \in Nat /\ b.txs \subseteq Tx /\ b # NoRow
BY BlocksAssumption DEF BlockType, Received, Sent

\* Blocks that somebody has made may be received, and so stand in any table.
LEMMA BlocksReceived == Blocks \subseteq Received /\ Tables \subseteq SentTables
BY BlockFields DEF Received, Sent, Tables, SentTables

\* A nonempty set of naturals has a least element.
LEMMA LeastNatural ==
    ASSUME NEW S \in SUBSET Nat, S # {}
    PROVE  \E n \in S : \A m \in S : n <= m
<1>1. PICK n \in S : \A m \in S : ~ (<<m, n>> \in OpToRel(<, Nat))
    BY NatLessThanWellFounded, WFMin
<1>2. \A m \in S : ~ (m < n)
    BY <1>1 DEF OpToRel
<1>3. QED
    BY <1>2

\* A nonempty set of indexes has a least element, and Min is it.
LEMMA MinIndex ==
    ASSUME NEW S \in SUBSET Index, S # {}
    PROVE  Min(S) \in S /\ \A i \in S : Min(S) <= i
<1>1. S \subseteq Nat
    BY BlocksAssumption DEF Index
<1>2. PICK n \in S : \A m \in S : n <= m
    BY <1>1, LeastNatural
<1>3. QED
    BY <1>2 DEF Min

\* A nonempty set of indexes has a greatest element, and Max is it.
LEMMA MaxIndexOf ==
    ASSUME NEW S \in SUBSET Index, S # {}
    PROVE  Max(S) \in S /\ \A i \in S : i <= Max(S)
<1> DEFINE T == {MaxIndex - i : i \in S}
<1>0. \A i \in S : i \in Nat /\ i <= MaxIndex /\ MaxIndex \in Nat
    BY BlocksAssumption DEF Index
<1>1. T \subseteq Nat /\ T # {}
    BY <1>0
<1> HIDE DEF T
<1>2. PICK n \in T : \A m \in T : n <= m
    BY <1>1, LeastNatural
<1>3. PICK j \in S : n = MaxIndex - j
    BY <1>2 DEF T
<1>4. \A i \in S : MaxIndex - i \in T
    BY DEF T
<1>5. \A i \in S : j >= i
    BY <1>0, <1>2, <1>3, <1>4
<1>6. Max(S) \in S /\ \A i \in S : Max(S) >= i
    BY <1>5 DEF Max
<1>7. QED
    BY <1>0, <1>6

\* The rows of a table are blocks.
LEMMA RowsAreBlocks ==
    ASSUME NEW c \in Tables
    PROVE  RowsOf(c) \subseteq Blocks
BY DEF RowsOf, Held, Tables

\* Hashes on both sides of a row that exists.
LEMMA HashHeld ==
    ASSUME NEW c, NEW b \in Blocks, NEW i, b.prev = HashAt(c, i)
    PROVE  i \in Held(c)
BY BlockFields DEF HashAt

-----------------------------------------------------------------------------
(* Sets of blocks as tables.                                               *)

\* The rows are stored under their index, so two of them never share one.
Keyed(c) == \A i \in Held(c) : c[i].index = i

LEMMA KeyedRows ==
    ASSUME NEW f \in Tables, Keyed(f)
    PROVE  /\ RowsOf(f) \subseteq Blocks
           /\ \A b \in RowsOf(f) : b.index \in Index /\ b.index \in Held(f) /\ f[b.index] = b
           /\ \A a, b \in RowsOf(f) : a.index = b.index => a = b
BY RowsAreBlocks DEF Keyed, RowsOf, Held

LEMMA ReceivedRows ==
    ASSUME NEW f \in SentTables, Keyed(f)
    PROVE  /\ RowsOf(f) \subseteq Received
           /\ \A b \in RowsOf(f) : b.index \in Index /\ b.index \in Held(f) /\ f[b.index] = b
           /\ \A a, b \in RowsOf(f) : a.index = b.index => a = b
BY DEF Keyed, RowsOf, Held, SentTables

\* No unset block passes checkTempChain: a verified fork has only made ones.
LEMMA VerifiedMade ==
    ASSUME NEW c, NEW r, NEW f \in SentTables, NEW low, VerifyFork(c, r, f, low)
    PROVE  f \in Tables
<1>1. \A i \in Held(f) : f[i].content
    BY DEF VerifyFork, VerifyBlock
<1>2. \A i \in Index : f[i] # NoRow => f[i] \in Blocks
    BY <1>1, BlocksAssumption DEF Held, SentTables, Received, Sent, IsUnset
<1>3. QED
    BY <1>2 DEF SentTables, Tables

\* A block of s stands in the table that s is written over, and the rows at
\* other indexes stay.
LEMMA OverlayRow ==
    ASSUME NEW c, NEW s, \A a, b \in s : a.index = b.index => a = b,
           \A b \in s : b.index \in Index
    PROVE  /\ \A b \in s : Overlay(c, s)[b.index] = b
           /\ \A i \in Index : (\A b \in s : b.index # i) => Overlay(c, s)[i] = c[i]
BY DEF Overlay

\* Blocks written over a table make a table.
LEMMA OverlayType ==
    ASSUME NEW c \in Tables, NEW s \in SUBSET Blocks
    PROVE  Overlay(c, s) \in Tables
BY DEF Overlay, Tables

LEMMA OverlayNothing ==
    ASSUME NEW c \in Tables
    PROVE  Overlay(c, {}) = c
BY DEF Overlay, Tables

\* A table is its rows, written over nothing.
LEMMA OverlayOwnRows ==
    ASSUME NEW f \in Tables, Keyed(f)
    PROVE  Overlay(EmptyTable, RowsOf(f)) = f
<1> DEFINE g == Overlay(EmptyTable, RowsOf(f))
<1>1. ASSUME NEW i \in Index PROVE g[i] = f[i]
    <2>1. CASE i \in Held(f)
        <3>1. f[i] \in RowsOf(f) /\ f[i].index = i
            BY <2>1 DEF RowsOf, Keyed
        <3>2. QED
            BY <3>1, KeyedRows, OverlayRow
    <2>2. CASE i \notin Held(f)
        <3>1. \A b \in RowsOf(f) : b.index # i
            BY <2>2, KeyedRows
        <3>2. f[i] = NoRow /\ EmptyTable[i] = NoRow
            BY <2>2 DEF Held, EmptyTable
        <3>3. QED
            BY <3>1, <3>2, KeyedRows, OverlayRow
    <2>3. QED
        BY <2>1, <2>2
<1>2. g = [i \in Index |-> g[i]] /\ f = [i \in Index |-> f[i]]
    BY DEF Overlay, Tables
<1>3. QED
    BY <1>1, <1>2

\* The table made of blocks with different indexes has just these rows.
LEMMA TableOfBlocks ==
    ASSUME NEW s \in SUBSET Blocks, \A a, b \in s : a.index = b.index => a = b
    PROVE  LET f == Overlay(EmptyTable, s)
           IN  f \in Tables /\ Keyed(f) /\ RowsOf(f) = s
<1> DEFINE f == Overlay(EmptyTable, s)
<1>1. \A b \in s : b.index \in Index /\ f[b.index] = b /\ b # NoRow
    BY BlockFields, OverlayRow
<1>2. \A i \in Index : (\A b \in s : b.index # i) => f[i] = NoRow
    <2>1. \A i \in Index : EmptyTable[i] = NoRow
        BY DEF EmptyTable
    <2>2. QED
        BY <1>1, <2>1, OverlayRow
<1>3. f = [i \in Index |-> f[i]]
    BY DEF Overlay
<1> HIDE DEF f
<1>4. \A i \in Index : f[i] \in Blocks \cup {NoRow}
    BY <1>1, <1>2
<1>5. f \in Tables
    BY <1>3, <1>4 DEF Tables
<1>6. \A i \in Held(f) : i \in Index /\ f[i] \in s /\ f[i].index = i
    BY <1>1, <1>2 DEF Held
<1>7. \A b \in s : b.index \in Held(f)
    BY <1>1 DEF Held
<1>8. RowsOf(f) = s
    BY <1>1, <1>6, <1>7 DEF RowsOf
<1>9. QED
    BY <1>5, <1>6, <1>8 DEF Keyed, f

\* The rows of a verified fork are valid blocks that lie one after the other,
\* the lowest one on the chain.
LEMMA VerifiedFork ==
    ASSUME NEW c, NEW r, NEW f \in Tables, Keyed(f), NEW low \in BOOLEAN,
           VerifyFork(c, r, f, low)
    PROVE  \A b \in RowsOf(f) :
            /\ b.content /\ ProofCertificate(b)
            /\ \/ b.index = 1
               \/ b.prev = HashAt(c, b.index - 1) /\ \A a \in RowsOf(f) : a.index >= b.index
               \/ \E a \in RowsOf(f) : a.index = b.index - 1 /\ a.hash = b.prev
<1> TAKE b \in RowsOf(f)
<1> DEFINE i == b.index
           first == Min(Held(f))
<1>1. b \in Blocks /\ i \in Index /\ i \in Held(f) /\ f[i] = b
    BY KeyedRows
<1>2. \A j \in Held(f) : first <= j
    BY <1>1, MinIndex DEF Held
<1>3. PICK earlier :
        VerifyBlock(b, IF i = first THEN HashAt(c, i - 1) ELSE HashAt(f, i - 1), earlier, low)
    BY <1>1 DEF VerifyFork
<1> HIDE DEF first
<1>4. b.content /\ ProofCertificate(b)
    BY <1>3 DEF VerifyBlock
<1>5. CASE i = 1
    BY <1>4, <1>5
<1>6. CASE i # 1 /\ i = first
    <2>1. b.prev = HashAt(c, i - 1)
        BY <1>1, <1>3, <1>6 DEF VerifyBlock, Index
    <2>2. \A a \in RowsOf(f) : a.index >= i
        BY <1>1, <1>2, <1>6, KeyedRows DEF Index
    <2>3. QED
        BY <1>4, <2>1, <2>2
<1>7. CASE i # 1 /\ i # first
    <2>1. b.prev = HashAt(f, i - 1)
        BY <1>1, <1>3, <1>7 DEF VerifyBlock, Index
    <2>2. i - 1 \in Held(f)
        BY <1>1, <2>1, HashHeld
    <2>3. f[i - 1] \in RowsOf(f) /\ f[i - 1].index = i - 1 /\ f[i - 1].hash = b.prev
        BY <2>1, <2>2 DEF RowsOf, Keyed, HashAt
    <2>4. QED
        BY <1>4, <2>3
<1>8. QED
    BY <1>5, <1>6, <1>7

-----------------------------------------------------------------------------
(* What checkDatabase deletes.                                             *)

\* Everything from the lowest bad row on goes, and nothing when none is bad.
LEMMA CutFromLowest ==
    ASSUME NEW c \in Tables, NEW bad \in SUBSET Index
    PROVE  LET left == [i \in Index |-> IF \E j \in bad : j <= i THEN NoRow ELSE c[i]]
           IN  \/ left = c
               \/ \E k \in Index : left = [i \in Index |-> IF i >= k THEN NoRow ELSE c[i]]
<1>1. CASE bad = {}
    BY <1>1 DEF Tables
<1>2. CASE bad # {}
    <2>1. Min(bad) \in bad /\ \A j \in bad : Min(bad) <= j
        BY <1>2, MinIndex
    <2>0. Index \subseteq Int
        BY DEF Index
    <2>2. bad \subseteq Int /\ Index \subseteq Int /\ Min(bad) \in Int
        BY <2>0, <2>1
    <2>3. ASSUME NEW i \in Index PROVE (\E j \in bad : j <= i) <=> i >= Min(bad)
        <3>1. ASSUME NEW j \in bad, j <= i PROVE i >= Min(bad)
            BY <2>1, <2>2, <3>1
        <3>2. QED
            BY <2>1, <2>2, <3>1
    <2>4. QED
        BY <2>1, <2>3
<1>3. QED
    BY <1>1, <1>2

\* What is left of a linked chain is linked.
LEMMA CutStaysLinked ==
    ASSUME NEW c \in Tables, NEW k \in Index, Linked(c)
    PROVE  Linked([i \in Index |-> IF i >= k THEN NoRow ELSE c[i]])
<1> DEFINE d == [i \in Index |-> IF i >= k THEN NoRow ELSE c[i]]
<1>1. SUFFICES ASSUME NEW i \in Held(d), i > 1 PROVE d[i].prev = HashAt(d, i - 1)
    BY DEF Linked
<1>2. i \in Index /\ i - 1 \in Index /\ i < k /\ i - 1 < k /\ d[i] = c[i] /\ i \in Held(c)
    BY <1>1, BlocksAssumption DEF Held, Index
<1>3. d[i - 1] = c[i - 1] /\ (i - 1 \in Held(d) <=> i - 1 \in Held(c))
    BY <1>2 DEF Held, Index
<1>4. c[i].prev = HashAt(c, i - 1)
    BY <1>1, <1>2 DEF Linked
<1>5. QED
    BY <1>2, <1>3, <1>4 DEF HashAt

-----------------------------------------------------------------------------
(* What taking over a fork does to the links.                              *)

\* A verified fork has no gap.
LEMMA VerifiedUnbroken ==
    ASSUME NEW c \in Tables, NEW r, NEW f \in Tables, Keyed(f), NEW low \in BOOLEAN,
           VerifyFork(c, r, f, low),
           NEW i \in Held(f), NEW j \in Index, NEW k \in Held(f), i < j, j < k
    PROVE  j \in Held(f)
<1> DEFINE S == {n \in Held(f) : n > j}
<1>1. Held(f) \subseteq Nat /\ j \in Nat
    BY DEF Held, Index
<1>2. PICK n \in S : \A m \in S : n <= m
    BY <1>1, LeastNatural
<1>3. f[n] \in RowsOf(f) /\ f[n].index = n /\ f[i] \in RowsOf(f) /\ f[i].index = i
    BY <1>2 DEF RowsOf, Keyed
<1>4. n > 1 /\ ~ (i >= n)
    BY <1>1, <1>2
<1>5. PICK a \in RowsOf(f) : a.index = n - 1
    BY <1>3, <1>4, VerifiedFork
<1>6. n - 1 \in Held(f)
    BY <1>5, KeyedRows
<1>7. n - 1 \notin S
    BY <1>1, <1>2
<1>8. n - 1 = j
    BY <1>1, <1>2, <1>6, <1>7
<1>9. QED
    BY <1>6, <1>8

\* A verified fork that reaches as far as the linked chain it is written over
\* leaves one linked chain.
LEMMA LongForkStaysLinked ==
    ASSUME NEW c \in Tables, NEW r, NEW f \in Tables, Keyed(f), NEW low \in BOOLEAN,
           VerifyFork(c, r, f, low), Linked(c),
           NEW last \in Held(f), \A i \in Held(c) : i <= last
    PROVE  Linked(Overlay(c, RowsOf(f)))
<1> DEFINE s == RowsOf(f)
           d == Overlay(c, s)
<1>1. /\ \A i \in Held(f) : d[i] = f[i] /\ f[i] \in s /\ f[i] # NoRow
      /\ \A i \in Index \ Held(f) : d[i] = c[i]
    <2>1. \A i \in Held(f) : f[i] \in s /\ f[i].index = i /\ f[i] # NoRow
        BY DEF RowsOf, Keyed, Held
    <2>2. \A b \in s : b.index \in Held(f)
        BY KeyedRows
    <2>3. QED
        BY <2>1, <2>2, KeyedRows, OverlayRow
<1>2. Held(f) \subseteq Index /\ Held(d) = Held(c) \cup Held(f)
    BY <1>1 DEF Held
<1> HIDE DEF s, d
<1>3. SUFFICES ASSUME NEW i \in Held(d), i > 1 PROVE d[i].prev = HashAt(d, i - 1)
    BY DEF Linked, s, d
<1>4. i \in Index /\ i - 1 \in Index /\ i \in Nat
    BY <1>3, BlocksAssumption DEF Held, Index
<1>5. CASE i \in Held(f)
    <2>1. f[i].index = i /\ d[i] = f[i] /\ f[i] \in s
        BY <1>1, <1>5 DEF Keyed
    <2>2. CASE f[i].prev = HashAt(c, i - 1) /\ \A a \in s : a.index >= i
        <3>1. i - 1 \notin Held(f)
            <4>1. i - 1 \in Held(f) => f[i - 1] \in s /\ f[i - 1].index = i - 1
                BY <1>1 DEF Keyed
            <4>2. QED
                BY <1>4, <2>2, <4>1
        <3>2. QED
            BY <1>1, <1>2, <1>4, <2>1, <2>2, <3>1 DEF HashAt
    <2>3. CASE \E a \in s : a.index = i - 1 /\ a.hash = f[i].prev
        <3>1. PICK a \in s : a.index = i - 1 /\ a.hash = f[i].prev
            BY <2>3
        <3>2. i - 1 \in Held(f) /\ f[i - 1] = a
            BY <3>1, KeyedRows DEF s
        <3>3. QED
            BY <1>1, <1>2, <2>1, <3>1, <3>2 DEF HashAt
    <2>4. QED
        BY <1>3, <2>1, <2>2, <2>3, VerifiedFork DEF s
<1>6. CASE i \notin Held(f)
    <2>1. i \in Held(c) /\ d[i] = c[i]
        BY <1>1, <1>2, <1>3, <1>4, <1>6
    <2>2. i < last
        BY <1>2, <1>4, <1>6, <2>1 DEF Index
    <2>3. i - 1 \notin Held(f)
        <3>1. i - 1 < i
            BY <1>4
        <3>2. QED
            BY <1>4, <1>6, <2>2, <3>1, VerifiedUnbroken
    <2>4. c[i].prev = HashAt(c, i - 1)
        BY <1>3, <2>1 DEF Linked
    <2>5. QED
        BY <1>1, <1>2, <1>4, <2>1, <2>3, <2>4 DEF HashAt
<1>7. QED
    BY <1>5, <1>6

-----------------------------------------------------------------------------
(* The luck of a set of blocks is a sum, one more block at a time.         *)

Lucky(S) == IsFiniteSet(S) /\ \A b \in S : b.ln \in Nat

\* A set of naturals that contains 0 and the successor of each member contains all.
LEMMA InductiveSet ==
    ASSUME NEW T \in SUBSET Nat, 0 \in T, \A n \in T : n + 1 \in T
    PROVE  T = Nat
<1> SUFFICES ASSUME Nat \ T # {} PROVE FALSE
    OBVIOUS
<1>1. PICK n \in Nat \ T : \A m \in Nat \ T : n <= m
    BY LeastNatural, Nat \ T \in SUBSET Nat
<1>2. n # 0 /\ n - 1 \in Nat
    BY <1>1
<1>3. n - 1 \in T
    BY <1>1, <1>2
<1>4. QED
    BY <1>1, <1>2, <1>3

Small(S, n) == {s \in SUBSET S : Cardinality(s) <= n}

\* What the recursion of LuckOf asks of its function on the sets in D.
LucksOn(g, D) ==
    g = [s \in D |-> IF s = {} THEN 0
                     ELSE (CHOOSE b \in s : TRUE).ln + g[s \ {CHOOSE b \in s : TRUE}]]

\* It has a solution.
LEMMA LucksExist ==
    ASSUME NEW S, Lucky(S)
    PROVE  \E g \in [SUBSET S -> Nat] : LucksOn(g, SUBSET S)
<1> DEFINE T == {n \in Nat : \E g \in [Small(S, n) -> Nat] : LucksOn(g, Small(S, n))}
<1>1. 0 \in T
    <2> DEFINE g == [s \in Small(S, 0) |-> 0]
    <2>1. \A s \in Small(S, 0) : s = {}
        BY FS_EmptySet, FS_Subset, FS_CardinalityType DEF Small, Lucky
    <2>2. LucksOn(g, Small(S, 0))
        BY <2>1 DEF LucksOn
    <2>3. QED
        BY <2>2
<1>2. ASSUME NEW n \in T PROVE n + 1 \in T
    <2>1. PICK g \in [Small(S, n) -> Nat] : LucksOn(g, Small(S, n))
        OBVIOUS
    <2> DEFINE c(s) == CHOOSE b \in s : TRUE
               A(s) == IF s = {} THEN 0 ELSE c(s).ln + g[s \ {c(s)}]
               h == [s \in Small(S, n + 1) |-> A(s)]
               B(s) == IF s = {} THEN 0 ELSE c(s).ln + h[s \ {c(s)}]
    <2>2. ASSUME NEW s \in Small(S, n + 1), s # {}
          PROVE  s \ {c(s)} \in Small(S, n) /\ c(s).ln \in Nat
        <3>1. s \in SUBSET S /\ IsFiniteSet(s) /\ c(s) \in s /\ Cardinality(s) <= n + 1
            BY <2>2, FS_Subset DEF Small, Lucky
        <3> HIDE DEF c
        <3>2. Cardinality(s \ {c(s)}) = Cardinality(s) - 1 /\ Cardinality(s) \in Nat
            BY <3>1, FS_RemoveElement, FS_CardinalityType
        <3>3. QED
            BY <3>1, <3>2 DEF Small, Lucky
    <2> HIDE DEF c
    <2>3. ASSUME NEW s \in Small(S, n)
          PROVE  h[s] = g[s]
        <3>1. Cardinality(s) \in Nat /\ s \in Small(S, n + 1)
            BY FS_Subset, FS_CardinalityType DEF Small, Lucky
        <3>2. g[s] = A(s)
            BY <2>1 DEF LucksOn, c
        <3>3. QED
            BY <3>1, <3>2
    <2>4. \A s \in Small(S, n + 1) : A(s) \in Nat
        BY <2>1, <2>2
    <2>5. \A s \in Small(S, n + 1) : A(s) = B(s)
        BY <2>2, <2>3
    <2>6. h \in [Small(S, n + 1) -> Nat]
        BY <2>4
    <2>7. h = [s \in Small(S, n + 1) |-> A(s)]
        OBVIOUS
    <2> HIDE DEF A, h
    <2>8. h = [s \in Small(S, n + 1) |-> B(s)]
        <3> HIDE DEF B
        <3>1. QED
            BY <2>5, <2>7, Zenon
    <2>9. LucksOn(h, Small(S, n + 1))
        BY <2>8, Zenon DEF LucksOn, c
    <2>10. QED
        <3> HIDE DEF B
        <3>1. n + 1 \in Nat
            OBVIOUS
        <3>2. QED
            BY <2>6, <2>9, <3>1
<1>3. T = Nat
    <2> HIDE DEF T
    <2>1. T \subseteq Nat
        BY DEF T
    <2>2. QED
        BY <2>1, <1>1, <1>2, InductiveSet
<1>4. Small(S, Cardinality(S)) = SUBSET S
    BY FS_Subset, FS_CardinalityType DEF Small, Lucky
<1>5. Cardinality(S) \in T
    BY <1>3, FS_CardinalityType DEF Lucky
<1>6. PICK g \in [Small(S, Cardinality(S)) -> Nat] : LucksOn(g, Small(S, Cardinality(S)))
    BY <1>5
<1>7. g \in [SUBSET S -> Nat] /\ LucksOn(g, SUBSET S)
    BY <1>4, <1>6
<1>8. QED
    BY <1>7, Zenon

\* Two functions that sum the same sets agree.
LEMMA LucksUnique ==
    ASSUME NEW S, IsFiniteSet(S), NEW D, SUBSET S \subseteq D, NEW E, SUBSET S \subseteq E,
           NEW g, LucksOn(g, D), NEW h, LucksOn(h, E)
    PROVE  g[S] = h[S]
<1> DEFINE T == {n \in Nat : \A s \in SUBSET S : Cardinality(s) <= n => g[s] = h[s]}
<1>1. \A s \in SUBSET S : IsFiniteSet(s) /\ Cardinality(s) \in Nat /\ s \in D /\ s \in E
    BY FS_Subset, FS_CardinalityType
<1>2. g[{}] = 0 /\ h[{}] = 0
    BY <1>1 DEF LucksOn
<1>3. 0 \in T
    <2>1. \A s \in SUBSET S : Cardinality(s) <= 0 => s = {}
        BY <1>1, FS_EmptySet
    <2>2. QED
        BY <1>2, <2>1
<1>4. ASSUME NEW n \in T PROVE n + 1 \in T
    <2> SUFFICES ASSUME NEW s \in SUBSET S, Cardinality(s) <= n + 1, s # {} PROVE g[s] = h[s]
        BY <1>2
    <2> DEFINE x == CHOOSE y \in s : TRUE
    <2>1. x \in s
        OBVIOUS
    <2>2. Cardinality(s \ {x}) <= n /\ s \ {x} \in SUBSET S
        <3>1. Cardinality(s \ {x}) = Cardinality(s) - 1
            BY <1>1, <2>1, FS_RemoveElement
        <3>2. QED
            BY <1>1, <3>1
    <2>3. g[s \ {x}] = h[s \ {x}]
        BY <2>2
    <2>4. g[s] = x.ln + g[s \ {x}] /\ h[s] = x.ln + h[s \ {x}]
        BY <1>1 DEF LucksOn
    <2>5. QED
        BY <2>3, <2>4
<1>5. T = Nat
    <2> HIDE DEF T
    <2>1. T \subseteq Nat
        BY DEF T
    <2>2. QED
        BY <2>1, <1>3, <1>4, InductiveSet
<1>6. QED
    BY <1>1, <1>5

\* The luck of a subset, by the function of the whole.
LEMMA LuckByFunction ==
    ASSUME NEW S, Lucky(S)
    PROVE  \E g \in [SUBSET S -> Nat] :
               LucksOn(g, SUBSET S) /\ \A s \in SUBSET S : LuckOf(s) = g[s]
<1>1. PICK g \in [SUBSET S -> Nat] : LucksOn(g, SUBSET S)
    BY LucksExist
<1>2. ASSUME NEW s \in SUBSET S PROVE LuckOf(s) = g[s]
    <2>1. Lucky(s)
        BY FS_Subset DEF Lucky
    <2> DEFINE h == CHOOSE f : LucksOn(f, SUBSET s)
    <2>2. LucksOn(h, SUBSET s)
        BY <2>1, LucksExist, Zenon
    <2>3. LuckOf(s) = h[s]
        BY Zenon DEF LuckOf, MapThenSumSet, MapThenFoldSet, LucksOn
    <2> HIDE DEF h
    <2>4. g[s] = h[s]
        BY <1>1, <2>1, <2>2, LucksUnique DEF Lucky
    <2>5. QED
        BY <2>3, <2>4
<1>3. QED
    BY <1>1, <1>2

\* What is left without two, in either order.
LEMMA EitherOrder ==
    ASSUME NEW a \in Nat, NEW b \in Nat, NEW r \in Nat, NEW u, NEW v, NEW w,
           u = a + v, v = b + r, w = a + r
    PROVE  u = b + w
OBVIOUS

\* A part of a set with lucky numbers is one.
LEMMA SubsetLucky ==
    ASSUME NEW S, Lucky(S), NEW s \in SUBSET S
    PROVE  Lucky(s) /\ Cardinality(s) \in Nat
BY FS_Subset, FS_CardinalityType DEF Lucky

\* Luck is a natural number.
LEMMA LuckType ==
    ASSUME NEW S, Lucky(S)
    PROVE  LuckOf(S) \in Nat
<1>1. PICK g \in [SUBSET S -> Nat] : \A s \in SUBSET S : LuckOf(s) = g[s]
    BY LuckByFunction
<1>2. S \in SUBSET S
    OBVIOUS
<1>3. QED
    BY <1>1, <1>2

\* The luck of nothing.
LEMMA LuckEmpty == LuckOf({}) = 0
<1>1. Lucky({})
    BY FS_EmptySet DEF Lucky
<1>2. PICK g \in [SUBSET {} -> Nat] : LucksOn(g, SUBSET {}) /\ \A s \in SUBSET {} : LuckOf(s) = g[s]
    BY <1>1, LuckByFunction
<1>3. g[{}] = 0
    BY <1>2 DEF LucksOn
<1>4. QED
    BY <1>2, <1>3

\* Luck takes any element first.
LEMMA LuckRemove ==
    ASSUME NEW S, Lucky(S), NEW x \in S
    PROVE  LuckOf(S) = x.ln + LuckOf(S \ {x})
<1>1. PICK g \in [SUBSET S -> Nat] : LucksOn(g, SUBSET S) /\ \A s \in SUBSET S : LuckOf(s) = g[s]
    BY LuckByFunction
<1> DEFINE T == {n \in Nat : \A s \in SUBSET S : \A y \in s :
                                Cardinality(s) <= n => g[s] = y.ln + g[s \ {y}]}
<1>2. \A s \in SUBSET S : Cardinality(s) \in Nat /\ (Cardinality(s) <= 0 => s = {})
    BY SubsetLucky, FS_EmptySet DEF Lucky
<1>3. 0 \in T
    BY <1>2
<1>4. ASSUME NEW n \in T PROVE n + 1 \in T
    <2> SUFFICES ASSUME NEW s \in SUBSET S, NEW y \in s, Cardinality(s) <= n + 1
                 PROVE  g[s] = y.ln + g[s \ {y}]
        OBVIOUS
    <2>1. \A r \in SUBSET S : \A z \in r : Cardinality(r) <= n => g[r] = z.ln + g[r \ {z}]
        OBVIOUS
    <2>2. n \in Nat
        OBVIOUS
    <2> HIDE DEF T
    <2> DEFINE c == CHOOSE z \in s : TRUE
    <2>3. c \in s /\ g[s] = c.ln + g[s \ {c}]
        BY <1>1 DEF LucksOn
    <2>4. CASE y = c
        BY <2>3, <2>4
    <2>5. CASE y # c
        <3> HIDE DEF c
        <3>1. Cardinality(s \ {c}) <= n /\ Cardinality(s \ {y}) <= n
            <4>1. Lucky(s)
                BY SubsetLucky
            <4>2. Cardinality(s \ {c}) = Cardinality(s) - 1 /\ Cardinality(s \ {y}) = Cardinality(s) - 1
                BY <2>3, <4>1, FS_RemoveElement DEF Lucky
            <4>3. QED
                BY <1>2, <2>2, <4>2
        <3>2. g[s \ {c}] = y.ln + g[(s \ {c}) \ {y}]
            <4>1. s \ {c} \in SUBSET S /\ y \in s \ {c}
                BY <2>5
            <4>2. QED
                BY <2>1, <3>1, <4>1
        <3>3. g[s \ {y}] = c.ln + g[(s \ {y}) \ {c}]
            <4>1. s \ {y} \in SUBSET S /\ c \in s \ {y}
                BY <2>3, <2>5
            <4>2. QED
                BY <2>1, <3>1, <4>1
        <3>4. (s \ {c}) \ {y} = (s \ {y}) \ {c}
            OBVIOUS
        <3>5. /\ g[s \ {c}] \in Nat /\ g[s \ {y}] \in Nat /\ g[(s \ {y}) \ {c}] \in Nat
              /\ c.ln \in Nat /\ y.ln \in Nat
            <4>1. s \ {c} \in SUBSET S /\ s \ {y} \in SUBSET S /\ (s \ {y}) \ {c} \in SUBSET S
                OBVIOUS
            <4>2. QED
                BY <2>3, <4>1 DEF Lucky
        <3>6. g[s \ {c}] = y.ln + g[(s \ {y}) \ {c}]
            BY <3>2, <3>4, Zenon
        <3>7. QED
            BY <2>3, <3>3, <3>5, <3>6, EitherOrder
    <2>6. QED
        BY <2>4, <2>5
<1>5. T = Nat
    <2> HIDE DEF T
    <2>1. T \subseteq Nat
        BY DEF T
    <2>2. QED
        BY <2>1, <1>3, <1>4, InductiveSet
<1>6. g[S] = x.ln + g[S \ {x}]
    BY <1>2, <1>5
<1>7. QED
    BY <1>1, <1>6

\* The luck of two sets that are apart.
LEMMA LuckUnion ==
    ASSUME NEW S, Lucky(S), NEW R, Lucky(R), S \cap R = {}
    PROVE  Lucky(S \cup R) /\ LuckOf(S \cup R) = LuckOf(S) + LuckOf(R)
<1>1. Lucky(S \cup R)
    BY FS_Union DEF Lucky
<1> DEFINE T == {n \in Nat : \A s \in SUBSET R : Cardinality(s) <= n
                                => LuckOf(S \cup s) = LuckOf(S) + LuckOf(s)}
<1>2. \A s \in SUBSET R : Cardinality(s) \in Nat /\ (Cardinality(s) <= 0 => s = {})
    BY SubsetLucky, FS_EmptySet DEF Lucky
<1>3. 0 \in T
    <2>1. S \cup {} = S
        OBVIOUS
    <2>2. LuckOf(S \cup {}) = LuckOf(S) + LuckOf({})
        BY <2>1, LuckEmpty, LuckType
    <2>3. QED
        BY <1>2, <2>2
<1>4. ASSUME NEW n \in T PROVE n + 1 \in T
    <2> SUFFICES ASSUME NEW s \in SUBSET R, Cardinality(s) <= n + 1
                 PROVE  LuckOf(S \cup s) = LuckOf(S) + LuckOf(s)
        OBVIOUS
    <2>1. \A r \in SUBSET R : Cardinality(r) <= n => LuckOf(S \cup r) = LuckOf(S) + LuckOf(r)
        OBVIOUS
    <2>2. n \in Nat
        OBVIOUS
    <2> HIDE DEF T
    <2>3. CASE s = {}
        <3>1. S \cup s = S
            BY <2>3
        <3>2. QED
            BY <2>3, <3>1, LuckEmpty, LuckType
    <2>4. CASE s # {}
        <3>1. PICK x : x \in s
            BY <2>4
        <3>2. Lucky(s) /\ Lucky(s \ {x}) /\ Lucky(S \cup s)
            BY <1>1, SubsetLucky, s \ {x} \in SUBSET R, S \cup s \in SUBSET (S \cup R)
        <3>3. Cardinality(s \ {x}) <= n
            <4>1. Cardinality(s \ {x}) = Cardinality(s) - 1
                BY <3>1, <3>2, FS_RemoveElement DEF Lucky
            <4>2. QED
                BY <1>2, <2>2, <4>1
        <3>4. LuckOf(S \cup (s \ {x})) = LuckOf(S) + LuckOf(s \ {x})
            BY <2>1, <3>3, s \ {x} \in SUBSET R
        <3>5. LuckOf(s) = x.ln + LuckOf(s \ {x})
            BY <3>1, <3>2, LuckRemove
        <3>6. LuckOf(S \cup s) = x.ln + LuckOf((S \cup s) \ {x})
            BY <3>1, <3>2, LuckRemove
        <3>7. (S \cup s) \ {x} = S \cup (s \ {x})
            BY <3>1
        <3>8. x.ln \in Nat /\ LuckOf(S) \in Nat /\ LuckOf(s \ {x}) \in Nat
            BY <3>1, <3>2, LuckType DEF Lucky
        <3>9. LuckOf(S \cup s) = x.ln + LuckOf(S \cup (s \ {x}))
            BY <3>6, <3>7, Zenon
        <3>10. QED
            BY <3>4, <3>5, <3>8, <3>9, EitherOrder
    <2>5. QED
        BY <2>3, <2>4
<1>5. T = Nat
    <2> HIDE DEF T
    <2>1. T \subseteq Nat
        BY DEF T
    <2>2. QED
        BY <2>1, <1>3, <1>4, InductiveSet
<1>6. QED
    BY <1>1, <1>2, <1>5

\* The luck of a set in two parts.
LEMMA LuckSplit ==
    ASSUME NEW S, Lucky(S), NEW R \in SUBSET S
    PROVE  /\ LuckOf(S) = LuckOf(R) + LuckOf(S \ R)
           /\ LuckOf(R) \in Nat /\ LuckOf(S \ R) \in Nat
           /\ LuckOf(R) <= LuckOf(S)
<1>1. Lucky(R) /\ Lucky(S \ R)
    BY SubsetLucky
<1>2. R \cap (S \ R) = {} /\ R \cup (S \ R) = S
    OBVIOUS
<1>3. LuckOf(S) = LuckOf(R) + LuckOf(S \ R)
    BY <1>1, <1>2, LuckUnion
<1>4. QED
    BY <1>1, <1>3, LuckType

-----------------------------------------------------------------------------
(* The luck of the chain that peers accept.                                *)

\* Indexes are numbers from 1 on, without a gap.
LEMMA IndexRange ==
    /\ MaxIndex \in Nat
    /\ \A i \in Index : i \in Nat /\ 1 <= i
    /\ \A i \in Index : \A k \in 1 .. i : k \in Index /\ k <= i
    /\ \A i \in Index : i > 1 => i - 1 \in Index
BY BlocksAssumption DEF Index

\* The rows of a table, or some of them, are finitely many blocks.
LEMMA RowsLucky ==
    ASSUME NEW c \in Tables, NEW J \in SUBSET Held(c)
    PROVE  Lucky({c[i] : i \in J})
<1> DEFINE S == {c[i] : i \in J}
<1>1. J \subseteq 1 .. MaxIndex /\ MaxIndex \in Int
    BY BlocksAssumption DEF Held, Index
<1>2. IsFiniteSet(J)
    <2>1. IsFiniteSet(1 .. MaxIndex)
        BY <1>1, FS_Interval
    <2>2. QED
        BY <1>1, <2>1, FS_Subset
<1>3. [i \in J |-> c[i]] \in Surjection(J, S)
    BY DEF Surjection
<1>4. IsFiniteSet(S)
    <2> HIDE DEF S
    <2>1. QED
        BY <1>2, <1>3, FS_Surjection
<1>5. S \subseteq Blocks
    BY DEF Held, Tables
<1>6. \A b \in Blocks : b.ln \in Nat
    BY BlocksAssumption DEF BlockType
<1>7. QED
    BY <1>4, <1>5, <1>6 DEF Lucky

\* The luck of the linked part is a number.
LEMMA LinkedLuckType ==
    ASSUME NEW c \in Tables
    PROVE  LuckOf(LinkedPart(c)) \in Nat
<1> DEFINE J == {j \in Held(c) :
        \A k \in 1 .. j : k \in Held(c) /\ (k > 1 => c[k].prev = HashAt(c, k - 1))}
<1>1. J \in SUBSET Held(c) /\ LinkedPart(c) = {c[j] : j \in J}
    BY DEF LinkedPart
<1> HIDE DEF J
<1>2. Lucky(LinkedPart(c))
    BY <1>1, RowsLucky
<1>3. QED
    BY <1>2, LuckType

\* Up to j, the chain is there and linked.
LinkedTo(c, j) == \A k \in 1 .. j : k \in Held(c) /\ (k > 1 => c[k].prev = HashAt(c, k - 1))

\* The first row of a fork.
LEMMA FirstOfFork ==
    ASSUME NEW f \in Tables, Keyed(f), Held(f) # {}
    PROVE  /\ FirstIndex(RowsOf(f)) = Min(Held(f)) /\ Min(Held(f)) \in Held(f)
           /\ \A i \in Held(f) : Min(Held(f)) <= i
<1>1. {b.index : b \in RowsOf(f)} = Held(f)
    BY DEF RowsOf, Keyed
<1>2. Held(f) \in SUBSET Index
    BY DEF Held
<1>3. QED
    BY <1>1, <1>2, MinIndex DEF FirstIndex

\* Below a fork nothing changes; where the chain is linked up to it, all of
\* the fork gets linked.
LEMMA ForkLinkedTo ==
    ASSUME NEW c \in Tables, NEW r, NEW f \in Tables, Keyed(f), Held(f) # {},
           NEW low \in BOOLEAN, VerifyFork(c, r, f, low)
    PROVE  LET d == Overlay(c, RowsOf(f))
               first == Min(Held(f))
           IN  /\ \A j \in Index : j < first => d[j] = c[j] /\ (LinkedTo(c, j) => LinkedTo(d, j))
               /\ \A j \in Held(f) :
                    /\ d[j] = f[j]
                    /\ (\A k \in Index : k < first => LinkedTo(c, k)) => LinkedTo(d, j)
<1> DEFINE d == Overlay(c, RowsOf(f))
           first == Min(Held(f))
<1>1. first \in Held(f) /\ \A i \in Held(f) : first <= i
    BY FirstOfFork
<1>2. Held(f) \subseteq Index /\ Held(c) \subseteq Index /\ Held(d) \subseteq Index /\ Index \subseteq Nat
    BY IndexRange DEF Held
<1>3. \A i \in Held(f) : d[i] = f[i] /\ i \in Held(d) /\ f[i] # NoRow
    <2>1. \A i \in Held(f) : f[i] \in RowsOf(f) /\ f[i].index = i /\ f[i] # NoRow
        BY DEF RowsOf, Keyed, Held
    <2>2. \A i \in Held(f) : d[i] = f[i]
        BY <2>1, KeyedRows, OverlayRow
    <2>3. QED
        BY <1>2, <2>1, <2>2 DEF Held
<1>4. \A i \in Index : i < first => d[i] = c[i] /\ (i \in Held(d) <=> i \in Held(c))
    <2>1. ASSUME NEW i \in Index, i < first PROVE i \notin Held(f)
        <3>1. i \in Nat /\ first \in Nat
            BY <1>1, <1>2
        <3>2. i \in Held(f) => first <= i
            BY <1>1
        <3> HIDE DEF first
        <3>3. QED
            BY <2>1, <3>1, <3>2
    <2>2. \A i \in Index : i < first => \A b \in RowsOf(f) : b.index # i
        BY <2>1, KeyedRows
    <2>3. \A i \in Index : i < first => d[i] = c[i]
        BY <2>2, KeyedRows, OverlayRow
    <2>4. QED
        BY <2>3 DEF Held
<1>5. \A i \in Held(f) : i > 1 =>
        f[i].prev = IF i = first THEN HashAt(c, i - 1) ELSE HashAt(f, i - 1)
    BY DEF VerifyFork, VerifyBlock, Keyed
<1> HIDE DEF d, first
<1>6. ASSUME NEW j \in Index, j < first, LinkedTo(c, j) PROVE LinkedTo(d, j)
    <2> SUFFICES ASSUME NEW k \in 1 .. j
                 PROVE  k \in Held(d) /\ (k > 1 => d[k].prev = HashAt(d, k - 1))
        BY DEF LinkedTo
    <2>1. k \in Index /\ k < first /\ k \in Nat /\ first \in Nat
        <3>1. k \in Index /\ k <= j
            BY IndexRange
        <3>2. k \in Nat /\ j \in Nat /\ first \in Nat
            BY <1>1, <1>2, <3>1
        <3>3. QED
            BY <1>6, <3>1, <3>2
    <2>2. k \in Held(c) /\ (k > 1 => c[k].prev = HashAt(c, k - 1))
        BY <1>6 DEF LinkedTo
    <2>3. k > 1 => k - 1 \in Index /\ k - 1 < first
        BY <2>1, IndexRange
    <2>4. k > 1 => HashAt(d, k - 1) = HashAt(c, k - 1)
        BY <1>4, <2>3 DEF HashAt
    <2>5. QED
        BY <1>4, <2>1, <2>2, <2>4
<1>7. ASSUME NEW j \in Held(f), \A k \in Index : k < first => LinkedTo(c, k)
      PROVE  LinkedTo(d, j)
    <2> SUFFICES ASSUME NEW k \in 1 .. j
                 PROVE  k \in Held(d) /\ (k > 1 => d[k].prev = HashAt(d, k - 1))
        BY DEF LinkedTo
    <2>1. k \in Index /\ k \in Nat /\ first \in Nat /\ j \in Index /\ j \in Nat
        BY <1>1, <1>2, IndexRange
    <2>2. CASE k < first
        <3>1. LinkedTo(c, k)
            BY <1>7, <2>1, <2>2
        <3>2. LinkedTo(d, k)
            BY <1>6, <2>1, <2>2, <3>1
        <3>3. k \in 1 .. k
            BY <2>1 DEF Index
        <3>4. QED
            BY <3>2, <3>3 DEF LinkedTo
    <2>3. CASE k = first
        <3>1. k > 1 => HashAt(d, k - 1) = HashAt(c, k - 1)
            <4>1. k > 1 => k - 1 \in Index /\ k - 1 < first
                BY <2>1, <2>3, IndexRange
            <4>2. QED
                BY <1>4, <4>1 DEF HashAt
        <3>2. QED
            BY <1>1, <1>3, <1>5, <2>3, <3>1
    <2>4. CASE k > first
        <3>1. k \in Held(f)
            <4>1. CASE k = j
                BY <4>1
            <4>2. CASE k < j
                BY <1>1, <2>1, <2>4, <4>2, VerifiedUnbroken
            <4>3. QED
                BY <2>1, <4>1, <4>2
        <3>2. k - 1 \in Held(f)
            <4>1. CASE k - 1 = first
                BY <1>1, <4>1
            <4>2. CASE k - 1 > first
                <5>1. k - 1 \in Index /\ k - 1 < k
                    BY <2>1, <2>4, <1>1, <1>2, IndexRange
                <5>2. QED
                    BY <1>1, <3>1, <4>2, <5>1, VerifiedUnbroken
            <4>3. QED
                BY <2>1, <2>4, <4>1, <4>2
        <3>3. HashAt(d, k - 1) = HashAt(f, k - 1)
            BY <1>3, <3>2 DEF HashAt
        <3>4. k # first
            BY <2>1, <2>4
        <3>5. QED
            BY <1>3, <1>5, <3>1, <3>3, <3>4
    <2>5. QED
        BY <2>1, <2>2, <2>3, <2>4
<1>8. QED
    BY <1>3, <1>4, <1>6, <1>7 DEF d, first

\* A luckier fork takes no luck from the linked part of the chain: what it
\* displaces there is worth no more than the fork, and all of it gets linked.
LEMMA LuckierForkKeepsLuck ==
    ASSUME NEW c \in Tables, Keyed(c), NEW r, NEW f \in Tables, Keyed(f), Held(f) # {},
           NEW low \in BOOLEAN, VerifyFork(c, r, f, low), IsLuckierChain(c, RowsOf(f), f)
    PROVE  LuckOf(LinkedPart(c)) <= LuckOf(LinkedPart(Overlay(c, RowsOf(f))))
<1> DEFINE s == RowsOf(f)
           d == Overlay(c, s)
           first == Min(Held(f))
           J == {j \in Held(c) : LinkedTo(c, j)}
           P == LinkedPart(c)
           A == {c[j] : j \in {i \in J : i < first}}
           D == {c[j] : j \in {i \in J : ~ (i < first)}}
           Q == LinkedPart(d)
           O == {c[j] : j \in {i \in Held(c) : i >= first}}
<1>1. /\ FirstIndex(s) = first /\ first \in Held(f)
      /\ \A i \in Held(f) : first <= i
    BY FirstOfFork
<1>2. Held(c) \subseteq Index /\ Held(f) \subseteq Index /\ Held(d) \subseteq Index /\ Index \subseteq Nat
    BY IndexRange DEF Held
<1>3. P = {c[j] : j \in J} /\ Q = {d[j] : j \in {i \in Held(d) : LinkedTo(d, i)}}
    BY DEF LinkedPart, LinkedTo
<1>4. d \in Tables
    BY RowsAreBlocks, OverlayType
<1>5. /\ \A j \in Index : j < first => d[j] = c[j] /\ (LinkedTo(c, j) => LinkedTo(d, j))
      /\ \A j \in Held(f) : /\ d[j] = f[j]
                            /\ (\A k \in Index : k < first => LinkedTo(c, k)) => LinkedTo(d, j)
    BY ForkLinkedTo
<1>6. s = {f[j] : j \in Held(f)}
    BY DEF RowsOf
<1>7. Lucky(P) /\ Lucky(A) /\ Lucky(D) /\ Lucky(O) /\ Lucky(s) /\ Lucky(Q)
    <2>1. /\ J \in SUBSET Held(c)
          /\ {i \in J : i < first} \in SUBSET Held(c) /\ {i \in J : ~ (i < first)} \in SUBSET Held(c)
          /\ {i \in Held(c) : i >= first} \in SUBSET Held(c)
          /\ {i \in Held(d) : LinkedTo(d, i)} \in SUBSET Held(d)
        OBVIOUS
    <2> HIDE DEF d, J, first, P, Q
    <2>2. QED
        BY <1>3, <1>4, <1>6, <2>1, RowsLucky
<1>8. \A b \in s : b.index >= first
    BY <1>1, <1>6 DEF Keyed
<1>9. \A b \in A : b.index < first
    BY DEF Keyed
<1>10. \A b \in D : ~ (b.index < first)
    BY DEF Keyed
<1> HIDE DEF s, d, first
<1>11. P = A \cup D
    BY <1>3
<1>12. A \cap D = {}
    BY <1>9, <1>10
<1>13. A \cap s = {}
    <2> SUFFICES ASSUME NEW b \in A, b \in s PROVE FALSE
        OBVIOUS
    <2>1. b.index < first /\ b.index >= first
        BY <1>8, <1>9
    <2>2. b.index \in Nat /\ first \in Nat
        BY <1>1, <1>2 DEF Keyed
    <2>3. QED
        BY <2>1, <2>2
<1>14. A \subseteq Q
    <2> SUFFICES ASSUME NEW j \in Held(c), LinkedTo(c, j), j < first PROVE c[j] \in Q
        OBVIOUS
    <2>1. d[j] = c[j] /\ LinkedTo(d, j)
        BY <1>2, <1>5
    <2>2. j \in Held(d)
        BY <1>2, <2>1 DEF Held
    <2>3. QED
        BY <1>3, <2>1, <2>2
<1>15. D \subseteq O
    <2>1. ASSUME NEW i \in Held(c), ~ (i < first) PROVE i >= first
        <3>1. i \in Nat /\ first \in Nat
            BY <1>1, <1>2
        <3>2. QED
            BY <2>1, <3>1
    <2>2. QED
        BY <2>1
<1>16. LuckOf(O) <= LuckOf(s)
    <2>1. LuckOf(O) = LuckFrom(c, first)
        BY DEF LuckFrom
    <2>2. LuckFrom(c, first) < LuckOf(s) \/ LuckFrom(c, first) = LuckOf(s)
        BY <1>1 DEF IsLuckierChain, s
    <2>3. LuckOf(O) \in Nat /\ LuckOf(s) \in Nat
        BY <1>7, LuckType
    <2> HIDE DEF O
    <2>4. QED
        BY <2>1, <2>2, <2>3
<1>17. D # {} => s \subseteq Q
    <2> SUFFICES ASSUME NEW i \in Held(c), LinkedTo(c, i), ~ (i < first), NEW j \in Held(f)
                 PROVE  f[j] \in Q
        BY <1>6
    <2>1. ASSUME NEW k \in Index, k < first PROVE LinkedTo(c, k)
        <3>1. k \in Nat /\ i \in Nat /\ first \in Nat
            BY <1>1, <1>2
        <3>2. k <= i
            BY <2>1, <3>1
        <3>3. \A l \in 1 .. k : l \in 1 .. i
            BY <3>1, <3>2
        <3>4. QED
            BY <3>3 DEF LinkedTo
    <2>2. d[j] = f[j] /\ LinkedTo(d, j)
        BY <1>5, <2>1
    <2>3. j \in Held(d)
        BY <1>2, <2>2 DEF Held
    <2>4. QED
        BY <1>3, <2>2, <2>3
<1>18. LuckOf(P) = LuckOf(A) + LuckOf(D)
    <2> HIDE DEF A, D
    <2>1. QED
        BY <1>7, <1>11, <1>12, LuckUnion
<1>19. LuckOf(D) <= LuckOf(O)
    <2> HIDE DEF D, O
    <2>1. QED
        BY <1>7, <1>15, LuckSplit
<1>20. LuckOf(A) \in Nat /\ LuckOf(D) \in Nat /\ LuckOf(O) \in Nat /\ LuckOf(s) \in Nat /\ LuckOf(Q) \in Nat
    <2> HIDE DEF A, D, O, Q
    <2>1. QED
        BY <1>7, LuckType
<1>21. CASE D = {}
    <2> HIDE DEF A, D, P, Q
    <2>1. P = A
        BY <1>11, <1>21
    <2>2. LuckOf(A) <= LuckOf(Q)
        BY <1>7, <1>14, LuckSplit
    <2>3. QED
        BY <2>1, <2>2 DEF P, Q, d, s
<1>22. CASE D # {}
    <2> HIDE DEF A, D, P, Q, O
    <2>1. A \cup s \in SUBSET Q
        BY <1>14, <1>17, <1>22
    <2>2. LuckOf(A \cup s) = LuckOf(A) + LuckOf(s)
        BY <1>7, <1>13, LuckUnion
    <2>3. LuckOf(A \cup s) <= LuckOf(Q)
        BY <1>7, <2>1, LuckSplit
    <2>4. LuckOf(P) <= LuckOf(Q)
        BY <1>16, <1>18, <1>19, <1>20, <2>2, <2>3
    <2>5. QED
        BY <2>4 DEF P, Q, d, s
<1>23. QED
    BY <1>21, <1>22
=============================================================================
