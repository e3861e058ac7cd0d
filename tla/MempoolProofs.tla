---------------------------- MODULE MempoolProofs ----------------------------
(***************************************************************************)
(* Payments of one node, for any number of payments, copies and blocks:    *)
(* none is lost, listed twice or paid twice, except as the threads cross   *)
(* each other in the ways that the properties name.                        *)
(***************************************************************************)
EXTENDS Mempool, SequenceTheorems, FiniteSetTheorems, TLAPS

Entries   == Payments \cup Nat
BlockType == [n : Nat, txs : Seq(Payments)]
ForkType  == [start : Nat, blocks : Seq(BlockType)]

TypeInv ==
    /\ mempool \in Seq(Entries)
    /\ main \in Seq(BlockType)
    /\ found \in Nat
    /\ pc \in [Threads -> {"idle", "push", "update", "putback"}]
    /\ hand \in [Threads -> Entries \cup {Nobody}]
    /\ fork \in [Threads -> ForkType]
    /\ adds \in [Threads -> Seq(Entries)]
    /\ dels \in [Threads -> Seq(Entries)]
    /\ cursor \in Nat
    /\ base \in Seq(BlockType)
    /\ trans \in Seq(Payments)
    /\ raced \in SUBSET Threads
    /\ torn \in BOOLEAN

\* The blocks have this transaction.
Carries(blocks, e) ==
    \E i \in DOMAIN blocks : e = blocks[i].n \/ \E j \in DOMAIN blocks[i].txs : e = blocks[i].txs[j]

\* A thread holds a transaction while it adds one, and a fork while it is in
\* handleBlock; what it deletes is in that fork.
OwnCall(t) ==
    /\ pc[t] = "push" <=> hand[t] # Nobody
    /\ pc[t] = "idle" => ~ InHandleBlock(t)
    /\ pc[t] \in {"update", "putback"} => InHandleBlock(t)
    /\ pc[t] = "update" \/ ~ InHandleBlock(t) => adds[t] = <<>> /\ dels[t] = <<>>
    /\ \A j \in DOMAIN dels[t] : Carries(fork[t].blocks, dels[t][j])
    /\ InHandleBlock(t) => fork[t].start \in 1 .. Len(main) + 1

CallInv == (\A t \in Threads : OwnCall(t)) /\ (cursor # 0 => pc["miner"] = "idle")

\* What a thread in handleBlock displaces is put back, or will be, or is in a
\* fork that displaces it in turn.
Due(t) == InHandleBlock(t) /\ t \notin raced /\ pc[t] # "update"
Place(t, p) ==
    \/ InMempool(p) \/ hand[t] = p \/ p \in ToSet(adds[t])
    \/ \E u \in Threads : Carries(fork[u].blocks, p)
Restored ==
    \A t \in Threads : Due(t) => \A p \in Payments : Carries(From(fork[t].start), p) => Place(t, p)

\* The sequence has a transaction twice only if the threads crossed.
Once(s) == \A i, j \in DOMAIN s : i # j /\ s[i] = s[j] => s[i] \in crossed

\* A second entry is added only by a thread that looked before the first was.
Listed ==
    /\ Once(mempool)
    /\ \A t \in Threads : pc[t] = "push" =>
        /\ InMempool(hand[t]) => hand[t] \in crossed
        /\ \A u \in Threads \ {t} : pc[u] = "push" /\ hand[u] = hand[t] => hand[t] \in crossed

\* putTxInBlock takes each entry of the mempool once.
Taken ==
    /\ Once(trans)
    /\ cursor # 0 => \A i \in DOMAIN trans : \E k \in DOMAIN mempool : k < cursor /\ mempool[k] = trans[i]

\* No block has a payment twice.
Whole(blocks) == \A i \in DOMAIN blocks : Once(blocks[i].txs)
BlocksWhole == Whole(main) /\ Whole(base) /\ \A t \in Threads : Whole(fork[t].blocks)

\* No two blocks of the chain have a payment in common.
Has(b, p) == \E j \in DOMAIN b.txs : b.txs[j] = p
ChainApart ==
    torn \/ \A i, j \in DOMAIN main : i < j => \A p \in Payments : ~ (Has(main[i], p) /\ Has(main[j], p))

\* A verified fork fits until the other thread writes the chain.
ForksFit == \A t \in Threads : InHandleBlock(t) /\ t \notin raced => Fits(fork[t])

LostInv == TypeInv /\ CallInv /\ Restored
PaidInv == TypeInv /\ CallInv /\ Listed /\ Taken /\ BlocksWhole /\ ChainApart /\ ForksFit

-----------------------------------------------------------------------------
(* Sequences.                                                              *)

LEMMA LeastNatural ==
    ASSUME NEW S \in SUBSET Nat, S # {}
    PROVE  \E n \in S : \A m \in S : n <= m
<1>1. PICK n \in S : \A m \in S : ~ (<<m, n>> \in OpToRel(<, Nat))
    BY NatLessThanWellFounded, WFMin
<1>2. \A m \in S : ~ (m < n)
    BY <1>1 DEF OpToRel
<1>3. QED
    BY <1>2

\* The function that FlattenSeq builds exists.
LEMMA FlattenExists ==
    ASSUME NEW s, NEW n \in Nat
    PROVE  \E f : f = [i \in 1 .. n |-> IF i = 1 THEN s[i] ELSE f[i - 1] \o s[i]]
<1> DEFINE Is(f, m) == f = [i \in 1 .. m |-> IF i = 1 THEN s[i] ELSE f[i - 1] \o s[i]]
           bad == {m \in Nat : ~ \E f : Is(f, m)}
<1>1. SUFFICES ASSUME bad # {} PROVE FALSE
    OBVIOUS
<1>2. PICK m \in bad : \A k \in bad : m <= k
    BY <1>1, LeastNatural
<1>3. CASE m = 0
    <2>1. Is([i \in 1 .. 0 |-> 0], 0)
        OBVIOUS
    <2>2. QED
        BY <1>2, <1>3, <2>1
<1>4. CASE m # 0
    <2>1. m \in Nat /\ m - 1 \in Nat /\ m - 1 \notin bad
        <3>1. m \in Nat
            BY <1>2
        <3> HIDE DEF bad
        <3>2. QED
            BY <1>2, <1>4, <3>1
    <2>2. PICK f : Is(f, m - 1)
        BY <2>1
    <2> DEFINE e == IF m = 1 THEN s[m] ELSE f[m - 1] \o s[m]
               g == [i \in 1 .. m |-> IF i = m THEN e ELSE f[i]]
    <2>3. \A i \in 1 .. m - 1 : f[i] = IF i = 1 THEN s[i] ELSE f[i - 1] \o s[i]
        BY <2>1, <2>2
    <2>4. \A i \in 1 .. m : i # 1 => g[i - 1] = f[i - 1]
        BY <2>1
    <2>5. \A i \in 1 .. m : g[i] = IF i = 1 THEN s[i] ELSE g[i - 1] \o s[i]
        <3>1. ASSUME NEW i \in 1 .. m, i # m
              PROVE  g[i] = IF i = 1 THEN s[i] ELSE g[i - 1] \o s[i]
            <4>1. i \in 1 .. m - 1 /\ g[i] = f[i]
                BY <2>1, <3>1
            <4> HIDE DEF g
            <4>2. QED
                BY <2>3, <2>4, <4>1
        <3>2. g[m] = IF m = 1 THEN s[m] ELSE g[m - 1] \o s[m]
            <4>1. m \in 1 .. m /\ g[m] = e
                BY <2>1, <1>4
            <4>2. CASE m = 1
                BY <4>1, <4>2
            <4>3. CASE m # 1
                <5>1. g[m - 1] = f[m - 1]
                    BY <2>4, <4>1, <4>3
                <5> HIDE DEF g
                <5>2. QED
                    BY <4>1, <4>3, <5>1
            <4>4. QED
                BY <4>2, <4>3
        <3> HIDE DEF g
        <3>3. QED
            BY <3>1, <3>2
    <2>6. g = [i \in 1 .. m |-> g[i]]
        OBVIOUS
    <2> HIDE DEF g
    <2>7. Is(g, m)
        BY <2>5, <2>6
    <2>8. QED
        BY <1>2, <2>7
<1>5. QED
    BY <1>3, <1>4

LEMMA FlattenSteps ==
    ASSUME NEW S, NEW s \in Seq(S), s # <<>>
    PROVE  \E f : /\ f[1] = s[1]
                  /\ \A i \in 2 .. Len(s) : f[i] = f[i - 1] \o s[i]
                  /\ FlattenSeq(s) = f[Len(s)]
<1> DEFINE Is(f) == f = [i \in 1 .. Len(s) |-> IF i = 1 THEN s[i] ELSE f[i - 1] \o s[i]]
           g == CHOOSE f : Is(f)
<1>1. Len(s) \in Nat /\ Len(s) # 0
    OBVIOUS
<1>2. FlattenSeq(s) = g[Len(s)]
    BY <1>1 DEF FlattenSeq
<1>3. \E f : Is(f)
    BY <1>1, FlattenExists
<1>4. Is(g)
    BY <1>3
<1> HIDE DEF g
<1>5. g[1] = s[1] /\ \A i \in 2 .. Len(s) : g[i] = g[i - 1] \o s[i]
    <2>1. \A i \in 1 .. Len(s) : g[i] = IF i = 1 THEN s[i] ELSE g[i - 1] \o s[i]
        BY <1>4
    <2>2. g[1] = s[1]
        BY <1>1, <2>1
    <2>3. ASSUME NEW i \in 2 .. Len(s) PROVE g[i] = g[i - 1] \o s[i]
        <3>1. i \in 1 .. Len(s) /\ i # 1
            BY <1>1
        <3>2. QED
            BY <2>1, <3>1
    <2>4. QED
        BY <2>2, <2>3
<1>6. QED
    BY <1>2, <1>5

\* What is in the sequence of sequences is in the flat one, and an element
\* that comes twice there comes twice in one of them, or in two of them.
Comes(s, k, e) == \E j \in DOMAIN s[k] : s[k][j] = e
Twice(s, k, e) == \E i, j \in DOMAIN s[k] : i # j /\ s[k][i] = e /\ s[k][j] = e
Flat(f, s, m) ==
    /\ \A e : (\E a \in DOMAIN f : f[a] = e) <=> \E k \in 1 .. m : Comes(s, k, e)
    /\ \A a, b \in DOMAIN f : a # b /\ f[a] = f[b] =>
        \/ \E k \in 1 .. m : Twice(s, k, f[a])
        \/ \E k, l \in 1 .. m : k < l /\ Comes(s, k, f[a]) /\ Comes(s, l, f[a])

LEMMA FlatStep ==
    ASSUME NEW S, NEW s \in Seq(Seq(S)), NEW i \in 2 .. Len(s),
           NEW f \in Seq(S), Flat(f, s, i - 1)
    PROVE  f \o s[i] \in Seq(S) /\ Flat(f \o s[i], s, i)
<1> DEFINE g == f \o s[i]
           n == Len(f)
<1>1. s[i] \in Seq(S) /\ i \in Nat /\ n \in Nat /\ Len(s[i]) \in Nat
    OBVIOUS
<1>2. /\ g \in Seq(S) /\ Len(g) = n + Len(s[i]) /\ DOMAIN g = 1 .. n + Len(s[i])
      /\ \A a \in 1 .. n + Len(s[i]) : g[a] = IF a <= n THEN f[a] ELSE s[i][a - n]
    BY <1>1, ConcatProperties
<1>3. DOMAIN f = 1 .. n /\ DOMAIN s[i] = 1 .. Len(s[i])
    BY <1>1
<1> HIDE DEF g, n
<1>4. ASSUME NEW a \in DOMAIN g
      PROVE  \/ a \in DOMAIN f /\ g[a] = f[a]
             \/ a - n \in DOMAIN s[i] /\ g[a] = s[i][a - n] /\ ~ (a <= n)
    BY <1>1, <1>2, <1>3, SMTT(60)
<1>5. ASSUME NEW e, NEW a \in DOMAIN g, g[a] = e
      PROVE  \E k \in 1 .. i : Comes(s, k, e)
    <2>1. CASE a \in DOMAIN f /\ g[a] = f[a]
        <3>1. PICK k \in 1 .. i - 1 : Comes(s, k, e)
            BY <1>5, <2>1 DEF Flat
        <3>2. k \in 1 .. i
            BY <1>1
        <3>3. QED
            BY <3>1, <3>2
    <2>2. CASE a - n \in DOMAIN s[i] /\ g[a] = s[i][a - n]
        <3>1. i \in 1 .. i
            BY <1>1
        <3>2. QED
            BY <1>5, <2>2, <3>1 DEF Comes
    <2>3. QED
        BY <1>4, <2>1, <2>2
<1>6. ASSUME NEW e, NEW k \in 1 .. i, Comes(s, k, e)
      PROVE  \E a \in DOMAIN g : g[a] = e
    <2>1. CASE k = i
        <3>1. PICK j \in DOMAIN s[i] : s[i][j] = e
            BY <1>6, <2>1 DEF Comes
        <3>2. j + n \in DOMAIN g /\ ~ (j + n <= n) /\ (j + n) - n = j
            BY <1>1, <1>2, <1>3, SMTT(60)
        <3>3. g[j + n] = e
            BY <1>2, <3>1, <3>2
        <3>4. QED
            BY <3>2, <3>3
    <2>2. CASE k # i
        <3>1. k \in 1 .. i - 1
            BY <1>1, <2>2
        <3>2. PICK a \in DOMAIN f : f[a] = e
            BY <1>6, <3>1 DEF Flat
        <3>3. a \in DOMAIN g /\ a <= n
            BY <1>1, <1>2, <1>3
        <3>4. QED
            BY <1>2, <3>2, <3>3
    <2>3. QED
        BY <2>1, <2>2
<1>7. ASSUME NEW a \in DOMAIN g, NEW b \in DOMAIN g, a # b, g[a] = g[b]
      PROVE  \/ \E k \in 1 .. i : Twice(s, k, g[a])
             \/ \E k, l \in 1 .. i : k < l /\ Comes(s, k, g[a]) /\ Comes(s, l, g[a])
    <2>0. i \in 1 .. i /\ \A k \in 1 .. i - 1 : k \in 1 .. i /\ k < i
        BY <1>1
    <2>1. CASE (a \in DOMAIN f /\ g[a] = f[a]) /\ (b \in DOMAIN f /\ g[b] = f[b])
        <3>1. \/ \E k \in 1 .. i - 1 : Twice(s, k, g[a])
              \/ \E k, l \in 1 .. i - 1 : k < l /\ Comes(s, k, g[a]) /\ Comes(s, l, g[a])
            BY <1>7, <2>1 DEF Flat
        <3>2. QED
            BY <2>0, <3>1
    <2>2. CASE (a - n \in DOMAIN s[i] /\ g[a] = s[i][a - n]) /\ (b - n \in DOMAIN s[i] /\ g[b] = s[i][b - n])
        <3>1. a - n # b - n
            BY <1>1, <1>2, <1>7
        <3>2. Twice(s, i, g[a])
            BY <1>7, <2>2, <3>1 DEF Twice
        <3>3. QED
            BY <2>0, <3>2
    <2>3. ASSUME NEW c \in DOMAIN g, NEW d \in DOMAIN g, g[c] = g[a], g[d] = g[a],
                 c \in DOMAIN f /\ g[c] = f[c], d - n \in DOMAIN s[i] /\ g[d] = s[i][d - n]
          PROVE  \E k, l \in 1 .. i : k < l /\ Comes(s, k, g[a]) /\ Comes(s, l, g[a])
        <3>1. PICK k \in 1 .. i - 1 : Comes(s, k, g[a])
            BY <2>3 DEF Flat
        <3>2. Comes(s, i, g[a])
            BY <2>3 DEF Comes
        <3>3. QED
            BY <2>0, <3>1, <3>2
    <2>4. QED
        BY <1>4, <1>7, <2>1, <2>2, <2>3
<1>8. Flat(g, s, i)
    BY <1>5, <1>6, <1>7 DEF Flat
<1>9. QED
    BY <1>2, <1>8 DEF g

LEMMA Flattened ==
    ASSUME NEW S, NEW s \in Seq(Seq(S))
    PROVE  FlattenSeq(s) \in Seq(S) /\ Flat(FlattenSeq(s), s, Len(s))
<1>1. CASE s = <<>>
    <2>1. FlattenSeq(s) = <<>> /\ Len(s) = 0
        BY <1>1 DEF FlattenSeq
    <2>2. QED
        BY <2>1 DEF Flat
<1>2. CASE s # <<>>
    <2>1. PICK f : /\ f[1] = s[1] /\ FlattenSeq(s) = f[Len(s)]
                   /\ \A i \in 2 .. Len(s) : f[i] = f[i - 1] \o s[i]
        BY <1>2, FlattenSteps
    <2>2. Len(s) \in Nat /\ Len(s) >= 1
        BY <1>2
    <2> DEFINE Good(i) == f[i] \in Seq(S) /\ Flat(f[i], s, i)
               bad == {i \in 1 .. Len(s) : ~ Good(i)}
    <2>3. Good(1)
        <3>1. s[1] \in Seq(S)
            BY <2>2
        <3>2. \A k \in 1 .. 1 : k = 1
            OBVIOUS
        <3>3. Flat(s[1], s, 1)
            BY <3>2 DEF Flat, Comes, Twice
        <3>4. QED
            BY <2>1, <3>1, <3>3
    <2>4. ASSUME NEW i \in 2 .. Len(s), Good(i - 1)
          PROVE  Good(i)
        <3>1. f[i] = f[i - 1] \o s[i]
            BY <2>1
        <3>2. QED
            BY <2>4, <3>1, FlatStep
    <2>5. bad = {}
        <3>1. SUFFICES ASSUME bad # {} PROVE FALSE
            OBVIOUS
        <3>2. bad \subseteq Nat
            BY <2>2
        <3>3. PICK m \in bad : \A k \in bad : m <= k
            <4> HIDE DEF bad
            <4>1. QED
                BY <3>1, <3>2, LeastNatural
        <3>4. m \in 1 .. Len(s) /\ ~ Good(m)
            OBVIOUS
        <3> HIDE DEF Good
        <3>5. m # 1
            BY <2>3, <3>4
        <3>6. m \in 2 .. Len(s) /\ m - 1 \in 1 .. Len(s) /\ ~ (m <= m - 1)
            BY <2>2, <3>4, <3>5
        <3>7. Good(m - 1)
            BY <3>3, <3>6
        <3>8. QED
            BY <2>4, <3>4, <3>6, <3>7
    <2>6. Good(Len(s))
        <3>1. Len(s) \in 1 .. Len(s) /\ Len(s) \notin bad
            BY <2>2, <2>5
        <3>2. QED
            BY <3>1
    <2>7. QED
        BY <2>1, <2>6
<1>3. QED
    BY <1>1, <1>2

\* A sequence cut in two.
LEMMA Parts ==
    ASSUME NEW S, NEW s \in Seq(S), NEW k \in 1 .. Len(s) + 1
    PROVE  /\ SubSeq(s, 1, k - 1) \in Seq(S) /\ Len(SubSeq(s, 1, k - 1)) = k - 1
           /\ \A i \in 1 .. k - 1 : SubSeq(s, 1, k - 1)[i] = s[i]
           /\ SubSeq(s, k, Len(s)) \in Seq(S) /\ Len(SubSeq(s, k, Len(s))) = Len(s) - k + 1
           /\ \A i \in 1 .. Len(s) - k + 1 : SubSeq(s, k, Len(s))[i] = s[k + i - 1]
<1>1. Len(s) \in Nat /\ k \in Int /\ k - 1 \in Int /\ \A i \in 1 .. Len(s) : s[i] \in S
    OBVIOUS
<1>2. \A i \in 1 .. k - 1 : s[i] \in S
    BY <1>1
<1>3. \A i \in k .. Len(s) : s[i] \in S
    BY <1>1
<1>4. /\ SubSeq(s, 1, k - 1) \in Seq(S)
      /\ Len(SubSeq(s, 1, k - 1)) = IF 1 <= k - 1 THEN k - 1 - 1 + 1 ELSE 0
      /\ \A i \in 1 .. k - 1 - 1 + 1 : SubSeq(s, 1, k - 1)[i] = s[1 + i - 1]
    BY <1>1, <1>2, SubSeqProperties
<1>5. /\ SubSeq(s, k, Len(s)) \in Seq(S)
      /\ Len(SubSeq(s, k, Len(s))) = IF k <= Len(s) THEN Len(s) - k + 1 ELSE 0
      /\ \A i \in 1 .. Len(s) - k + 1 : SubSeq(s, k, Len(s))[i] = s[k + i - 1]
    BY <1>1, <1>3, SubSeqProperties
<1>6. Len(SubSeq(s, 1, k - 1)) = k - 1 /\ Len(SubSeq(s, k, Len(s))) = Len(s) - k + 1
    BY <1>1, <1>4, <1>5
<1>7. ASSUME NEW i \in 1 .. k - 1 PROVE SubSeq(s, 1, k - 1)[i] = s[i]
    <2>1. i \in 1 .. k - 1 - 1 + 1 /\ 1 + i - 1 = i
        BY <1>1
    <2>2. QED
        BY <1>4, <2>1
<1>8. QED
    BY <1>4, <1>5, <1>6, <1>7

LEMMA Removed ==
    ASSUME NEW S, NEW s \in Seq(S), NEW k \in DOMAIN s
    PROVE  /\ RemoveAt(s, k) \in Seq(S) /\ Len(RemoveAt(s, k)) = Len(s) - 1
           /\ \A i \in 1 .. Len(s) - 1 : RemoveAt(s, k)[i] = IF i < k THEN s[i] ELSE s[i + 1]
<1>1. Len(s) \in Nat /\ k \in 1 .. Len(s) /\ k \in 1 .. Len(s) + 1 /\ k + 1 \in 1 .. Len(s) + 1
    OBVIOUS
<1> DEFINE a == SubSeq(s, 1, k - 1)
           b == SubSeq(s, k + 1, Len(s))
<1>2. a \in Seq(S) /\ Len(a) = k - 1 /\ \A i \in 1 .. k - 1 : a[i] = s[i]
    BY <1>1, Parts
<1>3. /\ b \in Seq(S) /\ Len(b) = Len(s) - (k + 1) + 1
      /\ \A i \in 1 .. Len(s) - (k + 1) + 1 : b[i] = s[(k + 1) + i - 1]
    BY <1>1, Parts
<1>4. RemoveAt(s, k) = a \o b
    BY DEF RemoveAt
<1> HIDE DEF a, b
<1>5. /\ a \o b \in Seq(S) /\ Len(a \o b) = Len(a) + Len(b)
      /\ \A i \in 1 .. Len(a) + Len(b) : (a \o b)[i] = IF i <= Len(a) THEN a[i] ELSE b[i - Len(a)]
    BY <1>2, <1>3, ConcatProperties
<1>6. Len(a) + Len(b) = Len(s) - 1
    BY <1>1, <1>2, <1>3, SMTT(60)
<1>7. ASSUME NEW i \in 1 .. Len(s) - 1
      PROVE  (a \o b)[i] = IF i < k THEN s[i] ELSE s[i + 1]
    <2>1. (a \o b)[i] = IF i <= Len(a) THEN a[i] ELSE b[i - Len(a)]
        BY <1>5, <1>6
    <2>2. CASE i < k
        <3>1. i \in 1 .. k - 1 /\ i <= Len(a)
            BY <1>1, <1>2, <2>2
        <3>2. QED
            BY <1>2, <2>1, <2>2, <3>1
    <2>3. CASE ~ (i < k)
        <3>1. /\ i - (k - 1) \in 1 .. Len(s) - (k + 1) + 1 /\ ~ (i <= Len(a))
              /\ (k + 1) + (i - (k - 1)) - 1 = i + 1
            BY <1>1, <1>2, <2>3, SMTT(60)
        <3>2. QED
            BY <1>2, <1>3, <2>1, <2>3, <3>1
    <2>4. QED
        BY <2>2, <2>3
<1>8. QED
    BY <1>4, <1>5, <1>6, <1>7

\* Only the removed element may be gone, and nothing comes twice that did not.
LEMMA RemovedSet ==
    ASSUME NEW S, NEW s \in Seq(S), NEW k \in DOMAIN s
    PROVE  /\ \A x \in ToSet(s) : x = s[k] \/ x \in ToSet(RemoveAt(s, k))
           /\ \A x \in ToSet(RemoveAt(s, k)) : x \in ToSet(s)
           /\ Once(s) => Once(RemoveAt(s, k))
<1> DEFINE r == RemoveAt(s, k)
<1>0. Len(s) \in Nat /\ DOMAIN s = 1 .. Len(s) /\ k \in 1 .. Len(s)
    OBVIOUS
<1>1. /\ r \in Seq(S) /\ DOMAIN r = 1 .. Len(s) - 1
      /\ \A i \in 1 .. Len(s) - 1 : r[i] = IF i < k THEN s[i] ELSE s[i + 1]
    <2>1. r \in Seq(S) /\ Len(r) = Len(s) - 1
        BY Removed
    <2>2. DOMAIN r = 1 .. Len(r)
        <3> HIDE DEF r
        <3>1. QED
            BY <2>1
    <2>3. \A i \in 1 .. Len(s) - 1 : r[i] = IF i < k THEN s[i] ELSE s[i + 1]
        BY Removed
    <2>4. QED
        BY <2>1, <2>2, <2>3
<1> HIDE DEF r
<1>2. ASSUME NEW j \in DOMAIN s, j # k
      PROVE  \E i \in DOMAIN r : r[i] = s[j]
    <2>1. CASE j < k
        <3>1. j \in 1 .. Len(s) - 1
            BY <1>0, <2>1
        <3>2. QED
            BY <1>1, <2>1, <3>1
    <2>2. CASE ~ (j < k)
        <3>1. j - 1 \in 1 .. Len(s) - 1 /\ ~ (j - 1 < k) /\ (j - 1) + 1 = j
            BY <1>0, <1>2, <2>2
        <3>2. QED
            BY <1>1, <3>1
    <2>3. QED
        BY <2>1, <2>2
<1> DEFINE at(i) == IF i < k THEN i ELSE i + 1
<1>3. ASSUME NEW i \in DOMAIN r
      PROVE  at(i) \in DOMAIN s /\ r[i] = s[at(i)]
    BY <1>0, <1>1
<1>4. \A i, j \in DOMAIN r : i # j => at(i) # at(j)
    BY <1>0, <1>1
<1>5. \A x \in ToSet(s) : x = s[k] \/ x \in ToSet(r)
    BY <1>2 DEF ToSet
<1> HIDE DEF at
<1>6. \A x \in ToSet(r) : x \in ToSet(s)
    BY <1>3 DEF ToSet
<1>7. Once(s) => Once(r)
    BY <1>3, <1>4 DEF Once
<1>8. QED
    BY <1>5, <1>6, <1>7 DEF r

LEMMA WithoutOne ==
    ASSUME NEW S, NEW s \in Seq(S), NEW e
    PROVE  Without(s, e) = s \/ \E k \in DOMAIN s : s[k] = e /\ Without(s, e) = RemoveAt(s, k)
<1>1. CASE e \notin ToSet(s)
    BY <1>1 DEF Without
<1>2. CASE e \in ToSet(s)
    <2> DEFINE I == {i \in 1 .. Len(s) : s[i] = e}
    <2>1. DOMAIN s = 1 .. Len(s) /\ I \subseteq Nat
        OBVIOUS
    <2>2. I # {} /\ \E i \in 1 .. Len(s) : s[i] = e
        BY <1>2, <2>1 DEF ToSet
    <2>3. Without(s, e) = RemoveAt(s, Min(I))
        BY <1>2, <2>2 DEF Without, RemoveFirst, SelectInSeq
    <2>4. PICK n \in I : \A m \in I : n <= m
        <3> HIDE DEF I
        <3>1. QED
            BY <2>1, <2>2, LeastNatural
    <2>5. Min(I) \in I
        <3> HIDE DEF I
        <3>1. QED
            BY <2>4 DEF Min
    <2>6. QED
        BY <2>1, <2>3, <2>5
<1>3. QED
    BY <1>1, <1>2

\* The transactions of blocks, and a payment that they have twice.
PaysTwice(blocks, p) ==
    \/ \E i \in DOMAIN blocks : \E j, k \in DOMAIN blocks[i].txs :
            j # k /\ blocks[i].txs[j] = p /\ blocks[i].txs[k] = p
    \/ \E i, j \in DOMAIN blocks : i < j /\ Has(blocks[i], p) /\ Has(blocks[j], p)

LEMMA TxsOfBlocks ==
    ASSUME NEW blocks \in Seq(BlockType)
    PROVE  /\ TxsOf(blocks) \in Seq(Entries)
           /\ \A e : e \in ToSet(TxsOf(blocks)) <=> Carries(blocks, e)
           /\ \A p \in Payments : \A a, b \in DOMAIN TxsOf(blocks) :
                a # b /\ TxsOf(blocks)[a] = p /\ TxsOf(blocks)[b] = p => PaysTwice(blocks, p)
<1> DEFINE s == [i \in DOMAIN blocks |-> Append(blocks[i].txs, blocks[i].n)]
<1>1. Len(blocks) \in Nat /\ DOMAIN blocks = 1 .. Len(blocks)
    OBVIOUS
<1>2. ASSUME NEW i \in DOMAIN blocks
      PROVE  /\ s[i] \in Seq(Entries) /\ blocks[i].txs \in Seq(Payments) /\ blocks[i].n \in Nat
             /\ DOMAIN blocks[i].txs = 1 .. Len(blocks[i].txs) /\ Len(blocks[i].txs) \in Nat
             /\ DOMAIN s[i] = 1 .. Len(blocks[i].txs) + 1
             /\ \A j \in DOMAIN blocks[i].txs : s[i][j] = blocks[i].txs[j]
             /\ s[i][Len(blocks[i].txs) + 1] = blocks[i].n
    <2>1. blocks[i] \in BlockType
        BY <1>1
    <2>2. blocks[i].txs \in Seq(Payments) /\ blocks[i].n \in Nat
        BY <2>1 DEF BlockType
    <2>3. blocks[i].txs \in Seq(Entries) /\ blocks[i].n \in Entries
        BY <2>2, SeqMonotonic DEF Entries
    <2> DEFINE x == blocks[i].txs
               y == Append(x, blocks[i].n)
    <2>4. s[i] = y
        OBVIOUS
    <2>5. /\ y \in Seq(Entries) /\ Len(y) = Len(x) + 1
          /\ \A j \in 1 .. Len(x) : y[j] = x[j]
          /\ y[Len(x) + 1] = blocks[i].n
        BY <2>3, AppendProperties
    <2> HIDE DEF y, s
    <2>6. DOMAIN y = 1 .. Len(x) + 1 /\ DOMAIN x = 1 .. Len(x) /\ Len(x) \in Nat
        BY <2>2, <2>5
    <2>7. QED
        BY <2>2, <2>4, <2>5, <2>6
<1>3. s \in Seq(Seq(Entries)) /\ Len(s) = Len(blocks)
    <2>1. s \in [1 .. Len(blocks) -> Seq(Entries)]
        BY <1>1, <1>2
    <2> HIDE DEF s
    <2>2. QED
        BY <1>1, <2>1
<1>4. TxsOf(blocks) = FlattenSeq(s)
    BY DEF TxsOf
<1> DEFINE f == FlattenSeq(s)
<1> HIDE DEF s
<1>5. f \in Seq(Entries) /\ Flat(f, s, Len(s))
    BY <1>3, Flattened
<1> HIDE DEF f
<1>6. ASSUME NEW i \in DOMAIN blocks, NEW e
      PROVE  Comes(s, i, e) <=> e = blocks[i].n \/ \E j \in DOMAIN blocks[i].txs : e = blocks[i].txs[j]
    <2>1. ASSUME NEW j \in DOMAIN s[i]
          PROVE  \/ j \in DOMAIN blocks[i].txs /\ s[i][j] = blocks[i].txs[j]
                 \/ s[i][j] = blocks[i].n
        BY <1>2
    <2>2. \A j \in DOMAIN blocks[i].txs : j \in DOMAIN s[i] /\ s[i][j] = blocks[i].txs[j]
        BY <1>2
    <2>3. \E j \in DOMAIN s[i] : s[i][j] = blocks[i].n
        <3>1. Len(blocks[i].txs) + 1 \in DOMAIN s[i] /\ s[i][Len(blocks[i].txs) + 1] = blocks[i].n
            BY <1>2
        <3>2. QED
            BY <3>1
    <2>4. QED
        BY <2>1, <2>2, <2>3 DEF Comes
<1>7. \A e : e \in ToSet(f) <=> Carries(blocks, e)
    <2>1. \A e : e \in ToSet(f) <=> \E k \in 1 .. Len(s) : Comes(s, k, e)
        BY <1>5 DEF Flat, ToSet
    <2>2. ASSUME NEW e
          PROVE  (\E k \in 1 .. Len(s) : Comes(s, k, e)) <=> Carries(blocks, e)
        <3>1. 1 .. Len(s) = DOMAIN blocks
            BY <1>1, <1>3
        <3>2. (\E k \in DOMAIN blocks : Comes(s, k, e)) <=> Carries(blocks, e)
            BY <1>6 DEF Carries
        <3>3. QED
            BY <3>1, <3>2
    <2>3. QED
        BY <2>1, <2>2
<1>8. ASSUME NEW p \in Payments, NEW a \in DOMAIN f, NEW b \in DOMAIN f, a # b, f[a] = p, f[b] = p
      PROVE  PaysTwice(blocks, p)
    <2>1. p \notin Nat
        BY MempoolAssumption
    <2>2. ASSUME NEW k \in DOMAIN blocks, Comes(s, k, p)
          PROVE  Has(blocks[k], p)
        BY <1>2, <1>6, <2>1, <2>2, SMTT(60) DEF Has
    <2>3. ASSUME NEW k \in DOMAIN blocks, Twice(s, k, p)
          PROVE  \E i, j \in DOMAIN blocks[k].txs : i # j /\ blocks[k].txs[i] = p /\ blocks[k].txs[j] = p
        <3>1. PICK i \in DOMAIN s[k], j \in DOMAIN s[k] : i # j /\ s[k][i] = p /\ s[k][j] = p
            BY <2>3 DEF Twice
        <3>2. i # Len(blocks[k].txs) + 1 /\ j # Len(blocks[k].txs) + 1
            BY <1>2, <2>1, <3>1, SMTT(60)
        <3>3. i \in DOMAIN blocks[k].txs /\ j \in DOMAIN blocks[k].txs
            BY <1>2, <3>2, SMTT(60)
        <3>4. QED
            BY <1>2, <3>1, <3>3
    <2>4. \/ \E k \in DOMAIN blocks : Twice(s, k, p)
          \/ \E k, l \in DOMAIN blocks : k < l /\ Comes(s, k, p) /\ Comes(s, l, p)
        BY <1>1, <1>3, <1>5, <1>8 DEF Flat
    <2>5. QED
        BY <2>2, <2>3, <2>4 DEF PaysTwice
<1>9. QED
    BY <1>4, <1>5, <1>7, <1>8 DEF f

LEMMA CarriesConcat ==
    ASSUME NEW a \in Seq(BlockType), NEW b \in Seq(BlockType), NEW e
    PROVE  Carries(a \o b, e) <=> Carries(a, e) \/ Carries(b, e)
<1> DEFINE c == a \o b
           Here(x) == e = x.n \/ \E j \in DOMAIN x.txs : e = x.txs[j]
<1>1. /\ Len(a) \in Nat /\ Len(b) \in Nat
      /\ DOMAIN a = 1 .. Len(a) /\ DOMAIN b = 1 .. Len(b) /\ DOMAIN c = 1 .. Len(a) + Len(b)
      /\ \A i \in 1 .. Len(a) + Len(b) : c[i] = IF i <= Len(a) THEN a[i] ELSE b[i - Len(a)]
    <2>1. c \in Seq(BlockType) /\ Len(c) = Len(a) + Len(b)
        BY ConcatProperties
    <2>2. \A i \in 1 .. Len(a) + Len(b) : c[i] = IF i <= Len(a) THEN a[i] ELSE b[i - Len(a)]
        BY ConcatProperties
    <2> HIDE DEF c
    <2>3. QED
        BY <2>1, <2>2
<1> HIDE DEF c
<1>2. \A s : Carries(s, e) <=> \E i \in DOMAIN s : Here(s[i])
    BY DEF Carries
<1> HIDE DEF Here
<1>3. ASSUME NEW i \in DOMAIN c
      PROVE  (i \in DOMAIN a /\ c[i] = a[i]) \/ (i - Len(a) \in DOMAIN b /\ c[i] = b[i - Len(a)])
    BY <1>1
<1>4. \A i \in DOMAIN a : i \in DOMAIN c /\ c[i] = a[i]
    BY <1>1
<1>5. ASSUME NEW i \in DOMAIN b
      PROVE  i + Len(a) \in DOMAIN c /\ c[i + Len(a)] = b[i]
    <2>1. i + Len(a) \in DOMAIN c /\ ~ (i + Len(a) <= Len(a)) /\ (i + Len(a)) - Len(a) = i
        BY <1>1
    <2>2. QED
        BY <1>1, <2>1
<1>6. (\E i \in DOMAIN c : Here(c[i])) <=> (\E i \in DOMAIN a : Here(a[i])) \/ (\E i \in DOMAIN b : Here(b[i]))
    BY <1>3, <1>4, <1>5
<1>7. QED
    BY <1>2, <1>6 DEF c

\* A chain cut in two has what both parts have.
LEMMA CarriesParts ==
    ASSUME NEW s \in Seq(BlockType), NEW k \in 1 .. Len(s) + 1, NEW e
    PROVE  Carries(s, e) <=> Carries(SubSeq(s, 1, k - 1), e) \/ Carries(SubSeq(s, k, Len(s)), e)
<1> DEFINE a == SubSeq(s, 1, k - 1)
           b == SubSeq(s, k, Len(s))
<1>1. a \in Seq(BlockType) /\ Len(a) = k - 1 /\ \A i \in 1 .. k - 1 : a[i] = s[i]
    BY Parts
<1>2. /\ b \in Seq(BlockType) /\ Len(b) = Len(s) - k + 1
      /\ \A i \in 1 .. Len(s) - k + 1 : b[i] = s[k + i - 1]
    BY Parts
<1> HIDE DEF a, b
<1>0. Len(s) \in Nat /\ k \in Int /\ 1 <= k /\ k <= Len(s) + 1
    OBVIOUS
<1>3. DOMAIN s = 1 .. Len(s) /\ DOMAIN a = 1 .. k - 1 /\ DOMAIN b = 1 .. Len(s) - k + 1
    BY <1>1, <1>2
<1>4. ASSUME NEW i \in DOMAIN s
      PROVE  (i \in DOMAIN a /\ a[i] = s[i]) \/ (i - k + 1 \in DOMAIN b /\ b[i - k + 1] = s[i])
    <2>1. CASE i < k
        BY <1>1, <1>3, <2>1
    <2>2. CASE ~ (i < k)
        <3>0. i \in Int /\ i <= Len(s) /\ k <= i
            BY <1>0, <1>3, <2>2
        <3>1. i - k + 1 \in 1 .. Len(s) - k + 1 /\ k + (i - k + 1) - 1 = i
            BY <1>0, <3>0
        <3>2. QED
            BY <1>2, <1>3, <3>1
    <2>3. QED
        BY <2>1, <2>2
<1>5. \A i \in DOMAIN a : i \in DOMAIN s /\ a[i] = s[i]
    BY <1>1, <1>3
<1>6. \A i \in DOMAIN b : k + i - 1 \in DOMAIN s /\ b[i] = s[k + i - 1]
    BY <1>0, <1>2, <1>3
<1> DEFINE Here(x) == e = x.n \/ \E j \in DOMAIN x.txs : e = x.txs[j]
<1>7. \A c : Carries(c, e) <=> \E i \in DOMAIN c : Here(c[i])
    BY DEF Carries
<1> HIDE DEF Here
<1>8. (\E i \in DOMAIN s : Here(s[i])) <=> (\E i \in DOMAIN a : Here(a[i])) \/ (\E i \in DOMAIN b : Here(b[i]))
    BY <1>4, <1>5, <1>6
<1>9. QED
    BY <1>7, <1>8 DEF a, b

-----------------------------------------------------------------------------
(* What the steps do.                                                      *)

\* A block without transactions is in no fork that waits.
LEMMA NoForkCarriesNothing ==
    /\ \A e : ~ Carries(NoFork.blocks, e)
    /\ NoFork \in ForkType /\ NoFork.start = 0 /\ NoFork.blocks = <<>>
BY DEF NoFork, Carries, ForkType

\* handleBlock with a fork that fits, by t.
Verifies(t, f) ==
    /\ Verified(t, f)
    /\ f \in ForkType /\ f.start \in 1 .. Len(main) + 1
    /\ t = "miner" => cursor = 0
    /\ found' \in Nat
    /\ UNCHANGED <<mempool, main, arrived, hand, adds, dels, minerVars, crossed, torn>>

\* Where the blocks of a new fork come from.
NewBlocks(f) ==
    \A i \in DOMAIN f.blocks : \/ IsInjective(f.blocks[i].txs)
                               \/ f.blocks[i].txs = trans
                               \/ \E j \in DOMAIN base : f.blocks[i] = base[j]

LEMMA PeerVerifies ==
    ASSUME TypeInv, NEW start \in 2 .. MaxBlocks + 1, NEW rows \in UNION {[1 .. k -> PeerTxs] : k \in 1 .. 2},
           HandleReceivedBlock(start, rows)
    PROVE  \E f : Verifies("net", f) /\ NewBlocks(f)
<1> DEFINE blocks == [i \in DOMAIN rows |-> Block(found + i, rows[i])]
           f == [start |-> start, blocks |-> blocks]
<1>1. PICK k \in 1 .. 2 : rows \in [1 .. k -> PeerTxs]
    OBVIOUS
<1>2. \A s \in PeerTxs : s \in Seq(Payments) /\ IsInjective(s)
    BY DEF PeerTxs
<1>3. found \in Nat /\ main \in Seq(BlockType)
    BY DEF TypeInv
<1>4. ASSUME NEW i \in 1 .. k
      PROVE  blocks[i] \in BlockType /\ IsInjective(blocks[i].txs)
    <2>1. blocks[i] = Block(found + i, rows[i]) /\ rows[i] \in PeerTxs /\ found + i \in Nat
        BY <1>1, <1>3
    <2>2. Block(found + i, rows[i]) \in BlockType /\ Block(found + i, rows[i]).txs = rows[i]
        BY <1>2, <2>1 DEF Block, BlockType
    <2>3. QED
        BY <1>2, <2>1, <2>2
<1>5. blocks \in [1 .. k -> BlockType]
    BY <1>1, <1>4
<1>6. blocks \in Seq(BlockType) /\ DOMAIN blocks = 1 .. k
    <2> HIDE DEF blocks
    <2>1. QED
        BY <1>5
<1>7. Verified("net", f) /\ UNCHANGED <<mempool, main, arrived, hand, adds, dels, minerVars, crossed, torn>>
    BY DEF HandleReceivedBlock
<1> HIDE DEF blocks
<1>8. f \in ForkType /\ f.start = start /\ f.blocks = blocks
    BY <1>6, MempoolAssumption DEF ForkType
<1>9. start \in 1 .. Len(main) + 1
    BY <1>3, MempoolAssumption DEF HandleReceivedBlock
<1>10. found' \in Nat
    <2>1. Len(rows) \in Nat
        BY <1>1
    <2>2. found' = found + Len(rows)
        BY DEF HandleReceivedBlock
    <2>3. QED
        BY <1>3, <2>1, <2>2
<1>11. NewBlocks(f)
    BY <1>4, <1>6, <1>8 DEF NewBlocks
<1>12. QED
    BY <1>7, <1>8, <1>9, <1>10, <1>11 DEF Verifies

LEMMA MinerVerifies ==
    ASSUME TypeInv, MinerHandlesBlock
    PROVE  \E f : Verifies("miner", f) /\ NewBlocks(f)
<1> DEFINE end == Len(base)
           new == Block(found + 1, trans)
           one == [start |-> end + 1, blocks |-> <<new>>]
           two == [start |-> end, blocks |-> <<base[end], new>>]
<1>1. /\ found \in Nat /\ main \in Seq(BlockType) /\ base \in Seq(BlockType) /\ trans \in Seq(Payments)
      /\ base # <<>> /\ cursor = 0 /\ found' = found + 1
      /\ UNCHANGED <<mempool, main, arrived, hand, adds, dels, minerVars, crossed, torn>>
    BY DEF TypeInv, MinerHandlesBlock
<1>2. new \in BlockType /\ new.txs = trans /\ found' \in Nat
    BY <1>1 DEF Block, BlockType
<1>3. end \in Nat /\ end >= 1 /\ end \in DOMAIN base /\ base[end] \in BlockType /\ Len(main) \in Nat
      /\ DOMAIN main = 1 .. Len(main)
    BY <1>1
<1> HIDE DEF new
<1>4. CASE end <= Len(main) /\ main[end] = base[end]
    <2>1. Verified("miner", one)
        BY <1>4 DEF MinerHandlesBlock, new
    <2>2. one \in ForkType /\ one.start \in 1 .. Len(main) + 1
        BY <1>2, <1>3, <1>4 DEF ForkType
    <2>3. NewBlocks(one)
        <3>1. one.blocks = <<new>> /\ DOMAIN <<new>> = {1}
            OBVIOUS
        <3>2. \A i \in DOMAIN one.blocks : one.blocks[i].txs = trans
            BY <1>2, <3>1
        <3>3. QED
            BY <3>2 DEF NewBlocks
    <2>4. QED
        BY <1>1, <1>2, <2>1, <2>2, <2>3 DEF Verifies
<1>5. CASE ~ (end <= Len(main) /\ main[end] = base[end])
    <2>1. Verified("miner", two) /\ end - 1 \in DOMAIN main
        BY <1>5 DEF MinerHandlesBlock, new
    <2>2. two \in ForkType /\ two.start \in 1 .. Len(main) + 1
        BY <1>2, <1>3, <2>1 DEF ForkType
    <2>3. NewBlocks(two)
        <3>1. two.blocks = <<base[end], new>>
            OBVIOUS
        <3>2. \A i \in DOMAIN two.blocks : two.blocks[i] = base[end] \/ two.blocks[i] = new
            BY <3>1, SMTT(60)
        <3> HIDE DEF two
        <3>3. QED
            BY <1>2, <1>3, <3>2 DEF NewBlocks
    <2>4. QED
        BY <1>1, <1>2, <2>1, <2>2, <2>3 DEF Verifies
<1>6. QED
    BY <1>4, <1>5

\* applyFork writes the fork over what it displaces and leaves the rest.
LEMMA ApplyEffect ==
    ASSUME TypeInv, CallInv, NEW t \in Threads, ApplyFork(t)
    PROVE  \E low, rows, rest \in Seq(BlockType) :
            /\ low = Below(fork[t].start) /\ rows = fork[t].blocks
            /\ rest = From(fork[t].start + Len(rows))
            /\ main' = (low \o rows) \o rest /\ main' \in Seq(BlockType) /\ Len(main') >= Len(main)
            /\ torn' = (torn \/ t \in raced \/ rest # <<>>)
            /\ \A e : Carries(rows, e) => Carries(main', e)
            /\ \A e : Carries(main, e) => Carries(main', e) \/ Carries(From(fork[t].start), e)
<1> DEFINE start == fork[t].start
           rows  == fork[t].blocks
           low   == Below(start)
           rest  == From(start + Len(rows))
<1>1. /\ InHandleBlock(t) /\ start \in 1 .. Len(main) + 1
      /\ main \in Seq(BlockType) /\ rows \in Seq(BlockType) /\ Len(main) \in Nat /\ Len(rows) \in Nat
    BY DEF ApplyFork, TypeInv, CallInv, OwnCall, ForkType
<1>2. /\ low \in Seq(BlockType) /\ Len(low) = start - 1
      /\ From(start) \in Seq(BlockType)
      /\ \A e : Carries(main, e) <=> Carries(low, e) \/ Carries(From(start), e)
    BY <1>1, Parts, CarriesParts DEF Below, From
<1>3. rest \in Seq(BlockType) /\ Len(main) <= start - 1 + Len(rows) + Len(rest)
    <2>1. CASE start + Len(rows) <= Len(main) + 1
        <3>1. start + Len(rows) \in 1 .. Len(main) + 1
            BY <1>1, <2>1
        <3>2. rest \in Seq(BlockType) /\ Len(rest) = Len(main) - (start + Len(rows)) + 1
            BY <1>1, <3>1, Parts DEF From
        <3> HIDE DEF rest, rows, start
        <3>3. QED
            BY <1>1, <3>2
    <2>2. CASE ~ (start + Len(rows) <= Len(main) + 1)
        <3>1. start + Len(rows) \in Int /\ Len(main) < start + Len(rows)
            BY <1>1, <2>2
        <3>2. rest = <<>>
            BY <1>1, <3>1, SubSeqEmpty DEF From
        <3> HIDE DEF rest, rows, start
        <3>3. Len(rest) = 0 /\ rest \in Seq(BlockType)
            BY <3>2
        <3>4. QED
            BY <1>1, <2>2, <3>3
    <2>3. QED
        BY <2>1, <2>2
<1>4. main' = (low \o rows) \o rest /\ torn' = (torn \/ t \in raced \/ rest # <<>>)
    BY DEF ApplyFork
<1> HIDE DEF rest, rows, start, low
<1>5. low \o rows \in Seq(BlockType) /\ Len(low \o rows) = Len(low) + Len(rows)
    BY <1>1, <1>2, ConcatProperties
<1>6. (low \o rows) \o rest \in Seq(BlockType)
      /\ Len((low \o rows) \o rest) = Len(low) + Len(rows) + Len(rest)
    BY <1>3, <1>5, ConcatProperties
<1>7. Len(main') >= Len(main)
    <2>1. start \in Int /\ Len(rest) \in Nat
        BY <1>1, <1>3
    <2>2. QED
        BY <1>1, <1>2, <1>3, <1>4, <1>6, <2>1
<1>8. \A e : Carries(main', e) <=> (Carries(low, e) \/ Carries(rows, e)) \/ Carries(rest, e)
    BY <1>1, <1>2, <1>3, <1>4, <1>5, CarriesConcat
<1>9. QED
    BY <1>1, <1>2, <1>3, <1>4, <1>6, <1>7, <1>8 DEF rest, rows, start, low

-----------------------------------------------------------------------------
(* Types, and what the threads hold.                                       *)

LEMMA InitLost == Init => LostInv
<1> SUFFICES ASSUME Init PROVE LostInv
    OBVIOUS
<1>1. Genesis \in BlockType
    BY DEF Genesis, Block, BlockType
<1>2. main \in Seq(BlockType) /\ mempool \in Seq(Entries) /\ base \in Seq(BlockType) /\ trans \in Seq(Payments)
    BY <1>1 DEF Init
<1>3. TypeInv
    BY <1>2, NoForkCarriesNothing DEF Init, TypeInv
<1>4. CallInv /\ Restored
    BY DEF Init, CallInv, OwnCall, Restored, Due, InHandleBlock
<1>5. QED
    BY <1>3, <1>4 DEF LostInv

\* Who looks for a transaction finds it, or holds it from then on.
LEMMA LookEffect ==
    ASSUME TypeInv, NEW t \in Threads, NEW e \in Entries, NEW back \in {"idle", "putback"}, Look(t, e, back)
    PROVE  /\ cursor = 0 /\ mempool' = mempool
           /\ pc' \in [Threads -> {"idle", "push", "update", "putback"}]
           /\ hand' \in [Threads -> Entries \cup {Nobody}]
           /\ \A u \in Threads \ {t} : pc'[u] = pc[u] /\ hand'[u] = hand[u]
           /\ \/ e \in ToSet(mempool) /\ pc'[t] = back /\ hand'[t] = hand[t] /\ crossed' = crossed
              \/ /\ e \notin ToSet(mempool) /\ pc'[t] = "push" /\ hand'[t] = e
                 /\ crossed' = IF hand[Other(t)] = e THEN crossed \cup {e} ELSE crossed
<1>1. pc \in [Threads -> {"idle", "push", "update", "putback"}] /\ hand \in [Threads -> Entries \cup {Nobody}]
    BY DEF TypeInv
<1>2. cursor = 0 /\ mempool' = mempool
    BY DEF Look, MutexFree
<1>3. CASE /\ e \in ToSet(mempool) /\ pc' = [pc EXCEPT ![t] = back]
           /\ UNCHANGED <<hand, crossed>>
    BY <1>1, <1>2, <1>3
<1>4. CASE /\ e \notin ToSet(mempool) /\ pc' = [pc EXCEPT ![t] = "push"]
           /\ hand' = [hand EXCEPT ![t] = e]
           /\ crossed' = IF hand[Other(t)] = e THEN crossed \cup {e} ELSE crossed
    BY <1>1, <1>2, <1>4
<1>5. QED
    BY <1>3, <1>4 DEF Look

LEMMA Numbers ==
    /\ Nobody \notin Entries
    /\ Payments \subseteq Entries
    /\ \A p \in Payments : p \notin Nat
BY MempoolAssumption DEF Nobody, Entries

LEMMA CallsByThread ==
    /\ CallInv <=> (\A t \in Threads : OwnCall(t)) /\ (cursor # 0 => pc["miner"] = "idle")
    /\ CallInv' <=> (\A t \in Threads : OwnCall(t)') /\ (cursor' # 0 => pc'["miner"] = "idle")
BY DEF CallInv

\* A thread whose locals stay keeps what it holds, as the chain never shrinks.
LEMMA OtherCall ==
    ASSUME NEW t \in Threads, OwnCall(t), Len(main) \in Nat, Len(main') \in Nat, Len(main') >= Len(main),
           pc'[t] = pc[t], hand'[t] = hand[t], fork'[t] = fork[t], adds'[t] = adds[t], dels'[t] = dels[t]
    PROVE  OwnCall(t)'
BY DEF OwnCall, InHandleBlock

LEMMA ReceiveKeeps ==
    ASSUME TypeInv, CallInv, NEW p \in Payments, Receive(p)
    PROVE  TypeInv' /\ CallInv'
<1>1. /\ pc["net"] = "idle" /\ Look("net", p, "idle") /\ "net" \in Threads /\ p \in Entries
      /\ UNCHANGED <<main, found, fork, adds, dels, minerVars, raced, torn>>
    BY Numbers DEF Receive, Threads
<1>2. /\ cursor = 0 /\ mempool' = mempool
      /\ pc' \in [Threads -> {"idle", "push", "update", "putback"}]
      /\ hand' \in [Threads -> Entries \cup {Nobody}]
      /\ \A u \in Threads \ {"net"} : pc'[u] = pc[u] /\ hand'[u] = hand[u]
      /\ \/ pc'["net"] = "idle" /\ hand'["net"] = hand["net"]
         \/ pc'["net"] = "push" /\ hand'["net"] = p
    BY <1>1, LookEffect
<1>3. TypeInv'
    BY <1>1, <1>2 DEF TypeInv, minerVars
<1>4. OwnCall("net")'
    <2>1. OwnCall("net")
        BY <1>1, CallsByThread
    <2>2. QED
        BY <1>1, <1>2, <2>1, Numbers DEF OwnCall, InHandleBlock
<1>5. \A u \in Threads \ {"net"} : OwnCall(u)'
    BY <1>1, <1>2, CallsByThread, OtherCall DEF TypeInv
<1>6. QED
    BY <1>1, <1>2, <1>3, <1>4, <1>5, CallsByThread DEF minerVars

LEMMA VerifyKeeps ==
    ASSUME TypeInv, CallInv, NEW t \in Threads, NEW f, Verifies(t, f)
    PROVE  TypeInv' /\ CallInv'
<1>1. /\ pc[t] = "idle" /\ fork' = [fork EXCEPT ![t] = f] /\ pc' = [pc EXCEPT ![t] = "update"]
      /\ raced' = raced \ {t} /\ f \in ForkType /\ f.start \in 1 .. Len(main) + 1
      /\ (t = "miner" => cursor = 0) /\ found' \in Nat
      /\ UNCHANGED <<mempool, main, arrived, hand, adds, dels, minerVars, crossed, torn>>
    BY DEF Verifies, Verified
<1>2. TypeInv'
    BY <1>1 DEF TypeInv, minerVars
<1>3. pc'[t] = "update" /\ fork'[t] = f /\ \A u \in Threads \ {t} : pc'[u] = pc[u] /\ fork'[u] = fork[u]
    BY <1>1 DEF TypeInv
<1>4. OwnCall(t)'
    <2>1. OwnCall(t) /\ Len(main) \in Nat
        BY CallsByThread DEF TypeInv
    <2>2. f # NoFork
        BY <1>1, <2>1, NoForkCarriesNothing
    <2>3. hand'[t] = Nobody /\ adds'[t] = <<>> /\ dels'[t] = <<>>
        BY <1>1, <2>1 DEF OwnCall
    <2>4. QED
        BY <1>1, <1>3, <2>2, <2>3 DEF OwnCall, InHandleBlock
<1>5. \A u \in Threads \ {t} : OwnCall(u)'
    BY <1>1, <1>3, CallsByThread, OtherCall DEF TypeInv
<1>6. QED
    BY <1>1, <1>2, <1>3, <1>4, <1>5, CallsByThread DEF minerVars

LEMMA PushKeeps ==
    ASSUME TypeInv, CallInv, NEW t \in Threads, Push(t)
    PROVE  TypeInv' /\ CallInv'
<1>1. /\ pc[t] = "push" /\ cursor = 0 /\ mempool' = Append(mempool, hand[t])
      /\ hand' = [hand EXCEPT ![t] = Nobody]
      /\ pc' = [pc EXCEPT ![t] = IF fork[t] = NoFork THEN "idle" ELSE "putback"]
      /\ UNCHANGED <<main, found, arrived, fork, adds, dels, minerVars, history>>
    BY DEF Push, MutexFree
<1>2. OwnCall(t)
    BY CallsByThread
<1>3. hand[t] \in Entries
    BY <1>1, <1>2 DEF OwnCall, TypeInv
<1>4. mempool' \in Seq(Entries)
    BY <1>1, <1>3 DEF TypeInv
<1>5. TypeInv'
    BY <1>1, <1>4 DEF TypeInv, minerVars, history
<1>6. /\ hand'[t] = Nobody /\ pc'[t] = IF fork[t] = NoFork THEN "idle" ELSE "putback"
      /\ \A u \in Threads \ {t} : pc'[u] = pc[u] /\ hand'[u] = hand[u]
    BY <1>1 DEF TypeInv
<1>7. OwnCall(t)'
    BY <1>1, <1>2, <1>6 DEF OwnCall, InHandleBlock
<1>8. \A u \in Threads \ {t} : OwnCall(u)'
    BY <1>1, <1>6, CallsByThread, OtherCall DEF TypeInv
<1>9. QED
    BY <1>1, <1>5, <1>7, <1>8, CallsByThread DEF minerVars

\* What mempoolUpdate has to do, once it has read it.
LEMMA ReadEffect ==
    ASSUME TypeInv, CallInv, NEW t \in Threads, ReadTransactions(t)
    PROVE  /\ InHandleBlock(t) /\ pc[t] = "update" /\ hand[t] = Nobody /\ pc' = [pc EXCEPT ![t] = "putback"]
           /\ adds' \in [Threads -> Seq(Entries)] /\ dels' \in [Threads -> Seq(Entries)]
           /\ \A u \in Threads \ {t} : adds'[u] = adds[u] /\ dels'[u] = dels[u] /\ pc'[u] = pc[u]
           /\ \A e : e \in ToSet(adds'[t]) <=> Carries(From(fork[t].start), e)
           /\ \A j \in DOMAIN dels'[t] : Carries(fork[t].blocks, dels'[t][j])
           /\ UNCHANGED <<poolVars, hand, fork, minerVars, history>>
<1>1. /\ pc[t] = "update" /\ OwnCall(t) /\ InHandleBlock(t) /\ hand[t] = Nobody
      /\ main \in Seq(BlockType) /\ fork[t].start \in 1 .. Len(main) + 1 /\ fork[t].blocks \in Seq(BlockType)
    BY CallsByThread DEF ReadTransactions, OwnCall, TypeInv, ForkType
<1>2. From(fork[t].start) \in Seq(BlockType)
    BY <1>1, Parts DEF From
<1> DEFINE a == TxsOf(From(fork[t].start))
           d == TxsOf(fork[t].blocks)
<1>3. a \in Seq(Entries) /\ \A e : e \in ToSet(a) <=> Carries(From(fork[t].start), e)
    BY <1>2, TxsOfBlocks
<1>4. d \in Seq(Entries) /\ \A e : e \in ToSet(d) <=> Carries(fork[t].blocks, e)
    BY <1>1, TxsOfBlocks
<1>5. \A j \in DOMAIN d : Carries(fork[t].blocks, d[j])
    <2> HIDE DEF d
    <2>1. \A j \in DOMAIN d : d[j] \in ToSet(d)
        BY DEF ToSet
    <2>2. QED
        BY <1>4, <2>1
<1>6. /\ adds' = [adds EXCEPT ![t] = a] /\ dels' = [dels EXCEPT ![t] = d]
      /\ pc' = [pc EXCEPT ![t] = "putback"]
      /\ UNCHANGED <<poolVars, hand, fork, minerVars, history>>
    BY DEF ReadTransactions
<1> HIDE DEF a, d
<1>7. /\ adds \in [Threads -> Seq(Entries)] /\ dels \in [Threads -> Seq(Entries)]
      /\ pc \in [Threads -> {"idle", "push", "update", "putback"}]
    BY DEF TypeInv
<1>8. adds'[t] = a /\ dels'[t] = d
    BY <1>6, <1>7
<1>9. adds' \in [Threads -> Seq(Entries)] /\ dels' \in [Threads -> Seq(Entries)]
    BY <1>3, <1>4, <1>6, <1>7
<1>10. \A u \in Threads \ {t} : adds'[u] = adds[u] /\ dels'[u] = dels[u] /\ pc'[u] = pc[u]
    BY <1>6, <1>7
<1>11. QED
    BY <1>1, <1>3, <1>5, <1>6, <1>8, <1>9, <1>10

LEMMA ReadKeeps ==
    ASSUME TypeInv, CallInv, NEW t \in Threads, ReadTransactions(t)
    PROVE  TypeInv' /\ CallInv'
<1>1. /\ InHandleBlock(t) /\ pc[t] = "update" /\ hand[t] = Nobody /\ pc' = [pc EXCEPT ![t] = "putback"]
      /\ adds' \in [Threads -> Seq(Entries)] /\ dels' \in [Threads -> Seq(Entries)]
      /\ \A u \in Threads \ {t} : adds'[u] = adds[u] /\ dels'[u] = dels[u] /\ pc'[u] = pc[u]
      /\ \A j \in DOMAIN dels'[t] : Carries(fork[t].blocks, dels'[t][j])
      /\ UNCHANGED <<poolVars, hand, fork, minerVars, history>>
    BY ReadEffect
<1>2. TypeInv'
    BY <1>1 DEF TypeInv, poolVars, minerVars, history
<1>3. pc'[t] = "putback" /\ main' = main /\ hand' = hand /\ fork' = fork /\ cursor' = cursor
    BY <1>1 DEF TypeInv, poolVars, minerVars
<1>4. OwnCall(t) /\ OwnCall(t)'
    <2>1. OwnCall(t)
        BY CallsByThread
    <2>2. QED
        BY <1>1, <1>3, <2>1 DEF OwnCall, InHandleBlock
<1>5. \A u \in Threads \ {t} : OwnCall(u)'
    BY <1>1, <1>3, CallsByThread, OtherCall DEF TypeInv
<1>6. cursor' # 0 => pc'["miner"] = "idle"
    BY <1>1, <1>3, CallsByThread DEF Threads
<1>7. QED
    BY <1>2, <1>4, <1>5, <1>6, CallsByThread

\* The next displaced transaction: it is in the mempool, or the thread holds
\* it.
LEMMA PutBackEffect ==
    ASSUME TypeInv, CallInv, NEW t \in Threads, PutBack(t)
    PROVE  /\ pc[t] = "putback" /\ InHandleBlock(t) /\ hand[t] = Nobody /\ adds[t] # <<>>
           /\ Head(adds[t]) \in Entries /\ cursor = 0 /\ mempool' = mempool
           /\ Look(t, Head(adds[t]), "putback")
           /\ pc' \in [Threads -> {"idle", "push", "update", "putback"}]
           /\ hand' \in [Threads -> Entries \cup {Nobody}]
           /\ adds' \in [Threads -> Seq(Entries)]
           /\ \A u \in Threads \ {t} : pc'[u] = pc[u] /\ hand'[u] = hand[u] /\ adds'[u] = adds[u]
           /\ \A e : e \in ToSet(adds[t]) => e = Head(adds[t]) \/ e \in ToSet(adds'[t])
           /\ \/ Head(adds[t]) \in ToSet(mempool) /\ pc'[t] = "putback" /\ hand'[t] = Nobody
              \/ pc'[t] = "push" /\ hand'[t] = Head(adds[t])
           /\ UNCHANGED <<main, found, arrived, fork, dels, minerVars, raced, torn>>
<1>1. /\ pc[t] = "putback" /\ adds[t] # <<>> /\ Look(t, Head(adds[t]), "putback")
      /\ adds' = [adds EXCEPT ![t] = Tail(adds[t])] /\ adds \in [Threads -> Seq(Entries)]
      /\ UNCHANGED <<main, found, arrived, fork, dels, minerVars, raced, torn>>
    BY DEF PutBack, TypeInv
<1> DEFINE s == adds[t]
<1>2. s \in Seq(Entries) /\ s # <<>>
    BY <1>1
<1>3. adds'[t] = Tail(s) /\ \A u \in Threads \ {t} : adds'[u] = adds[u]
    BY <1>1
<1> HIDE DEF s
<1>4. Head(s) \in Entries /\ Tail(s) \in Seq(Entries) /\ Len(s) \in Nat
      /\ DOMAIN s = 1 .. Len(s) /\ Head(s) = s[1] /\ DOMAIN Tail(s) = 1 .. Len(s) - 1
      /\ \A i \in 1 .. Len(s) - 1 : Tail(s)[i] = s[i + 1]
    BY <1>2
<1>5. ASSUME NEW e \in ToSet(s), e # Head(s) PROVE e \in ToSet(Tail(s))
    <2>1. PICK i \in DOMAIN s : s[i] = e
        BY DEF ToSet
    <2>2. i - 1 \in 1 .. Len(s) - 1 /\ (i - 1) + 1 = i
        BY <1>4, <1>5, <2>1
    <2>3. Tail(s)[i - 1] = e
        BY <1>4, <2>1, <2>2
    <2>4. QED
        BY <1>4, <2>2, <2>3 DEF ToSet
<1>6. adds' \in [Threads -> Seq(Entries)]
    BY <1>1, <1>4 DEF s
<1>7. OwnCall(t) /\ InHandleBlock(t) /\ hand[t] = Nobody
    BY <1>1, CallsByThread DEF OwnCall
<1>8. /\ cursor = 0 /\ mempool' = mempool
      /\ pc' \in [Threads -> {"idle", "push", "update", "putback"}]
      /\ hand' \in [Threads -> Entries \cup {Nobody}]
      /\ \A u \in Threads \ {t} : pc'[u] = pc[u] /\ hand'[u] = hand[u]
      /\ \/ Head(s) \in ToSet(mempool) /\ pc'[t] = "putback" /\ hand'[t] = hand[t]
         \/ pc'[t] = "push" /\ hand'[t] = Head(s)
    BY <1>1, <1>4, LookEffect DEF s
<1>9. QED
    BY <1>1, <1>3, <1>4, <1>5, <1>6, <1>7, <1>8 DEF s

LEMMA PutBackKeeps ==
    ASSUME TypeInv, CallInv, NEW t \in Threads, PutBack(t)
    PROVE  TypeInv' /\ CallInv'
<1>1. /\ pc[t] = "putback" /\ InHandleBlock(t) /\ cursor = 0 /\ mempool' = mempool
      /\ pc' \in [Threads -> {"idle", "push", "update", "putback"}]
      /\ hand' \in [Threads -> Entries \cup {Nobody}]
      /\ adds' \in [Threads -> Seq(Entries)]
      /\ \A u \in Threads \ {t} : pc'[u] = pc[u] /\ hand'[u] = hand[u] /\ adds'[u] = adds[u]
      /\ pc'[t] = "push" \/ pc'[t] = "putback"
      /\ pc'[t] = "push" <=> hand'[t] # Nobody
      /\ UNCHANGED <<main, found, arrived, fork, dels, minerVars, raced, torn>>
    BY PutBackEffect, Numbers
<1>2. TypeInv'
    BY <1>1 DEF TypeInv, minerVars
<1>3. OwnCall(t)'
    <2>1. OwnCall(t)
        BY CallsByThread
    <2>2. QED
        BY <1>1, <2>1 DEF OwnCall, InHandleBlock
<1>4. \A u \in Threads \ {t} : OwnCall(u)'
    BY <1>1, CallsByThread, OtherCall DEF TypeInv
<1>5. QED
    BY <1>1, <1>2, <1>3, <1>4, CallsByThread DEF minerVars

\* A transaction of the fork leaves the mempool, if it is there.
LEMMA DeleteEffect ==
    ASSUME TypeInv, CallInv, NEW t \in Threads, Delete(t)
    PROVE  /\ pc[t] = "putback" /\ InHandleBlock(t) /\ cursor = 0 /\ dels[t] # <<>>
           /\ mempool' \in Seq(Entries) /\ dels' \in [Threads -> Seq(Entries)]
           /\ \/ mempool' = mempool
              \/ \E k \in DOMAIN mempool : mempool' = RemoveAt(mempool, k) /\ Carries(fork[t].blocks, mempool[k])
           /\ \A u \in Threads \ {t} : dels'[u] = dels[u]
           /\ \A j \in DOMAIN dels'[t] : Carries(fork[t].blocks, dels'[t][j])
           /\ UNCHANGED <<main, found, arrived, pc, hand, fork, adds, minerVars, history>>
<1>1. /\ pc[t] = "putback" /\ dels[t] # <<>> /\ cursor = 0
      /\ mempool' = Without(mempool, Head(dels[t]))
      /\ dels' = [dels EXCEPT ![t] = Tail(dels[t])]
      /\ dels \in [Threads -> Seq(Entries)] /\ mempool \in Seq(Entries)
      /\ UNCHANGED <<main, found, arrived, pc, hand, fork, adds, minerVars, history>>
    BY DEF Delete, MutexFree, TypeInv
<1>2. OwnCall(t) /\ InHandleBlock(t)
    BY <1>1, CallsByThread DEF OwnCall
<1> DEFINE s == dels[t]
<1>3. s \in Seq(Entries) /\ s # <<>> /\ \A j \in DOMAIN s : Carries(fork[t].blocks, s[j])
    BY <1>1, <1>2 DEF OwnCall
<1>4. dels'[t] = Tail(s) /\ \A u \in Threads \ {t} : dels'[u] = dels[u]
    BY <1>1
<1> HIDE DEF s
<1>5. /\ Head(s) = s[1] /\ Tail(s) \in Seq(Entries) /\ 1 \in DOMAIN s
      /\ \A j \in DOMAIN Tail(s) : j + 1 \in DOMAIN s /\ Tail(s)[j] = s[j + 1]
    BY <1>3
<1>6. dels' \in [Threads -> Seq(Entries)]
    BY <1>1, <1>5 DEF s
<1>7. \/ mempool' = mempool
      \/ \E k \in DOMAIN mempool : mempool[k] = Head(s) /\ mempool' = RemoveAt(mempool, k)
    BY <1>1, WithoutOne DEF s
<1>8. mempool' \in Seq(Entries)
    BY <1>1, <1>7, Removed
<1>9. Carries(fork[t].blocks, Head(s)) /\ \A j \in DOMAIN Tail(s) : Carries(fork[t].blocks, Tail(s)[j])
    BY <1>3, <1>5
<1>10. \/ mempool' = mempool
       \/ \E k \in DOMAIN mempool : mempool' = RemoveAt(mempool, k) /\ Carries(fork[t].blocks, mempool[k])
    BY <1>7, <1>9
<1>11. QED
    BY <1>1, <1>2, <1>4, <1>6, <1>8, <1>9, <1>10

LEMMA DeleteKeeps ==
    ASSUME TypeInv, CallInv, NEW t \in Threads, Delete(t)
    PROVE  TypeInv' /\ CallInv'
<1>1. /\ pc[t] = "putback" /\ InHandleBlock(t) /\ cursor = 0
      /\ mempool' \in Seq(Entries) /\ dels' \in [Threads -> Seq(Entries)]
      /\ \A u \in Threads \ {t} : dels'[u] = dels[u]
      /\ \A j \in DOMAIN dels'[t] : Carries(fork[t].blocks, dels'[t][j])
      /\ UNCHANGED <<main, found, arrived, pc, hand, fork, adds, minerVars, history>>
    BY DeleteEffect
<1>2. TypeInv'
    BY <1>1 DEF TypeInv, minerVars, history
<1>3. OwnCall(t)'
    <2>1. OwnCall(t)
        BY CallsByThread
    <2>2. QED
        BY <1>1, <2>1 DEF OwnCall, InHandleBlock
<1>4. \A u \in Threads \ {t} : OwnCall(u)'
    BY <1>1, CallsByThread, OtherCall DEF TypeInv
<1>5. QED
    BY <1>1, <1>2, <1>3, <1>4, CallsByThread DEF minerVars

LEMMA ApplyKeeps ==
    ASSUME TypeInv, CallInv, NEW t \in Threads, ApplyFork(t)
    PROVE  TypeInv' /\ CallInv'
<1>1. /\ pc[t] = "putback" /\ adds[t] = <<>> /\ dels[t] = <<>>
      /\ pc' = [pc EXCEPT ![t] = "idle"] /\ fork' = [fork EXCEPT ![t] = NoFork]
      /\ raced' = {u \in {Other(t)} : InHandleBlock(u)}
      /\ UNCHANGED <<mempool, found, arrived, hand, adds, dels, minerVars, crossed>>
    BY DEF ApplyFork
<1>2. main' \in Seq(BlockType) /\ Len(main') >= Len(main) /\ torn' \in BOOLEAN
    BY ApplyEffect DEF TypeInv
<1>3. /\ pc'[t] = "idle" /\ fork'[t] = NoFork
      /\ \A u \in Threads \ {t} : pc'[u] = pc[u] /\ fork'[u] = fork[u]
      /\ pc' \in [Threads -> {"idle", "push", "update", "putback"}] /\ fork' \in [Threads -> ForkType]
    BY <1>1, NoForkCarriesNothing DEF TypeInv
<1>4. raced' \in SUBSET Threads
    <2>1. Other(t) \in Threads
        <3>1. \E u \in Threads : u # t
            BY DEF Threads
        <3>2. QED
            BY <3>1 DEF Other
    <2>2. QED
        BY <1>1, <2>1
<1>5. TypeInv'
    BY <1>1, <1>2, <1>3, <1>4 DEF TypeInv, minerVars
<1>6. OwnCall(t)'
    <2>1. OwnCall(t)
        BY CallsByThread
    <2>2. QED
        BY <1>1, <1>3, <2>1 DEF OwnCall, InHandleBlock
<1>7. ASSUME NEW u \in Threads \ {t} PROVE OwnCall(u)'
    <2>1. OwnCall(u) /\ Len(main) \in Nat /\ Len(main') \in Nat
        BY <1>2, CallsByThread DEF TypeInv
    <2>2. hand'[u] = hand[u] /\ adds'[u] = adds[u] /\ dels'[u] = dels[u]
        BY <1>1
    <2>3. QED
        BY <1>2, <1>3, <2>1, <2>2, OtherCall
<1>8. cursor' # 0 => pc'["miner"] = "idle"
    BY <1>1, <1>3, CallsByThread DEF minerVars, Threads
<1>9. QED
    BY <1>5, <1>6, <1>7, <1>8, CallsByThread

\* The miner's scan is outside every call.
LEMMA CallsStay ==
    ASSUME CallInv, UNCHANGED <<main, threadVars>>, cursor' # 0 => pc["miner"] = "idle"
    PROVE  CallInv'
<1>1. \A t \in Threads : OwnCall(t)'
    BY CallsByThread DEF OwnCall, InHandleBlock, threadVars
<1>2. QED
    BY <1>1, CallsByThread DEF threadVars

LEMMA BuildKeeps ==
    ASSUME TypeInv, CallInv, BuildNewBlock
    PROVE  TypeInv' /\ CallInv'
<1>1. /\ pc["miner"] = "idle" /\ base' = main /\ trans' = <<>> /\ cursor' = 1
      /\ UNCHANGED <<poolVars, threadVars, history>>
    BY DEF BuildNewBlock
<1>2. TypeInv'
    BY <1>1 DEF TypeInv, poolVars, threadVars, history
<1>3. QED
    BY <1>1, <1>2, CallsStay DEF poolVars

\* A round of putTxInBlock takes an entry or removes it.
LEMMA ScanEffect ==
    ASSUME TypeInv, CallInv, PutTxInBlock
    PROVE  /\ cursor \in DOMAIN mempool /\ cursor' = cursor + 1 /\ pc["miner"] = "idle"
           /\ UNCHANGED <<main, found, arrived, threadVars, base, crossed, torn>>
           /\ \/ /\ mempool[cursor] \in Payments /\ ~ Carries(main, mempool[cursor])
                 /\ trans' = Append(trans, mempool[cursor]) /\ mempool' = mempool /\ raced' = raced
              \/ /\ mempool[cursor] \notin Payments \/ Carries(main, mempool[cursor])
                 /\ trans' = trans /\ mempool' = RemoveAt(mempool, cursor)
                 /\ raced' = raced \cup {t \in {"net"} : mempool[cursor] \in Displaced(t)}
<1>1. Stored(mempool[cursor]) <=> Carries(main, mempool[cursor])
    BY TxsOfBlocks DEF Stored, TypeInv
<1>2. cursor \in DOMAIN mempool /\ cursor # 0
    BY DEF PutTxInBlock, TypeInv
<1>3. pc["miner"] = "idle"
    BY <1>2, CallsByThread
<1>4. QED
    BY <1>1, <1>2, <1>3 DEF PutTxInBlock

LEMMA ScanKeeps ==
    ASSUME TypeInv, CallInv, PutTxInBlock
    PROVE  TypeInv' /\ CallInv'
<1>1. /\ cursor' = cursor + 1 /\ pc["miner"] = "idle"
      /\ UNCHANGED <<main, found, arrived, threadVars, base, crossed, torn>>
    BY ScanEffect
<1>2. mempool' \in Seq(Entries) /\ trans' \in Seq(Payments)
    <2>1. mempool \in Seq(Entries) /\ trans \in Seq(Payments) /\ cursor \in DOMAIN mempool
        BY ScanEffect DEF TypeInv
    <2>2. RemoveAt(mempool, cursor) \in Seq(Entries)
        BY <2>1, Removed
    <2>3. mempool[cursor] \in Payments => Append(trans, mempool[cursor]) \in Seq(Payments)
        BY <2>1, AppendProperties
    <2>4. QED
        BY <2>1, <2>2, <2>3, ScanEffect
<1>3. raced' \in SUBSET Threads
    BY ScanEffect DEF TypeInv, Threads
<1>4. TypeInv'
    BY <1>1, <1>2, <1>3 DEF TypeInv, threadVars
<1>5. QED
    BY <1>1, <1>4, CallsStay

LEMMA EndKeeps ==
    ASSUME TypeInv, CallInv, PutTxInBlockEnds
    PROVE  TypeInv' /\ CallInv'
<1>1. cursor' = 0 /\ UNCHANGED <<poolVars, threadVars, base, trans, history>>
    BY DEF PutTxInBlockEnds
<1>2. TypeInv'
    BY <1>1 DEF TypeInv, poolVars, threadVars, history
<1>3. QED
    BY <1>1, <1>2, CallsStay DEF poolVars

\* Every step is one of these.
Acts ==
    \/ \E p \in Payments : Receive(p)
    \/ \E t \in Threads : \E f : Verifies(t, f) /\ NewBlocks(f)
    \/ \E t \in Threads : Step(t)
    \/ BuildNewBlock \/ PutTxInBlock \/ PutTxInBlockEnds

LEMMA NextActs == TypeInv /\ [Next]_vars => Acts \/ UNCHANGED vars
<1> SUFFICES ASSUME TypeInv, Next PROVE Acts
    OBVIOUS
<1>1. CASE \E start \in 2 .. MaxBlocks + 1, rows \in UNION {[1 .. k -> PeerTxs] : k \in 1 .. 2} :
               HandleReceivedBlock(start, rows)
    <2>1. \E f : Verifies("net", f) /\ NewBlocks(f)
        BY <1>1, PeerVerifies
    <2>2. QED
        BY <2>1 DEF Acts, Threads
<1>2. CASE MinerHandlesBlock
    <2>1. \E f : Verifies("miner", f) /\ NewBlocks(f)
        BY <1>2, MinerVerifies
    <2>2. QED
        BY <2>1 DEF Acts, Threads
<1>3. QED
    BY <1>1, <1>2 DEF Next, Scan, Acts

LEMMA CallNext == TypeInv /\ CallInv /\ [Next]_vars => TypeInv' /\ CallInv'
<1> SUFFICES ASSUME TypeInv, CallInv, Acts \/ UNCHANGED vars PROVE TypeInv' /\ CallInv'
    BY NextActs
<1>1. CASE \E t \in Threads : Step(t)
    BY <1>1, PushKeeps, ReadKeeps, PutBackKeeps, DeleteKeeps, ApplyKeeps DEF Step
<1>2. CASE UNCHANGED vars
    <2>1. TypeInv'
        BY <1>2 DEF TypeInv, vars, poolVars, threadVars, minerVars, history
    <2>2. QED
        BY <1>2, <2>1, CallsStay DEF CallInv, vars, poolVars, threadVars, minerVars
<1>3. QED
    BY <1>1, <1>2, ReceiveKeeps, VerifyKeeps, BuildKeeps, ScanKeeps, EndKeeps DEF Acts

-----------------------------------------------------------------------------
(* No payment is lost.                                                     *)

\* Where a payment is, for the whole node.
Around(p) ==
    \/ InMempool(p) \/ Carries(main, p)
    \/ \E t \in Threads : hand[t] = p \/ p \in ToSet(adds[t]) \/ Carries(fork[t].blocks, p)
RacedWrites == \E t \in raced : fork[t] # NoFork /\ fork'[t] = NoFork

\* A step that loses nothing, and leaves what is displaced in its place.
Keeps ==
    /\ Restored'
    /\ \A p \in Payments : Around(p) => Around(p)' \/ RacedWrites

LEMMA RestoredByThread ==
    /\ Restored <=> \A t \in Threads : Due(t) =>
            \A p \in Payments : Carries(From(fork[t].start), p) => Place(t, p)
    /\ Restored' <=> \A t \in Threads : Due(t)' =>
            \A p \in Payments : Carries(From(fork[t].start), p)' => Place(t, p)'
BY DEF Restored

Located == \A p : Present(p) <=> Around(p)

LEMMA PresentIsAround == (TypeInv => Located) /\ (TypeInv' => Located')
<1>1. TypeInv => Located
    <2>1. SUFFICES ASSUME TypeInv, NEW p PROVE Present(p) <=> Around(p)
        BY DEF Located
    <2>2. Stored(p) <=> Carries(main, p)
        BY <2>1, TxsOfBlocks DEF Stored, TypeInv
    <2>3. \A t \in Threads : p \in ToSet(TxsOf(fork[t].blocks)) <=> Carries(fork[t].blocks, p)
        <3>1. \A t \in Threads : fork[t].blocks \in Seq(BlockType)
            BY <2>1 DEF TypeInv, ForkType
        <3>2. QED
            BY <3>1, TxsOfBlocks
    <2>4. QED
        BY <2>2, <2>3 DEF Present, Around, OnItsWay
<1>2. TypeInv' => Located'
    BY <1>1, PTL
<1>3. QED
    BY <1>1, <1>2

\* Neither the chain nor the forks change, and no payment loses its place.
LEMMA NothingMoves ==
    ASSUME Restored, main' = main, fork' = fork, raced \subseteq raced',
           \A t \in Threads : Due(t)' => Due(t),
           \A t \in Threads : \A p \in Payments : Due(t)' /\ Place(t, p) => Place(t, p)',
           \A p \in Payments : Around(p) => Around(p)'
    PROVE  Keeps
<1>1. ASSUME NEW t \in Threads, Due(t)', NEW p \in Payments, Carries(From(fork[t].start), p)'
      PROVE  Place(t, p)'
    <2>1. Due(t) /\ Carries(From(fork[t].start), p)
        BY <1>1 DEF From
    <2>2. Place(t, p)
        BY <2>1, RestoredByThread
    <2>3. QED
        BY <1>1, <2>2
<1>2. QED
    BY <1>1, RestoredByThread DEF Keeps

LEMMA ReceiveLosesNothing ==
    ASSUME LostInv, NEW p \in Payments, Receive(p)
    PROVE  Keeps
<1>0. TypeInv /\ CallInv /\ Restored
    BY DEF LostInv
<1>1. /\ pc["net"] = "idle" /\ Look("net", p, "idle") /\ "net" \in Threads /\ p \in Entries
      /\ UNCHANGED <<main, found, fork, adds, dels, minerVars, raced, torn>>
    BY Numbers DEF Receive, Threads
<1>2. /\ mempool' = mempool
      /\ \A u \in Threads \ {"net"} : pc'[u] = pc[u] /\ hand'[u] = hand[u]
    BY <1>0, <1>1, LookEffect
<1>3. ~ InHandleBlock("net") /\ hand["net"] = Nobody
    BY <1>0, <1>1, CallsByThread DEF OwnCall
<1>4. ~ Due("net")' /\ \A t \in Threads : Due(t)' => Due(t)
    BY <1>1, <1>2, <1>3 DEF Due, InHandleBlock
<1>5. \A t \in Threads : \A q \in Payments : Due(t)' /\ Place(t, q) => Place(t, q)'
    BY <1>1, <1>2, <1>4 DEF Place, InMempool
<1>6. \A q \in Payments : Around(q) => Around(q)'
    <2>1. \A q \in Payments : q # Nobody
        BY Numbers
    <2>2. QED
        BY <1>1, <1>2, <1>3, <2>1 DEF Around, InMempool
<1>7. QED
    BY <1>0, <1>1, <1>4, <1>5, <1>6, NothingMoves

LEMMA VerifyLosesNothing ==
    ASSUME LostInv, NEW t \in Threads, NEW f, Verifies(t, f)
    PROVE  Keeps
<1>0. TypeInv /\ CallInv /\ Restored
    BY DEF LostInv
<1>1. /\ pc[t] = "idle" /\ raced' = raced \ {t}
      /\ fork' = [fork EXCEPT ![t] = f] /\ pc' = [pc EXCEPT ![t] = "update"]
      /\ UNCHANGED <<mempool, main, hand, adds>>
    BY DEF Verifies, Verified
<1>2. /\ pc'[t] = "update" /\ fork'[t] = f
      /\ \A u \in Threads \ {t} : pc'[u] = pc[u] /\ fork'[u] = fork[u]
    BY <1>0, <1>1 DEF TypeInv
<1>3. fork[t] = NoFork
    BY <1>0, <1>1, CallsByThread DEF OwnCall, InHandleBlock
<1>4. \A u \in Threads, p \in Payments : Carries(fork[u].blocks, p) => Carries(fork'[u].blocks, p)
    BY <1>2, <1>3, NoForkCarriesNothing
<1>5. \A p \in Payments : Around(p) => Around(p)'
    BY <1>1, <1>4 DEF Around, InMempool
<1>6. ASSUME NEW u \in Threads, Due(u)', NEW p \in Payments, Carries(From(fork[u].start), p)'
      PROVE  Place(u, p)'
    <2>1. u # t
        BY <1>2, <1>6 DEF Due
    <2>2. Due(u) /\ Carries(From(fork[u].start), p)
        BY <1>1, <1>2, <1>6, <2>1 DEF Due, InHandleBlock, From
    <2>3. Place(u, p)
        BY <1>0, <2>2, RestoredByThread
    <2>4. QED
        BY <1>1, <1>4, <2>3 DEF Place, InMempool
<1>7. QED
    BY <1>5, <1>6, RestoredByThread DEF Keeps

LEMMA PushLosesNothing ==
    ASSUME LostInv, NEW t \in Threads, Push(t)
    PROVE  Keeps
<1>0. TypeInv /\ CallInv /\ Restored
    BY DEF LostInv
<1>1. /\ pc[t] = "push" /\ mempool' = Append(mempool, hand[t])
      /\ hand' = [hand EXCEPT ![t] = Nobody]
      /\ pc' = [pc EXCEPT ![t] = IF fork[t] = NoFork THEN "idle" ELSE "putback"]
      /\ main' = main /\ fork' = fork /\ adds' = adds /\ raced' = raced
    BY DEF Push, history
<1>2. \A u \in Threads \ {t} : pc'[u] = pc[u] /\ hand'[u] = hand[u]
    BY <1>0, <1>1 DEF TypeInv
<1>3. mempool \in Seq(Entries) /\ hand[t] \in Entries
    BY <1>0, <1>1, CallsByThread DEF TypeInv, OwnCall
<1>4. \A p : InMempool(p) \/ hand[t] = p => InMempool(p)'
    <2>1. /\ Len(mempool') = Len(mempool) + 1 /\ Len(mempool) \in Nat
          /\ \A i \in 1 .. Len(mempool) : mempool'[i] = mempool[i]
          /\ mempool'[Len(mempool) + 1] = hand[t] /\ mempool' \in Seq(Entries)
        BY <1>1, <1>3, AppendProperties
    <2>2. DOMAIN mempool = 1 .. Len(mempool) /\ DOMAIN mempool' = 1 .. Len(mempool) + 1
        BY <1>3, <2>1
    <2>3. QED
        BY <2>1, <2>2 DEF InMempool, ToSet
<1>5. \A u \in Threads : Due(u)' => Due(u)
    BY <1>1, <1>2 DEF Due, InHandleBlock
<1>6. \A u \in Threads : \A p \in Payments : Place(u, p) => Place(u, p)'
    BY <1>1, <1>2, <1>4 DEF Place
<1>7. \A p \in Payments : Around(p) => Around(p)'
    BY <1>1, <1>2, <1>4 DEF Around
<1>8. QED
    BY <1>0, <1>1, <1>5, <1>6, <1>7, NothingMoves

LEMMA ReadLosesNothing ==
    ASSUME LostInv, NEW t \in Threads, ReadTransactions(t)
    PROVE  Keeps
<1>0. TypeInv /\ CallInv /\ Restored
    BY DEF LostInv
<1>1. /\ InHandleBlock(t) /\ pc[t] = "update"
      /\ \A u \in Threads \ {t} : adds'[u] = adds[u] /\ pc'[u] = pc[u]
      /\ \A e : Carries(From(fork[t].start), e) => e \in ToSet(adds'[t])
      /\ UNCHANGED <<poolVars, hand, fork, minerVars, history>>
    BY <1>0, ReadEffect
<1>2. mempool' = mempool /\ main' = main /\ hand' = hand /\ fork' = fork /\ raced' = raced
    BY <1>1 DEF poolVars, history
<1>3. \A e : e \notin ToSet(adds[t])
    <2>1. adds[t] = <<>>
        BY <1>0, <1>1, CallsByThread DEF OwnCall
    <2>2. QED
        BY <2>1 DEF ToSet
<1>4. \A p \in Payments : Around(p) => Around(p)'
    BY <1>1, <1>2, <1>3 DEF Around, InMempool
<1>5. ASSUME NEW u \in Threads, Due(u)', NEW p \in Payments, Carries(From(fork[u].start), p)'
      PROVE  Place(u, p)'
    <2>1. Carries(From(fork[u].start), p)
        BY <1>2, <1>5 DEF From
    <2>2. CASE u = t
        BY <1>1, <2>1, <2>2 DEF Place
    <2>3. CASE u # t
        <3>1. Due(u)
            BY <1>1, <1>2, <1>5, <2>3 DEF Due, InHandleBlock
        <3>2. Place(u, p)
            BY <1>0, <2>1, <3>1, RestoredByThread
        <3>3. QED
            BY <1>1, <1>2, <2>3, <3>2 DEF Place, InMempool
    <2>4. QED
        BY <2>2, <2>3
<1>6. QED
    BY <1>4, <1>5, RestoredByThread DEF Keeps

LEMMA PutBackLosesNothing ==
    ASSUME LostInv, NEW t \in Threads, PutBack(t)
    PROVE  Keeps
<1>0. TypeInv /\ CallInv /\ Restored
    BY DEF LostInv
<1>1. /\ pc[t] = "putback" /\ InHandleBlock(t) /\ hand[t] = Nobody /\ mempool' = mempool
      /\ \A u \in Threads \ {t} : pc'[u] = pc[u] /\ hand'[u] = hand[u] /\ adds'[u] = adds[u]
      /\ \A e : e \in ToSet(adds[t]) => e = Head(adds[t]) \/ e \in ToSet(adds'[t])
      /\ Head(adds[t]) \in ToSet(mempool) \/ hand'[t] = Head(adds[t])
      /\ main' = main /\ fork' = fork /\ raced' = raced
    BY <1>0, PutBackEffect
<1>2. \A p \in Payments : hand[t] # p
    BY <1>1, Numbers
<1>3. \A u \in Threads : Due(u)' => Due(u)
    BY <1>1 DEF Due, InHandleBlock
<1>4. \A p \in Payments : p \in ToSet(adds[t]) => InMempool(p)' \/ hand'[t] = p \/ p \in ToSet(adds'[t])
    BY <1>1 DEF InMempool
<1>5. \A u \in Threads : \A p \in Payments : Place(u, p) => Place(u, p)'
    BY <1>1, <1>2, <1>4 DEF Place, InMempool
<1>6. \A p \in Payments : Around(p) => Around(p)'
    BY <1>1, <1>2, <1>4 DEF Around, InMempool
<1>7. QED
    BY <1>0, <1>1, <1>3, <1>5, <1>6, NothingMoves

LEMMA DeleteLosesNothing ==
    ASSUME LostInv, NEW t \in Threads, Delete(t)
    PROVE  Keeps
<1>0. TypeInv /\ CallInv /\ Restored
    BY DEF LostInv
<1>1. /\ \/ mempool' = mempool
         \/ \E k \in DOMAIN mempool : mempool' = RemoveAt(mempool, k) /\ Carries(fork[t].blocks, mempool[k])
      /\ UNCHANGED <<main, found, arrived, pc, hand, fork, adds, minerVars, history>>
      /\ mempool \in Seq(Entries)
    BY <1>0, DeleteEffect DEF TypeInv
<1>2. \A p : InMempool(p) => InMempool(p)' \/ Carries(fork[t].blocks, p)
    BY <1>1, RemovedSet DEF InMempool
<1>3. main' = main /\ fork' = fork /\ raced' = raced /\ hand' = hand /\ adds' = adds /\ pc' = pc
    BY <1>1 DEF history
<1>4. \A u \in Threads : Due(u)' => Due(u)
    BY <1>3 DEF Due, InHandleBlock
<1>5. \A u \in Threads : \A p \in Payments : Place(u, p) => Place(u, p)'
    BY <1>2, <1>3 DEF Place
<1>6. \A p \in Payments : Around(p) => Around(p)'
    BY <1>2, <1>3 DEF Around
<1>7. QED
    BY <1>0, <1>3, <1>4, <1>5, <1>6, NothingMoves

LEMMA ApplyLosesNothing ==
    ASSUME LostInv, NEW t \in Threads, ApplyFork(t)
    PROVE  Keeps
<1>0. TypeInv /\ CallInv /\ Restored
    BY DEF LostInv
<1>1. /\ pc[t] = "putback" /\ adds[t] = <<>>
      /\ pc' = [pc EXCEPT ![t] = "idle"] /\ fork' = [fork EXCEPT ![t] = NoFork]
      /\ raced' = {u \in {Other(t)} : InHandleBlock(u)}
      /\ mempool' = mempool /\ hand' = hand /\ adds' = adds
    BY DEF ApplyFork
<1>2. /\ InHandleBlock(t) /\ hand[t] = Nobody /\ fork'[t] = NoFork
      /\ \A u \in Threads \ {t} : fork'[u] = fork[u]
    BY <1>0, <1>1, CallsByThread DEF OwnCall, TypeInv
<1>3. \A u \in Threads \ {t} : u = Other(t)
    <2>1. \E u \in Threads : u # t
        BY DEF Threads
    <2>2. Other(t) \in Threads /\ Other(t) # t
        BY <2>1 DEF Other
    <2>3. QED
        BY <2>2 DEF Threads
<1>4. \A u \in Threads : ~ Due(u)'
    BY <1>1, <1>2, <1>3 DEF Due, InHandleBlock
<1>5. /\ \A e : Carries(fork[t].blocks, e) => Carries(main', e)
      /\ \A e : Carries(main, e) => Carries(main', e) \/ Carries(From(fork[t].start), e)
    BY <1>0, ApplyEffect
<1>6. ASSUME NEW p \in Payments, Around(p), ~ RacedWrites
      PROVE  Around(p)'
    <2>1. t \notin raced
        BY <1>2, <1>6 DEF RacedWrites, InHandleBlock
    <2>2. Carries(From(fork[t].start), p) => Place(t, p)
        BY <1>0, <1>1, <1>2, <2>1, RestoredByThread DEF Due
    <2>3. hand[t] # p /\ p \notin ToSet(adds[t])
        BY <1>1, <1>2, Numbers DEF ToSet
    <2>4. ASSUME NEW u \in Threads, Carries(fork[u].blocks, p)
          PROVE  Carries(main', p) \/ Carries(fork'[u].blocks, p)
        BY <1>2, <1>5, <2>4
    <2>5. Carries(From(fork[t].start), p) => InMempool(p) \/ \E u \in Threads : Carries(fork[u].blocks, p)
        BY <2>2, <2>3 DEF Place
    <2>6. \/ InMempool(p) \/ Carries(main', p)
          \/ \E u \in Threads : hand[u] = p \/ p \in ToSet(adds[u]) \/ Carries(fork[u].blocks, p)
        BY <1>5, <1>6, <2>5 DEF Around
    <2>7. QED
        BY <1>1, <2>4, <2>6 DEF Around, InMempool
<1>7. QED
    BY <1>4, <1>6, RestoredByThread DEF Keeps

LEMMA ScanLosesNothing ==
    ASSUME LostInv, PutTxInBlock
    PROVE  Keeps
<1>0. TypeInv /\ CallInv /\ Restored
    BY DEF LostInv
<1> DEFINE e == mempool[cursor]
<1>1. /\ cursor \in DOMAIN mempool /\ pc["miner"] = "idle" /\ mempool \in Seq(Entries)
      /\ UNCHANGED <<main, threadVars>>
      /\ \/ mempool' = mempool /\ raced' = raced
         \/ /\ e \notin Payments \/ Carries(main, e)
            /\ mempool' = RemoveAt(mempool, cursor)
            /\ raced' = raced \cup {t \in {"net"} : e \in Displaced(t)}
    BY <1>0, ScanEffect DEF TypeInv
<1>2. main' = main /\ pc' = pc /\ hand' = hand /\ fork' = fork /\ adds' = adds
    BY <1>1 DEF threadVars
<1>3. \A p \in Payments : InMempool(p) => InMempool(p)' \/ (p = e /\ Carries(main, e))
    <2>1. CASE mempool' = mempool
        BY <2>1 DEF InMempool
    <2>2. CASE (e \notin Payments \/ Carries(main, e)) /\ mempool' = RemoveAt(mempool, cursor)
        BY <1>1, <2>2, RemovedSet DEF InMempool
    <2>3. QED
        BY <1>1, <2>1, <2>2
<1>4. \A u \in Threads : Due(u)' => Due(u) /\ u = "net"
    <2>1. ~ InHandleBlock("miner")
        BY <1>0, <1>1, CallsByThread DEF OwnCall, Threads
    <2>2. raced \subseteq raced'
        BY <1>1
    <2>3. QED
        BY <1>2, <2>1, <2>2 DEF Due, InHandleBlock, Threads
<1>5. ASSUME NEW u \in Threads, Due(u)', NEW p \in Payments, Carries(From(fork[u].start), p)'
      PROVE  Place(u, p)'
    <2>1. Carries(From(fork[u].start), p) /\ Due(u) /\ u = "net" /\ InHandleBlock(u)
        BY <1>2, <1>4, <1>5 DEF From, Due
    <2>2. Place(u, p)
        BY <1>0, <2>1, RestoredByThread
    <2>3. InMempool(p) => InMempool(p)'
        <3>1. SUFFICES ASSUME mempool' # mempool, InMempool(p), ~ InMempool(p)' PROVE FALSE
            BY DEF InMempool
        <3>2. p = e /\ raced' = raced \cup {t \in {"net"} : e \in Displaced(t)}
            BY <1>1, <1>3, <3>1
        <3>3. "net" \notin raced'
            BY <1>5, <2>1 DEF Due
        <3>4. p \notin Displaced("net")
            BY <3>2, <3>3
        <3>5. From(fork[u].start) \in Seq(BlockType)
            <4>1. fork[u].start \in 1 .. Len(main) + 1
                BY <1>0, <2>1, CallsByThread DEF OwnCall
            <4>2. QED
                BY <1>0, <4>1, Parts DEF TypeInv, From
        <3>6. p \in ToSet(TxsOf(From(fork[u].start)))
            BY <2>1, <3>5, TxsOfBlocks
        <3>7. QED
            BY <2>1, <3>4, <3>6 DEF Displaced
    <2>4. QED
        BY <1>2, <2>2, <2>3 DEF Place
<1>6. \A p \in Payments : Around(p) => Around(p)'
    BY <1>2, <1>3 DEF Around
<1>7. QED
    BY <1>5, <1>6, RestoredByThread DEF Keeps

LEMMA LostNext == LostInv /\ [Next]_vars => LostInv' /\ Keeps
<1> SUFFICES ASSUME LostInv, [Next]_vars PROVE LostInv' /\ Keeps
    OBVIOUS
<1>1. TypeInv /\ CallInv /\ Restored
    BY DEF LostInv
<1>2. Acts \/ UNCHANGED vars
    BY <1>1, NextActs
<1>3. ASSUME NEW t \in Threads, Step(t) PROVE Keeps
    BY <1>3, PushLosesNothing, ReadLosesNothing, PutBackLosesNothing, DeleteLosesNothing, ApplyLosesNothing
    DEF Step
<1>4. ASSUME BuildNewBlock \/ PutTxInBlockEnds \/ UNCHANGED vars PROVE Keeps
    <2>1. mempool' = mempool /\ main' = main /\ UNCHANGED threadVars /\ raced' = raced
        BY <1>4 DEF BuildNewBlock, PutTxInBlockEnds, vars, poolVars, history
    <2>2. \A u \in Threads : Due(u)' => Due(u)
        BY <2>1 DEF Due, InHandleBlock, threadVars
    <2>3. \A u \in Threads : \A p \in Payments : Place(u, p) => Place(u, p)'
        BY <2>1 DEF Place, InMempool, threadVars
    <2>4. \A p \in Payments : Around(p) => Around(p)'
        BY <2>1 DEF Around, InMempool, threadVars
    <2>5. QED
        BY <1>1, <2>1, <2>2, <2>3, <2>4, NothingMoves DEF threadVars
<1>5. Keeps
    BY <1>2, <1>3, <1>4, ReceiveLosesNothing, VerifyLosesNothing, ScanLosesNothing DEF Acts
<1>6. Restored'
    BY <1>5 DEF Keeps
<1>7. TypeInv' /\ CallInv'
    BY <1>1, CallNext
<1>8. LostInv'
    BY <1>6, <1>7 DEF LostInv
<1>9. QED
    BY <1>5, <1>8

\* A payment that has reached the node stays in the mempool, in the chain or on
\* its way through mempoolUpdate and handleBlock, unless a thread writes a fork
\* whose ground the other thread has changed meanwhile.
THEOREM NothingLostAlways == Spec => NothingLost
<1>1. Init => LostInv
    BY InitLost
<1>2. LostInv /\ [Next]_vars => LostInv'
    BY LostNext
<1>3. LostInv /\ LostInv' /\ [Next]_vars =>
        [\A p \in Payments : Present(p) =>
            Present(p)' \/ \E t \in raced : fork[t] # NoFork /\ fork'[t] = NoFork]_vars
    <2>1. SUFFICES ASSUME LostInv, LostInv', [Next]_vars, NEW p \in Payments, Present(p), ~ RacedWrites
                   PROVE  Present(p)'
        BY DEF RacedWrites
    <2>2. Located /\ Located'
        BY <2>1, PresentIsAround DEF LostInv
    <2>3. Around(p)'
        BY <2>1, <2>2, LostNext DEF Keeps, Located
    <2>4. QED
        BY <2>2, <2>3 DEF Located
<1>4. QED
    BY <1>1, <1>2, <1>3, PTL DEF Spec, NothingLost

-----------------------------------------------------------------------------
(* No payment is listed twice.                                             *)

\* Nobody starts to add, and the mempool stays or loses an entry.
LEMMA ListShrinks ==
    ASSUME Listed, mempool \in Seq(Entries), crossed' = crossed,
           mempool' = mempool \/ \E k \in DOMAIN mempool : mempool' = RemoveAt(mempool, k),
           \A t \in Threads : pc'[t] = "push" => pc[t] = "push" /\ hand'[t] = hand[t]
    PROVE  Listed'
<1>1. (\A p : InMempool(p)' => InMempool(p)) /\ (Once(mempool) => Once(mempool'))
    <2>1. CASE mempool' = mempool
        BY <2>1 DEF InMempool
    <2>2. CASE \E k \in DOMAIN mempool : mempool' = RemoveAt(mempool, k)
        BY <2>2, RemovedSet DEF InMempool
    <2>3. QED
        BY <2>1, <2>2
<1>2. Once(mempool)'
    BY <1>1 DEF Listed, Once
<1>3. ASSUME NEW t \in Threads, pc'[t] = "push"
      PROVE  /\ InMempool(hand[t])' => hand'[t] \in crossed'
             /\ \A u \in Threads \ {t} : pc'[u] = "push" /\ hand'[u] = hand'[t] => hand'[t] \in crossed'
    <2>1. pc[t] = "push" /\ hand'[t] = hand[t]
        BY <1>3
    <2>2. InMempool(hand[t])' => InMempool(hand[t])
        BY <1>1, <2>1 DEF InMempool
    <2>3. QED
        BY <2>1, <2>2 DEF Listed
<1>4. QED
    BY <1>2, <1>3 DEF Listed

\* t looks for e.
LEMMA LookLists ==
    ASSUME TypeInv, Listed, NEW t \in Threads, NEW e \in Entries, NEW back \in {"idle", "putback"},
           Look(t, e, back)
    PROVE  Listed' /\ crossed \subseteq crossed'
<1>1. /\ mempool' = mempool
      /\ \A u \in Threads \ {t} : pc'[u] = pc[u] /\ hand'[u] = hand[u]
      /\ \/ pc'[t] = back /\ crossed' = crossed
         \/ /\ e \notin ToSet(mempool) /\ pc'[t] = "push" /\ hand'[t] = e
            /\ crossed' = IF hand[Other(t)] = e THEN crossed \cup {e} ELSE crossed
    BY LookEffect
<1>2. \A u \in Threads \ {t} : u = Other(t)
    <2>1. \E u \in Threads : u # t
        BY DEF Threads
    <2>2. Other(t) \in Threads /\ Other(t) # t
        BY <2>1 DEF Other
    <2>3. QED
        BY <2>2 DEF Threads
<1>3. crossed \subseteq crossed'
    BY <1>1
<1>4. Once(mempool)'
    BY <1>1, <1>3 DEF Listed, Once
<1>5. ASSUME NEW u \in Threads, pc'[u] = "push"
      PROVE  /\ InMempool(hand[u])' => hand'[u] \in crossed'
             /\ \A v \in Threads \ {u} : pc'[v] = "push" /\ hand'[v] = hand'[u] => hand'[u] \in crossed'
    <2>1. CASE u = t
        <3>1. e \notin ToSet(mempool) /\ hand'[t] = e /\ (hand[Other(t)] = e => e \in crossed')
            BY <1>1, <1>5, <2>1
        <3>2. ~ InMempool(hand[u])'
            BY <1>1, <2>1, <3>1 DEF InMempool
        <3>3. QED
            BY <1>1, <1>2, <2>1, <3>1, <3>2
    <2>2. CASE u # t
        <3>1. pc[u] = "push" /\ hand'[u] = hand[u] /\ u = Other(t)
            BY <1>1, <1>2, <1>5, <2>2
        <3>2. InMempool(hand[u])' => hand'[u] \in crossed'
            BY <1>1, <1>3, <3>1 DEF InMempool, Listed
        <3>3. ASSUME NEW v \in Threads \ {u}, pc'[v] = "push", hand'[v] = hand'[u]
              PROVE  hand'[u] \in crossed'
            <4>1. v = t
                BY <2>2, <3>3 DEF Threads
            <4>2. hand'[t] = e /\ (hand[Other(t)] = e => e \in crossed')
                BY <1>1, <3>3, <4>1
            <4>3. QED
                BY <3>1, <3>3, <4>1, <4>2
        <3>4. QED
            BY <3>2, <3>3
    <2>3. QED
        BY <2>1, <2>2
<1>6. QED
    BY <1>3, <1>4, <1>5 DEF Listed

LEMMA PushLists ==
    ASSUME TypeInv, CallInv, Listed, NEW t \in Threads, Push(t)
    PROVE  Listed'
<1>1. /\ pc[t] = "push" /\ mempool' = Append(mempool, hand[t]) /\ crossed' = crossed
      /\ hand' = [hand EXCEPT ![t] = Nobody]
      /\ pc' = [pc EXCEPT ![t] = IF fork[t] = NoFork THEN "idle" ELSE "putback"]
    BY DEF Push, history
<1>2. /\ pc'[t] # "push"
      /\ \A u \in Threads \ {t} : pc'[u] = pc[u] /\ hand'[u] = hand[u]
    BY <1>1 DEF TypeInv
<1>3. mempool \in Seq(Entries) /\ hand[t] \in Entries /\ (InMempool(hand[t]) => hand[t] \in crossed)
    BY <1>1, CallsByThread DEF TypeInv, OwnCall, Listed
<1> DEFINE n == Len(mempool)
<1>4. /\ n \in Nat /\ DOMAIN mempool = 1 .. n /\ DOMAIN mempool' = 1 .. n + 1
      /\ \A i \in 1 .. n : mempool'[i] = mempool[i]
      /\ mempool'[n + 1] = hand[t]
    <2>1. /\ Len(mempool') = Len(mempool) + 1 /\ Len(mempool) \in Nat
          /\ \A i \in 1 .. Len(mempool) : mempool'[i] = mempool[i]
          /\ mempool'[Len(mempool) + 1] = hand[t] /\ mempool' \in Seq(Entries)
        BY <1>1, <1>3, AppendProperties
    <2>2. DOMAIN mempool = 1 .. Len(mempool) /\ DOMAIN mempool' = 1 .. Len(mempool) + 1
        BY <1>3, <2>1
    <2>3. QED
        BY <2>1, <2>2
<1> HIDE DEF n
<1>5. \A i \in DOMAIN mempool' : (i \in DOMAIN mempool /\ mempool'[i] = mempool[i]) \/ (i = n + 1 /\ mempool'[i] = hand[t])
    BY <1>4
<1>6. \A i \in DOMAIN mempool : mempool[i] = hand[t] => hand[t] \in crossed
    BY <1>3 DEF InMempool, ToSet
<1>7. Once(mempool)'
    <2>1. \A i, j \in DOMAIN mempool' : i # j /\ mempool'[i] = mempool'[j] => mempool'[i] \in crossed
        <3>1. \A i, j \in DOMAIN mempool : i # j /\ mempool[i] = mempool[j] => mempool[i] \in crossed
            BY DEF Listed, Once
        <3>2. QED
            BY <1>5, <1>6, <3>1
    <2>2. QED
        BY <1>1, <2>1 DEF Once
<1>8. ASSUME NEW u \in Threads, pc'[u] = "push"
      PROVE  /\ InMempool(hand[u])' => hand'[u] \in crossed'
             /\ \A v \in Threads \ {u} : pc'[v] = "push" /\ hand'[v] = hand'[u] => hand'[u] \in crossed'
    <2>1. u # t /\ pc[u] = "push" /\ hand'[u] = hand[u]
        BY <1>2, <1>8
    <2>2. InMempool(hand[u])' => InMempool(hand[u]) \/ hand[u] = hand[t]
        BY <1>5, <2>1 DEF InMempool, ToSet
    <2>3. InMempool(hand[u])' => hand'[u] \in crossed'
        BY <1>1, <2>1, <2>2 DEF Listed
    <2>4. \A v \in Threads \ {u} : pc'[v] = "push" => pc[v] = "push" /\ hand'[v] = hand[v]
        BY <1>2
    <2>5. QED
        BY <1>1, <2>1, <2>3, <2>4 DEF Listed
<1>9. QED
    BY <1>7, <1>8 DEF Listed

LEMMA ListedNext ==
    ASSUME TypeInv, CallInv, Listed, [Next]_vars
    PROVE  Listed' /\ crossed \subseteq crossed'
<1>1. ASSUME NEW p \in Payments, Receive(p) PROVE Listed' /\ crossed \subseteq crossed'
    <2>1. Look("net", p, "idle") /\ "net" \in Threads /\ p \in Entries
        BY <1>1, Numbers DEF Receive, Threads
    <2>2. QED
        BY <2>1, LookLists
<1>2. ASSUME NEW t \in Threads, PutBack(t) PROVE Listed' /\ crossed \subseteq crossed'
    BY <1>2, PutBackEffect, LookLists
<1>3. ASSUME NEW t \in Threads, Push(t) PROVE Listed' /\ crossed \subseteq crossed'
    BY <1>3, PushLists DEF Push, history
<1>4. ASSUME \/ \E t \in Threads : \E f : Verifies(t, f)
             \/ \E t \in Threads : ReadTransactions(t) \/ Delete(t) \/ ApplyFork(t)
             \/ BuildNewBlock \/ PutTxInBlock \/ PutTxInBlockEnds \/ UNCHANGED vars
      PROVE  Listed' /\ crossed \subseteq crossed'
    <2>1. mempool \in Seq(Entries)
        BY DEF TypeInv
    <2>2. crossed' = crossed /\ hand' = hand
        BY <1>4 DEF Verifies, ReadTransactions, Delete, ApplyFork, BuildNewBlock, PutTxInBlock, PutTxInBlockEnds,
            vars, threadVars, history
    <2>3. mempool' = mempool \/ \E k \in DOMAIN mempool : mempool' = RemoveAt(mempool, k)
        <3>1. ASSUME NEW t \in Threads, Delete(t)
              PROVE  mempool' = mempool \/ \E k \in DOMAIN mempool : mempool' = RemoveAt(mempool, k)
            BY <3>1, DeleteEffect
        <3>2. ASSUME PutTxInBlock
              PROVE  mempool' = mempool \/ \E k \in DOMAIN mempool : mempool' = RemoveAt(mempool, k)
            BY <3>2, ScanEffect
        <3>3. QED
            BY <1>4, <3>1, <3>2 DEF Verifies, ReadTransactions, ApplyFork, BuildNewBlock, PutTxInBlockEnds, vars, poolVars
    <2>4. \A t \in Threads : pc'[t] = "push" => pc[t] = "push"
        <3>1. pc \in [Threads -> {"idle", "push", "update", "putback"}]
            BY DEF TypeInv
        <3>2. \/ pc' = pc \/ \E t \in Threads : \E x \in {"idle", "update", "putback"} : pc' = [pc EXCEPT ![t] = x]
            BY <1>4 DEF Verifies, Verified, ReadTransactions, Delete, ApplyFork, BuildNewBlock, PutTxInBlock,
                PutTxInBlockEnds, vars, threadVars
        <3>3. QED
            BY <3>1, <3>2
    <2>5. QED
        BY <2>1, <2>2, <2>3, <2>4, ListShrinks
<1>5. Acts \/ UNCHANGED vars
    BY NextActs
<1>6. QED
    BY <1>1, <1>2, <1>3, <1>4, <1>5 DEF Acts, Step

\* "check here if the transaction is in the currentTransactions already": an
\* entry is in the mempool twice only when both threads looked for it before
\* either had added it.
THEOREM ListedOnceAlways == Spec => []ListedOnce
<1> DEFINE Inv == TypeInv /\ CallInv /\ Listed
<1>1. Init => Inv
    <2>1. Init => Listed
        BY DEF Init, Listed, Once
    <2>2. QED
        BY <2>1, InitLost DEF LostInv
<1>2. Inv /\ [Next]_vars => Inv'
    BY CallNext, ListedNext
<1>3. Inv => ListedOnce
    BY DEF Listed, Once, ListedOnce
<1>4. QED
    BY <1>1, <1>2, <1>3, PTL DEF Spec

-----------------------------------------------------------------------------
(* No payment is paid twice.                                               *)

LEMMA TakenNext ==
    ASSUME TypeInv, CallInv, Listed, Taken, [Next]_vars
    PROVE  Taken'
<1>1. crossed \subseteq crossed'
    BY ListedNext
<1>2. ASSUME trans' = trans, cursor' # 0 => cursor' = cursor /\ mempool' = mempool PROVE Taken'
    <2>1. Once(trans)'
        BY <1>1, <1>2 DEF Taken, Once
    <2>2. QED
        BY <1>2, <2>1 DEF Taken
<1>3. ASSUME PutTxInBlock PROVE Taken'
    <2> DEFINE e == mempool[cursor]
    <2>1. /\ cursor \in DOMAIN mempool /\ cursor' = cursor + 1 /\ crossed' = crossed
          /\ \/ e \in Payments /\ trans' = Append(trans, e) /\ mempool' = mempool
             \/ trans' = trans /\ mempool' = RemoveAt(mempool, cursor)
        BY <1>3, ScanEffect
    <2>2. /\ mempool \in Seq(Entries) /\ trans \in Seq(Payments) /\ Len(mempool) \in Nat
          /\ DOMAIN mempool = 1 .. Len(mempool) /\ cursor # 0
        BY <2>1 DEF TypeInv
    <2>3. \A i \in DOMAIN trans : \E k \in DOMAIN mempool : k < cursor /\ mempool[k] = trans[i]
        BY <2>2 DEF Taken
    <2>4. CASE e \in Payments /\ trans' = Append(trans, e) /\ mempool' = mempool
        <3>1. /\ DOMAIN trans = 1 .. Len(trans) /\ DOMAIN trans' = 1 .. Len(trans) + 1 /\ Len(trans) \in Nat
              /\ \A i \in 1 .. Len(trans) : trans'[i] = trans[i]
              /\ trans'[Len(trans) + 1] = e
            <4>1. /\ trans' \in Seq(Payments) /\ Len(trans') = Len(trans) + 1
                  /\ \A i \in 1 .. Len(trans) : trans'[i] = trans[i]
                  /\ trans'[Len(trans) + 1] = e
                BY <2>2, <2>4, AppendProperties
            <4>2. QED
                BY <2>2, <4>1
        <3>2. \A i \in DOMAIN trans' : (i \in DOMAIN trans /\ trans'[i] = trans[i]) \/ (i = Len(trans) + 1 /\ trans'[i] = e)
            BY <3>1
        <3>3. \A i \in DOMAIN trans : trans[i] = e => e \in crossed
            <4>1. SUFFICES ASSUME NEW i \in DOMAIN trans, trans[i] = e PROVE e \in crossed
                OBVIOUS
            <4>2. PICK k \in DOMAIN mempool : k < cursor /\ mempool[k] = trans[i]
                BY <2>3
            <4>3. k # cursor
                BY <2>2, <4>2
            <4>4. QED
                BY <2>1, <4>1, <4>2, <4>3 DEF Listed, Once
        <3>4. \A i, j \in DOMAIN trans : i # j /\ trans[i] = trans[j] => trans[i] \in crossed
            BY DEF Taken, Once
        <3>5. \A i, j \in DOMAIN trans' : i # j /\ trans'[i] = trans'[j] => trans'[i] \in crossed
            BY <3>2, <3>3, <3>4
        <3>6. Once(trans)'
            BY <2>1, <3>5 DEF Once
        <3>7. ASSUME NEW i \in DOMAIN trans'
              PROVE  \E k \in DOMAIN mempool : k < cursor + 1 /\ mempool[k] = trans'[i]
            <4>1. CASE i \in DOMAIN trans /\ trans'[i] = trans[i]
                <5>1. PICK k \in DOMAIN mempool : k < cursor /\ mempool[k] = trans[i]
                    BY <2>3, <4>1
                <5>2. k < cursor + 1
                    BY <2>1, <2>2, <5>1
                <5>3. QED
                    BY <4>1, <5>1, <5>2
            <4>2. CASE trans'[i] = e
                <5>1. cursor < cursor + 1
                    BY <2>1, <2>2
                <5>2. QED
                    BY <2>1, <4>2, <5>1
            <4>3. QED
                BY <3>2, <4>1, <4>2
        <3>8. QED
            BY <2>1, <2>4, <3>6, <3>7 DEF Taken
    <2>5. CASE trans' = trans /\ mempool' = RemoveAt(mempool, cursor)
        <3>1. /\ mempool' \in Seq(Entries) /\ Len(mempool') = Len(mempool) - 1
              /\ \A i \in 1 .. Len(mempool) - 1 : mempool'[i] = IF i < cursor THEN mempool[i] ELSE mempool[i + 1]
            BY <2>1, <2>2, <2>5, Removed
        <3>2. DOMAIN mempool' = 1 .. Len(mempool) - 1
            BY <2>2, <3>1
        <3>3. ASSUME NEW i \in DOMAIN trans
              PROVE  \E k \in DOMAIN mempool' : k < cursor + 1 /\ mempool'[k] = trans[i]
            <4>1. PICK k \in DOMAIN mempool : k < cursor /\ mempool[k] = trans[i]
                BY <2>3
            <4>2. k \in 1 .. Len(mempool) - 1 /\ k < cursor + 1
                BY <2>1, <2>2, <4>1
            <4>3. mempool'[k] = trans[i]
                BY <3>1, <4>1, <4>2
            <4>4. QED
                BY <3>2, <4>2, <4>3
        <3>4. Once(trans)'
            BY <2>1, <2>5 DEF Taken, Once
        <3>5. QED
            BY <2>1, <2>5, <3>3, <3>4, SMTT(60) DEF Taken
    <2>6. QED
        BY <2>1, <2>4, <2>5
<1>4. ASSUME BuildNewBlock PROVE Taken'
    <2>1. trans' = <<>>
        BY <1>4 DEF BuildNewBlock
    <2>2. QED
        BY <2>1 DEF Taken, Once
<1>5. ASSUME NEW t \in Threads, Step(t) PROVE Taken'
    <2>1. trans' = trans /\ cursor' = cursor
        BY <1>5 DEF Step, Push, ReadTransactions, PutBack, Delete, ApplyFork, minerVars
    <2>2. cursor = 0 \/ mempool' = mempool
        BY <1>5 DEF Step, Push, ReadTransactions, PutBack, Look, Delete, ApplyFork, MutexFree, poolVars
    <2>3. QED
        BY <1>2, <2>1, <2>2
<1>6. ASSUME (\E p \in Payments : Receive(p)) \/ (\E t \in Threads : \E f : Verifies(t, f))
             \/ PutTxInBlockEnds \/ UNCHANGED vars
      PROVE  Taken'
    <2>1. trans' = trans /\ (cursor' = 0 \/ (cursor' = cursor /\ mempool' = mempool))
        BY <1>6 DEF Receive, Look, Verifies, PutTxInBlockEnds, vars, poolVars, minerVars
    <2>2. QED
        BY <1>2, <2>1
<1>7. QED
    BY <1>3, <1>4, <1>5, <1>6, NextActs DEF Acts

LEMMA BlocksOfConcat ==
    ASSUME NEW S, NEW a \in Seq(S), NEW b \in Seq(S), NEW i \in DOMAIN (a \o b)
    PROVE  \/ i \in DOMAIN a /\ (a \o b)[i] = a[i]
           \/ i - Len(a) \in DOMAIN b /\ Len(a) < i /\ (a \o b)[i] = b[i - Len(a)]
<1> DEFINE c == a \o b
<1>1. c \in Seq(S) /\ Len(c) = Len(a) + Len(b)
      /\ \A k \in 1 .. Len(a) + Len(b) : c[k] = IF k <= Len(a) THEN a[k] ELSE b[k - Len(a)]
    BY ConcatProperties
<1>2. i \in DOMAIN c
    OBVIOUS
<1> HIDE DEF c
<1>3. /\ Len(a) \in Nat /\ Len(b) \in Nat /\ i \in 1 .. Len(a) + Len(b)
      /\ DOMAIN a = 1 .. Len(a) /\ DOMAIN b = 1 .. Len(b)
    BY <1>1, <1>2
<1>4. CASE i <= Len(a)
    BY <1>1, <1>3, <1>4 DEF c
<1>5. CASE ~ (i <= Len(a))
    <2>1. i - Len(a) \in 1 .. Len(b) /\ Len(a) < i
        BY <1>3, <1>5
    <2>2. QED
        BY <1>1, <1>3, <1>5, <2>1 DEF c
<1>6. QED
    BY <1>4, <1>5

\* A part of the chain consists of its blocks.
LEMMA PartsOfChain ==
    ASSUME main \in Seq(BlockType), NEW k \in Nat, k >= 1
    PROVE  \A i \in DOMAIN From(k) : \E j \in DOMAIN main : From(k)[i] = main[j]
<1>1. Len(main) \in Nat /\ DOMAIN main = 1 .. Len(main)
    OBVIOUS
<1>2. CASE k <= Len(main) + 1
    <2> DEFINE s == From(k)
    <2>1. k \in 1 .. Len(main) + 1
        BY <1>1, <1>2
    <2>2. s \in Seq(BlockType) /\ Len(s) = Len(main) - k + 1
          /\ \A i \in 1 .. Len(main) - k + 1 : s[i] = main[k + i - 1]
        BY <2>1, Parts DEF From
    <2> HIDE DEF s
    <2>3. DOMAIN s = 1 .. Len(main) - k + 1
        BY <2>2
    <2>4. \A i \in DOMAIN s : k + i - 1 \in DOMAIN main
        BY <1>1, <2>1, <2>3
    <2>5. QED
        BY <2>2, <2>3, <2>4 DEF s
<1>3. CASE ~ (k <= Len(main) + 1)
    <2>1. From(k) = <<>>
        <3>1. Len(main) < k /\ k \in Int
            BY <1>1, <1>3
        <3>2. QED
            BY <1>1, <3>1, SubSeqEmpty DEF From
    <2>2. QED
        BY <2>1
<1>4. QED
    BY <1>2, <1>3

\* What applyFork writes are blocks of the chain and of the fork.
LEMMA ApplyBlocks ==
    ASSUME TypeInv, CallInv, NEW t \in Threads, ApplyFork(t)
    PROVE  \A i \in DOMAIN main' : \/ \E j \in DOMAIN main : main'[i] = main[j]
                                   \/ \E j \in DOMAIN fork[t].blocks : main'[i] = fork[t].blocks[j]
<1>1. PICK low \in Seq(BlockType), rows \in Seq(BlockType), rest \in Seq(BlockType) :
            /\ low = Below(fork[t].start) /\ rows = fork[t].blocks
            /\ rest = From(fork[t].start + Len(rows))
            /\ main' = (low \o rows) \o rest
    BY ApplyEffect
<1>2. main \in Seq(BlockType) /\ fork[t].start \in 1 .. Len(main) + 1 /\ Len(rows) \in Nat /\ Len(main) \in Nat
    BY <1>1, CallsByThread DEF TypeInv, OwnCall, ApplyFork
<1>3. ASSUME NEW i \in DOMAIN low PROVE \E j \in DOMAIN main : low[i] = main[j]
    <2> DEFINE start == fork[t].start
    <2>1. start \in 1 .. Len(main) + 1 /\ low = SubSeq(main, 1, start - 1)
        BY <1>1, <1>2 DEF Below
    <2> HIDE DEF start
    <2>2. Len(low) = start - 1 /\ \A k \in 1 .. start - 1 : low[k] = main[k]
        BY <1>2, <2>1, Parts
    <2>3. i \in 1 .. start - 1 /\ i \in DOMAIN main
        BY <1>2, <2>1, <2>2
    <2>4. QED
        BY <2>2, <2>3
<1>4. ASSUME NEW i \in DOMAIN rest PROVE \E j \in DOMAIN main : rest[i] = main[j]
    <2>1. fork[t].start + Len(rows) \in Nat /\ fork[t].start + Len(rows) >= 1
        BY <1>2
    <2>2. QED
        BY <1>1, <1>2, <2>1, PartsOfChain
<1>5. ASSUME NEW i \in DOMAIN main'
      PROVE  \/ \E j \in DOMAIN main : main'[i] = main[j]
             \/ \E j \in DOMAIN rows : main'[i] = rows[j]
    <2> DEFINE c == low \o rows
    <2>1. c \in Seq(BlockType) /\ main' = c \o rest
        BY <1>1, ConcatProperties
    <2>2. \A k \in DOMAIN c : \/ \E j \in DOMAIN low : c[k] = low[j]
                              \/ \E j \in DOMAIN rows : c[k] = rows[j]
        BY BlocksOfConcat
    <2> HIDE DEF c
    <2>3. i \in DOMAIN (c \o rest)
        BY <2>1
    <2>4. (\E j \in DOMAIN c : main'[i] = c[j]) \/ (\E j \in DOMAIN rest : main'[i] = rest[j])
        BY <2>1, <2>3, BlocksOfConcat
    <2>5. QED
        BY <1>3, <1>4, <2>2, <2>4
<1>6. QED
    BY <1>1, <1>5

\* Blocks without a payment twice.
LEMMA WholeNext ==
    ASSUME TypeInv, CallInv, Listed, Taken, BlocksWhole, [Next]_vars
    PROVE  BlocksWhole'
<1>1. \A s : Once(s) => \A i, j \in DOMAIN s : i # j /\ s[i] = s[j] => s[i] \in crossed'
    BY ListedNext DEF Once
<1>2. \A bs : Whole(bs) => \A i \in DOMAIN bs : \A k, j \in DOMAIN bs[i].txs :
            k # j /\ bs[i].txs[k] = bs[i].txs[j] => bs[i].txs[k] \in crossed'
    BY <1>1 DEF Whole
<1>3. main' = main => Whole(main)'
    BY <1>2 DEF BlocksWhole, Whole, Once
<1>4. base' = base => Whole(base)'
    BY <1>2 DEF BlocksWhole, Whole, Once
<1>5. \A t \in Threads : fork'[t] = fork[t] => Whole(fork[t].blocks)'
    BY <1>2 DEF BlocksWhole, Whole, Once
<1>6. ASSUME main' = main, base' = base, fork' = fork PROVE BlocksWhole'
    BY <1>3, <1>4, <1>5, <1>6 DEF BlocksWhole
<1>7. ASSUME NEW t \in Threads, NEW f, Verifies(t, f), NewBlocks(f) PROVE BlocksWhole'
    <2>1. /\ fork' = [fork EXCEPT ![t] = f] /\ fork \in [Threads -> ForkType]
          /\ main' = main /\ base' = base /\ crossed' = crossed
        BY <1>7 DEF Verifies, Verified, TypeInv, minerVars
    <2>2. fork'[t] = f /\ \A u \in Threads \ {t} : fork'[u] = fork[u]
        BY <2>1
    <2>3. ASSUME NEW i \in DOMAIN f.blocks PROVE Once(f.blocks[i].txs)
        <3>1. CASE IsInjective(f.blocks[i].txs)
            BY <3>1 DEF IsInjective, Once
        <3>2. CASE f.blocks[i].txs = trans
            BY <3>2 DEF Taken
        <3>3. CASE \E j \in DOMAIN base : f.blocks[i] = base[j]
            BY <3>3 DEF BlocksWhole, Whole
        <3>4. QED
            BY <1>7, <3>1, <3>2, <3>3 DEF NewBlocks
    <2>4. Whole(fork[t].blocks)'
        BY <2>1, <2>2, <2>3 DEF Whole, Once
    <2>5. \A u \in Threads : Whole(fork[u].blocks)'
        BY <1>5, <2>2, <2>4
    <2>6. QED
        BY <1>3, <1>4, <2>1, <2>5 DEF BlocksWhole
<1>8. ASSUME NEW t \in Threads, ApplyFork(t) PROVE BlocksWhole'
    <2>1. /\ fork' = [fork EXCEPT ![t] = NoFork] /\ fork \in [Threads -> ForkType]
          /\ base' = base /\ crossed' = crossed
        BY <1>8 DEF ApplyFork, TypeInv, minerVars
    <2>2. fork'[t] = NoFork /\ \A u \in Threads \ {t} : fork'[u] = fork[u]
        BY <2>1
    <2>3. Whole(fork[t].blocks)'
        BY <2>2 DEF Whole, NoFork
    <2>4. \A u \in Threads : Whole(fork[u].blocks)'
        BY <1>5, <2>2, <2>3
    <2>5. \A i \in DOMAIN main' : Once(main'[i].txs)
        BY <1>8, ApplyBlocks DEF BlocksWhole, Whole
    <2>6. Whole(main)'
        BY <2>1, <2>5 DEF Whole, Once
    <2>7. QED
        BY <1>4, <2>1, <2>4, <2>6 DEF BlocksWhole
<1>9. ASSUME BuildNewBlock PROVE BlocksWhole'
    <2>1. main' = main /\ base' = main /\ fork' = fork
        BY <1>9 DEF BuildNewBlock, poolVars, threadVars
    <2>2. Whole(base)'
        BY <1>2, <2>1 DEF BlocksWhole, Whole, Once
    <2>3. QED
        BY <1>3, <1>5, <2>1, <2>2 DEF BlocksWhole
<1>10. ASSUME NEW t \in Threads, Step(t) PROVE BlocksWhole'
    <2>1. CASE ApplyFork(t)
        BY <1>8, <2>1
    <2>2. CASE ~ ApplyFork(t)
        <3>1. main' = main /\ base' = base /\ fork' = fork
            BY <1>10, <2>2 DEF Step, Push, ReadTransactions, PutBack, Delete, poolVars, minerVars
        <3>2. QED
            BY <1>6, <3>1
    <2>3. QED
        BY <2>1, <2>2
<1>11. ASSUME (\E p \in Payments : Receive(p)) \/ PutTxInBlock \/ PutTxInBlockEnds \/ UNCHANGED vars
       PROVE  BlocksWhole'
    <2>1. main' = main /\ base' = base /\ fork' = fork
        BY <1>11 DEF Receive, PutTxInBlock, PutTxInBlockEnds, vars, poolVars, threadVars, minerVars
    <2>2. QED
        BY <1>6, <2>1
<1>12. QED
    BY <1>7, <1>9, <1>10, <1>11, NextActs DEF Acts

\* What fits is neither in the chain below the fork nor in a lower block of it.
LEMMA FitsApart ==
    ASSUME main \in Seq(BlockType), NEW f \in ForkType, f.start \in 1 .. Len(main) + 1, Fits(f)
    PROVE  \A i \in DOMAIN f.blocks : \A p : Has(f.blocks[i], p) =>
                /\ \A j \in DOMAIN Below(f.start) : ~ Has(Below(f.start)[j], p)
                /\ \A j \in DOMAIN f.blocks : j < i => ~ Has(f.blocks[j], p)
<1> DEFINE start == f.start
           blocks == f.blocks
           low == Below(start)
<1>1. start \in 1 .. Len(main) + 1 /\ blocks \in Seq(BlockType) /\ low = SubSeq(main, 1, start - 1)
    BY DEF ForkType, Below
<1>2. low \in Seq(BlockType)
    <2> HIDE DEF start, low
    <2>1. QED
        BY <1>1, Parts
<1>3. SUFFICES ASSUME NEW i \in DOMAIN blocks, NEW p, Has(blocks[i], p)
               PROVE  /\ \A j \in DOMAIN low : ~ Has(low[j], p)
                      /\ \A j \in DOMAIN blocks : j < i => ~ Has(blocks[j], p)
    OBVIOUS
<1> DEFINE upper == SubSeq(blocks, 1, i - 1)
<1>4. p \notin ToSet(TxsOf(low \o upper))
    <2>1. p \in ToSet(blocks[i].txs)
        BY <1>3 DEF Has, ToSet
    <2>2. QED
        BY <2>1 DEF Fits
<1> HIDE DEF start, blocks, low
<1>5. /\ Len(blocks) \in Nat /\ DOMAIN blocks = 1 .. Len(blocks) /\ i \in 1 .. Len(blocks) + 1
      /\ i \in 1 .. Len(blocks)
    BY <1>1
<1>6. upper \in Seq(BlockType) /\ Len(upper) = i - 1 /\ \A j \in 1 .. i - 1 : upper[j] = blocks[j]
    BY <1>1, <1>5, Parts
<1> HIDE DEF upper
<1>7. low \o upper \in Seq(BlockType)
    BY <1>2, <1>6, ConcatProperties
<1>8. ~ Carries(low, p) /\ ~ Carries(upper, p)
    <2>1. ~ Carries(low \o upper, p)
        BY <1>4, <1>7, TxsOfBlocks
    <2>2. QED
        BY <1>2, <1>6, <2>1, CarriesConcat
<1>9. \A j \in DOMAIN low : ~ Has(low[j], p)
    BY <1>8 DEF Carries, Has
<1>10. ASSUME NEW j \in DOMAIN blocks, j < i PROVE ~ Has(blocks[j], p)
    <2>1. j \in 1 .. i - 1 /\ DOMAIN upper = 1 .. i - 1
        BY <1>5, <1>6, <1>10
    <2>2. QED
        BY <1>6, <1>8, <2>1 DEF Carries, Has
<1>11. QED
    BY <1>9, <1>10

LEMMA ApartNext ==
    ASSUME TypeInv, CallInv, ChainApart, ForksFit, [Next]_vars
    PROVE  ChainApart'
<1>1. ASSUME main' = main, torn' = torn PROVE ChainApart'
    BY <1>1 DEF ChainApart
<1>2. ASSUME NEW t \in Threads, ApplyFork(t) PROVE ChainApart'
    <2>1. SUFFICES ASSUME ~ torn',
                          NEW i \in DOMAIN main', NEW j \in DOMAIN main', i < j,
                          NEW p \in Payments, Has(main'[i], p), Has(main'[j], p)
                   PROVE  FALSE
        BY DEF ChainApart
    <2>2. PICK low \in Seq(BlockType), rows \in Seq(BlockType), rest \in Seq(BlockType) :
            /\ low = Below(fork[t].start) /\ rows = fork[t].blocks
            /\ rest = From(fork[t].start + Len(rows))
            /\ main' = (low \o rows) \o rest
        BY <1>2, ApplyEffect, SMTT(60)
    <2>3. ~ torn /\ t \notin raced /\ rest = <<>>
        BY <1>2, <2>1, <2>2 DEF ApplyFork
    <2>4. main' = low \o rows /\ Len(low) \in Nat
        <3>1. low \o rows \in Seq(BlockType)
            BY <2>2, ConcatProperties
        <3>2. (low \o rows) \o <<>> = low \o rows
            BY <3>1, ConcatEmptySeq, SMTT(60)
        <3>3. main' = low \o rows
            BY <2>2, <2>3, <3>2
        <3>4. low \in Seq(BlockType)
            BY <2>2
        <3>5. Len(low) \in Nat
            BY <3>4
        <3>6. QED
            BY <3>3, <3>5
    <2>5. /\ InHandleBlock(t) /\ main \in Seq(BlockType) /\ fork[t] \in ForkType
          /\ fork[t].start \in 1 .. Len(main) + 1
        BY <1>2, CallsByThread DEF TypeInv, OwnCall, ApplyFork
    <2>6. Fits(fork[t])
        BY <2>3, <2>5 DEF ForksFit
    <2>7. /\ \A k \in DOMAIN rows : Has(rows[k], p) => \A l \in DOMAIN low : ~ Has(low[l], p)
          /\ \A k, l \in DOMAIN rows : l < k /\ Has(rows[k], p) => ~ Has(rows[l], p)
        BY <2>2, <2>5, <2>6, FitsApart
    <2>8. \A k, l \in DOMAIN low : k < l => ~ (Has(low[k], p) /\ Has(low[l], p))
        <3> DEFINE start == fork[t].start
        <3>1. start \in 1 .. Len(main) + 1 /\ low = SubSeq(main, 1, start - 1)
            BY <2>2, <2>5 DEF Below
        <3> HIDE DEF start
        <3>2. Len(low) = start - 1 /\ \A k \in 1 .. start - 1 : low[k] = main[k]
            BY <2>5, <3>1, Parts
        <3>3. DOMAIN low = 1 .. start - 1 /\ DOMAIN main = 1 .. Len(main) /\ Len(main) \in Nat
            BY <2>2, <2>5, <3>2
        <3>4. \A k \in DOMAIN low : k \in DOMAIN main /\ low[k] = main[k]
            BY <3>1, <3>2, <3>3
        <3>5. QED
            BY <2>1, <2>3, <3>4 DEF ChainApart
    <2>9. ASSUME NEW k \in {i, j}
          PROVE  \/ k \in DOMAIN low /\ main'[k] = low[k]
                 \/ k - Len(low) \in DOMAIN rows /\ Len(low) < k /\ main'[k] = rows[k - Len(low)]
        <3>1. k \in DOMAIN (low \o rows)
            BY <2>1, <2>4
        <3>2. \/ k \in DOMAIN low /\ (low \o rows)[k] = low[k]
              \/ k - Len(low) \in DOMAIN rows /\ Len(low) < k /\ (low \o rows)[k] = rows[k - Len(low)]
            BY <3>1, BlocksOfConcat, SMTT(60)
        <3>3. QED
            BY <2>4, <3>2
    <2>10. DOMAIN low = 1 .. Len(low) /\ i \in Int /\ j \in Int
        <3>1. main' \in Seq(BlockType)
            BY <2>2, <2>4, ConcatProperties
        <3>2. QED
            BY <2>1, <2>2, <3>1
    <2>11. CASE i \in DOMAIN low /\ main'[i] = low[i]
        <3>1. CASE j \in DOMAIN low /\ main'[j] = low[j]
            BY <2>1, <2>8, <2>11, <3>1
        <3>2. CASE j - Len(low) \in DOMAIN rows /\ main'[j] = rows[j - Len(low)]
            BY <2>1, <2>7, <2>11, <3>2
        <3>3. QED
            BY <2>9, <3>1, <3>2
    <2>12. CASE i - Len(low) \in DOMAIN rows /\ Len(low) < i /\ main'[i] = rows[i - Len(low)]
        <3>1. j \notin DOMAIN low /\ i - Len(low) < j - Len(low)
            BY <2>1, <2>4, <2>10, <2>12
        <3>2. j - Len(low) \in DOMAIN rows /\ main'[j] = rows[j - Len(low)]
            BY <2>9, <3>1
        <3>3. QED
            BY <2>1, <2>7, <2>12, <3>1, <3>2
    <2>13. QED
        BY <2>9, <2>11, <2>12
<1>3. ASSUME NEW t \in Threads, Step(t) PROVE ChainApart'
    <2>1. CASE ApplyFork(t)
        BY <1>2, <2>1
    <2>2. CASE ~ ApplyFork(t)
        <3>1. main' = main /\ torn' = torn
            BY <1>3, <2>2 DEF Step, Push, ReadTransactions, PutBack, Delete, poolVars, history
        <3>2. QED
            BY <1>1, <3>1
    <2>3. QED
        BY <2>1, <2>2
<1>4. ASSUME \/ \E p \in Payments : Receive(p)
             \/ \E t \in Threads : \E f : Verifies(t, f)
             \/ BuildNewBlock \/ PutTxInBlock \/ PutTxInBlockEnds \/ UNCHANGED vars
      PROVE  ChainApart'
    <2>1. main' = main /\ torn' = torn
        BY <1>4 DEF Receive, Verifies, BuildNewBlock, PutTxInBlock, PutTxInBlockEnds, vars, poolVars, history
    <2>2. QED
        BY <1>1, <2>1
<1>5. QED
    BY <1>3, <1>4, NextActs DEF Acts

LEMMA FitNext ==
    ASSUME TypeInv, CallInv, ForksFit, [Next]_vars
    PROVE  ForksFit'
<1>1. ASSUME main' = main, fork' = fork, raced \subseteq raced' PROVE ForksFit'
    BY <1>1 DEF ForksFit, InHandleBlock, Fits, Below
<1>2. ASSUME NEW t \in Threads, NEW f, Verifies(t, f) PROVE ForksFit'
    <2>1. /\ fork' = [fork EXCEPT ![t] = f] /\ fork \in [Threads -> ForkType]
          /\ main' = main /\ raced' = raced \ {t} /\ Fits(f)
        BY <1>2 DEF Verifies, Verified, TypeInv
    <2>2. fork'[t] = f /\ \A u \in Threads \ {t} : fork'[u] = fork[u]
        BY <2>1
    <2>3. \A u \in Threads \ {t} : InHandleBlock(u)' /\ u \notin raced' => Fits(fork[u])
        BY <2>1, <2>2 DEF ForksFit, InHandleBlock
    <2>4. \A u \in Threads : InHandleBlock(u)' /\ u \notin raced' => Fits(fork[u])'
        BY <2>1, <2>2, <2>3 DEF Fits, Below
    <2>5. QED
        BY <2>4 DEF ForksFit
<1>3. ASSUME NEW t \in Threads, ApplyFork(t) PROVE ForksFit'
    <2>1. /\ fork' = [fork EXCEPT ![t] = NoFork] /\ fork \in [Threads -> ForkType]
          /\ raced' = {u \in {Other(t)} : InHandleBlock(u)}
        BY <1>3 DEF ApplyFork, TypeInv
    <2>2. fork'[t] = NoFork /\ \A u \in Threads \ {t} : fork'[u] = fork[u]
        BY <2>1
    <2>3. \A u \in Threads \ {t} : u = Other(t)
        <3>1. \E u \in Threads : u # t
            BY DEF Threads
        <3>2. Other(t) \in Threads /\ Other(t) # t
            BY <3>1 DEF Other
        <3>3. QED
            BY <3>2 DEF Threads
    <2>4. \A u \in Threads : InHandleBlock(u)' => u \in raced'
        BY <2>1, <2>2, <2>3 DEF InHandleBlock
    <2>5. QED
        BY <2>4 DEF ForksFit
<1>4. ASSUME NEW t \in Threads, Step(t) PROVE ForksFit'
    <2>1. CASE ApplyFork(t)
        BY <1>3, <2>1
    <2>2. CASE ~ ApplyFork(t)
        <3>1. main' = main /\ fork' = fork /\ raced' = raced
            BY <1>4, <2>2 DEF Step, Push, ReadTransactions, PutBack, Delete, poolVars, history
        <3>2. QED
            BY <1>1, <3>1
    <2>3. QED
        BY <2>1, <2>2
<1>5. ASSUME \/ \E p \in Payments : Receive(p)
             \/ BuildNewBlock \/ PutTxInBlock \/ PutTxInBlockEnds \/ UNCHANGED vars
      PROVE  ForksFit'
    <2>1. main' = main /\ fork' = fork /\ raced \subseteq raced'
        BY <1>5 DEF Receive, BuildNewBlock, PutTxInBlock, PutTxInBlockEnds, vars, poolVars, threadVars, history
    <2>2. QED
        BY <1>1, <2>1
<1>6. QED
    BY <1>2, <1>4, <1>5, NextActs DEF Acts

\* No payment is in the chain twice unless it was in the mempool twice, or a
\* fork was written that had been verified against another chain, or that was
\* shorter than what it replaced.
THEOREM PaidOnceAlways == Spec => []PaidOnce
<1>1. Init => PaidInv
    <2>1. SUFFICES ASSUME Init PROVE PaidInv
        OBVIOUS
    <2>2. TypeInv /\ CallInv
        BY <2>1, InitLost DEF LostInv
    <2>3. main = <<Genesis>> /\ Genesis.txs = <<>>
        BY <2>1 DEF Init, Genesis, Block
    <2>4. Listed /\ Taken /\ ForksFit
        BY <2>1 DEF Init, Listed, Taken, ForksFit, Once, InHandleBlock
    <2>5. Whole(main)
        BY <2>3 DEF Whole, Once
    <2>6. Whole(base) /\ \A t \in Threads : Whole(fork[t].blocks)
        BY <2>1 DEF Init, Whole, NoFork
    <2>7. ChainApart
        BY <2>3 DEF ChainApart, Has
    <2>8. QED
        BY <2>2, <2>4, <2>5, <2>6, <2>7 DEF PaidInv, BlocksWhole
<1>2. PaidInv /\ [Next]_vars => PaidInv'
    BY CallNext, ListedNext, TakenNext, WholeNext, ApartNext, FitNext DEF PaidInv
<1>3. PaidInv => PaidOnce
    <2>1. SUFFICES ASSUME PaidInv, ~ torn, NEW p \in Payments, Times(p) > 1 PROVE p \in crossed
        BY DEF PaidOnce
    <2> DEFINE txs == TxsOf(main)
               at == {i \in DOMAIN txs : txs[i] = p}
    <2>2. \E a, b \in at : a # b
        <3>1. SUFFICES ASSUME \A a, b \in at : a = b PROVE FALSE
            OBVIOUS
        <3>2. at = {} \/ \E a \in at : at = {a}
            <4> HIDE DEF at
            <4>1. QED
                BY <3>1
        <3>3. Cardinality(at) > 1
            BY <2>1 DEF Times
        <3> HIDE DEF at
        <3>4. Cardinality(at) = 0 \/ Cardinality(at) = 1
            BY <3>2, FS_EmptySet, FS_Singleton
        <3>5. QED
            BY <3>3, <3>4
    <2>3. PaysTwice(main, p)
        BY <2>1, <2>2, TxsOfBlocks DEF PaidInv, TypeInv
    <2>4. CASE \E i \in DOMAIN main : \E j, k \in DOMAIN main[i].txs :
                    j # k /\ main[i].txs[j] = p /\ main[i].txs[k] = p
        BY <2>1, <2>4 DEF PaidInv, BlocksWhole, Whole, Once
    <2>5. CASE \E i, j \in DOMAIN main : i < j /\ Has(main[i], p) /\ Has(main[j], p)
        BY <2>1, <2>5 DEF PaidInv, ChainApart
    <2>6. QED
        BY <2>3, <2>4, <2>5 DEF PaysTwice
<1>4. QED
    BY <1>1, <1>2, <1>3, PTL DEF Spec
=============================================================================
