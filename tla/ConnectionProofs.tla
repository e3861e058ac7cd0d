--------------------------- MODULE ConnectionProofs ---------------------------
(***************************************************************************)
(* What the two ends of a connection take for messages is what was sent,   *)
(* however the network cuts the stream and with any number of messages     *)
(* (Connection), and no table of connections keeps a deleted one, for any  *)
(* number of nodes, connections and faults (Peers).                        *)
(*                                                                         *)
(* The invariant of a connection says of each end where it is in its       *)
(* stream (Place), that the pieces still in the stream are those of the    *)
(* messages the other end sent and this one has not handled, each whole,   *)
(* in order and none missing (Whole, FromSent, InOrder, AllThere), and     *)
(* that the greeting comes first (Waits, Writer).  Place is what the code  *)
(* relies on when it keeps the type and the length of a message from one   *)
(* readyRead to the next.                                                  *)
(***************************************************************************)
EXTENDS ConnectionProperties, PeersProperties, SequenceTheorems, TLAPS

(* The pieces of a stream.                                                 *)

Types ==
  AppTypes \cup KeepAlive
      \cup {"GREETING", "PUBLICKEY_REQUEST", "PUBLICKEY_RESPONSE", "BLOCK_RESPONSE"}
Messages == [type : Types, n : Nat]
LastAt(m) == Header + Size(m)
PieceSet == {p \in [of : Messages, at : 1 .. 6] : p.at <= LastAt(p.of)}
Kept(m) == m.type \notin KeepAlive

\* A stream holds the pieces of each message one after the other, up to the
\* last one.
Whole(s) ==
    /\ \A i \in 1 .. Len(s) - 1 :
        IF s[i].at < LastAt(s[i].of) THEN s[i + 1] = [of |-> s[i].of, at |-> s[i].at + 1]
        ELSE s[i + 1].at = 1
    /\ s # <<>> => s[Len(s)].at = LastAt(s[Len(s)].of)

\* What it holds was sent, and is not among the first g messages,
FromSent(s, out, g) ==
    \A i \in 1 .. Len(s) : Kept(s[i].of) =>
        s[i].of.n \in g + 1 .. Len(out) /\ out[s[i].of.n] = s[i].of

\* comes in the order in which it was sent,
InOrder(s) ==
    \A i, j \in 1 .. Len(s) : (i < j /\ Kept(s[i].of) /\ Kept(s[j].of)) =>
        /\ s[i].of.n <= s[j].of.n
        /\ s[i].at = LastAt(s[i].of) => s[i].of.n < s[j].of.n

\* and none of the others is missing.
AllThere(s, out, g) ==
    \A k \in g + 1 .. Len(out) :
        \E i \in 1 .. Len(s) : s[i] = [of |-> out[k], at |-> LastAt(out[k])]

-----------------------------------------------------------------------------

LEMMA SizeOf ==
  ASSUME NEW m
  PROVE  Size(m) \in {1, 2} /\ LastAt(m) \in {5, 6} /\ LastAt(m) = Header + Size(m)
  BY DEF Size, LastAt, Header

LEMMA PiecesOf ==
  ASSUME NEW m \in Messages
  PROVE  /\ Pieces(m) \in Seq(PieceSet)
         /\ Len(Pieces(m)) = LastAt(m)
         /\ \A i \in 1 .. LastAt(m) : Pieces(m)[i] = [of |-> m, at |-> i]
<1>1. LastAt(m) \in {5, 6}
  BY SizeOf
<1>2. \A i \in 1 .. LastAt(m) : [of |-> m, at |-> i] \in PieceSet
  BY <1>1 DEF PieceSet
<1>3. Pieces(m) = [i \in 1 .. LastAt(m) |-> [of |-> m, at |-> i]]
  BY DEF Pieces, LastAt
<1>4. QED
  BY <1>1, <1>2, <1>3

LEMMA RestOf ==
  ASSUME NEW s \in Seq(PieceSet), NEW k \in 0 .. Len(s)
  PROVE  LET t == SubSeq(s, k + 1, Len(s))
         IN  /\ t \in Seq(PieceSet) /\ Len(t) = Len(s) - k
             /\ \A i \in 1 .. Len(s) - k : t[i] = s[i + k]
<1>1. \A i \in k + 1 .. Len(s) : s[i] \in PieceSet
  OBVIOUS
<1>2. QED
  BY <1>1, SubSeqProperties

\* Reading pieces off the front leaves the order as it is.
LEMMA RestKeeps ==
  ASSUME NEW s \in Seq(PieceSet), NEW k \in 0 .. Len(s), NEW out \in Seq(Messages), NEW g \in Nat,
         Whole(s), FromSent(s, out, g), InOrder(s)
  PROVE  LET t == SubSeq(s, k + 1, Len(s))
         IN  Whole(t) /\ FromSent(t, out, g) /\ InOrder(t)
<1> DEFINE t == SubSeq(s, k + 1, Len(s))
<1>1. t \in Seq(PieceSet) /\ Len(t) = Len(s) - k /\ \A i \in 1 .. Len(s) - k : t[i] = s[i + k]
  BY RestOf
<1> HIDE DEF t
<1>0. Len(s) \in Nat /\ Len(t) \in Nat
  BY <1>1
<1>2. Whole(t)
  <2>1. ASSUME NEW i \in 1 .. Len(t) - 1
        PROVE  t[i] = s[i + k] /\ t[i + 1] = s[(i + k) + 1] /\ i + k \in 1 .. Len(s) - 1
    <3>1. /\ i \in 1 .. Len(s) - k /\ i + 1 \in 1 .. Len(s) - k
          /\ i + k \in 1 .. Len(s) - 1 /\ (i + 1) + k = (i + k) + 1
      BY <1>0, <1>1
    <3>2. t[i] = s[i + k] /\ t[i + 1] = s[(i + 1) + k]
      BY <1>1, <3>1
    <3>3. QED
      BY <3>1, <3>2
  <2>2. ASSUME t # <<>>
        PROVE  t[Len(t)] = s[Len(s)] /\ s # <<>>
    BY <1>0, <1>1, <2>2
  <2>3. QED
    BY <2>1, <2>2 DEF Whole
<1>3. \A i \in 1 .. Len(t) : t[i] = s[i + k] /\ i + k \in 1 .. Len(s)
  BY <1>0, <1>1
<1>4. FromSent(t, out, g)
  BY <1>3 DEF FromSent
<1>5. InOrder(t)
  <2> SUFFICES ASSUME NEW i \in 1 .. Len(t), NEW j \in 1 .. Len(t), i < j, Kept(t[i].of), Kept(t[j].of)
               PROVE  /\ t[i].of.n <= t[j].of.n
                      /\ t[i].at = LastAt(t[i].of) => t[i].of.n < t[j].of.n
    BY DEF InOrder
  <2>1. t[i] = s[i + k] /\ i + k \in 1 .. Len(s) /\ t[j] = s[j + k] /\ j + k \in 1 .. Len(s)
        /\ i + k < j + k
    BY <1>3
  <2>2. QED
    BY <2>1 DEF InOrder
<1>6. QED
  BY <1>2, <1>4, <1>5 DEF t

\* Nothing is missing afterwards unless a message was read to its end.
LEMMA RestHasAll ==
  ASSUME NEW s \in Seq(PieceSet), NEW k \in 0 .. Len(s), NEW out \in Seq(Messages), NEW g \in Nat,
         AllThere(s, out, g), \A i \in 1 .. Len(out) : Kept(out[i]),
         \A i \in 1 .. k : s[i].at # LastAt(s[i].of) \/ ~ Kept(s[i].of)
  PROVE  AllThere(SubSeq(s, k + 1, Len(s)), out, g)
<1> DEFINE t == SubSeq(s, k + 1, Len(s))
<1>1. t \in Seq(PieceSet) /\ Len(t) = Len(s) - k /\ \A i \in 1 .. Len(s) - k : t[i] = s[i + k]
  BY RestOf
<1> HIDE DEF t
<1> SUFFICES ASSUME NEW j \in g + 1 .. Len(out)
             PROVE  \E i \in 1 .. Len(t) : t[i] = [of |-> out[j], at |-> LastAt(out[j])]
  BY DEF AllThere, t
<1>2. PICK i \in 1 .. Len(s) : s[i] = [of |-> out[j], at |-> LastAt(out[j])]
  BY DEF AllThere
<1>3. i \notin 1 .. k
  BY <1>2
<1>4. i - k \in 1 .. Len(t) /\ t[i - k] = s[i]
  BY <1>1, <1>3
<1>5. QED
  BY <1>2, <1>4

\* The message that is read next is the one after the first g.
LEMMA NextInStream ==
  ASSUME NEW s \in Seq(PieceSet), NEW out \in Seq(Messages), NEW g \in Nat, s # <<>>,
         FromSent(s, out, g), InOrder(s), AllThere(s, out, g),
         \A k \in 1 .. Len(out) : out[k].n = k /\ Kept(out[k]),
         Kept(s[1].of)
  PROVE  g + 1 \in 1 .. Len(out) /\ s[1].of = out[g + 1] /\ s[1].of.n = g + 1
<1>0. Len(s) \in Nat /\ Len(s) # 0 /\ Len(out) \in Nat /\ 1 \in 1 .. Len(s)
  OBVIOUS
<1>1. s[1].of.n \in g + 1 .. Len(out) /\ out[s[1].of.n] = s[1].of
  BY <1>0 DEF FromSent
<1>2. g + 1 \in g + 1 .. Len(out) /\ g + 1 \in 1 .. Len(out)
  BY <1>0, <1>1
<1>3. PICK i \in 1 .. Len(s) : s[i] = [of |-> out[g + 1], at |-> LastAt(out[g + 1])]
  BY <1>2 DEF AllThere
<1>4. s[i].of = out[g + 1] /\ s[i].of.n = g + 1 /\ Kept(s[i].of)
  BY <1>2, <1>3
<1>5. s[1].of.n <= g + 1
  <2>1. CASE i = 1
    BY <2>1, <1>4
  <2>2. CASE 1 < i
    BY <2>2, <1>0, <1>4 DEF InOrder
  <2>3. QED
    BY <2>1, <2>2
<1>6. s[1].of.n = g + 1
  BY <1>0, <1>1, <1>5
<1>7. QED
  BY <1>1, <1>2, <1>6

\* The payload of the message at the front is what its length says.
LEMMA FrontPayload ==
  ASSUME NEW s \in Seq(PieceSet), s # <<>>, Whole(s), s[1].at = Header + 1
  PROVE  LET m == s[1].of
         IN  /\ Size(m) <= Len(s)
             /\ \A i \in 1 .. Size(m) : s[i] = [of |-> m, at |-> Header + i]
             /\ SubSeq(s, 1, Size(m)) = Payload(m)
<1> DEFINE m == s[1].of
<1>n. Len(s) \in Nat /\ Len(s) # 0 /\ Header = 4
  BY DEF Header
<1>0. s[1] \in PieceSet /\ m \in Messages
  BY <1>n DEF PieceSet
<1>1. s[1] = [of |-> m, at |-> Header + 1]
  BY <1>0 DEF PieceSet
<1>2. Size(m) \in {1, 2} /\ LastAt(m) = Header + Size(m)
  BY SizeOf
<1>3. ASSUME Size(m) = 2
      PROVE  Len(s) >= 2 /\ s[2] = [of |-> m, at |-> Header + 2]
  <2>1. s[1].at < LastAt(s[1].of)
    BY <1>n, <1>2, <1>3
  <2>2. Len(s) # 1
    <3>1. Len(s) = 1 => s[1].at = LastAt(s[1].of)
      BY DEF Whole
    <3>2. s[1].at # LastAt(s[1].of)
      BY <1>n, <1>2, <1>3
    <3>3. QED
      BY <3>1, <3>2
  <2>2a. Len(s) >= 2
    <3>1. \A n \in Nat : n # 0 /\ n # 1 => n >= 2
      OBVIOUS
    <3>2. QED
      BY <1>n, <2>2, <3>1
  <2>3. 1 \in 1 .. Len(s) - 1
    BY <1>n, <2>2a
  <2>4. s[1 + 1] = [of |-> m, at |-> s[1].at + 1]
    BY <2>1, <2>3 DEF Whole
  <2>5. QED
    <3>1. s[2] = [of |-> m, at |-> s[1].at + 1] /\ s[1].at + 1 = Header + 2
      BY <2>4, <1>n
    <3>2. QED
      BY <2>2a, <3>1
<1>4. Size(m) <= Len(s) /\ \A i \in 1 .. Size(m) : s[i] = [of |-> m, at |-> Header + i]
  BY <1>n, <1>1, <1>2, <1>3
<1>5. SubSeq(s, 1, Size(m)) = Payload(m)
  <2> DEFINE a == SubSeq(s, 1, Size(m))
             b == SubSeq(Pieces(m), Header + 1, Header + Size(m))
  <2>1. a \in Seq(PieceSet) /\ Len(a) = Size(m) /\ \A i \in 1 .. Size(m) : a[i] = s[i]
    <3>1. \A i \in 1 .. Size(m) : s[i] \in PieceSet
      BY <1>n, <1>0, <1>2, <1>4
    <3>2. QED
      BY <3>1, <1>2, SubSeqProperties
  <2>2. b \in Seq(PieceSet) /\ Len(b) = Size(m)
        /\ \A i \in 1 .. Size(m) : b[i] = Pieces(m)[Header + i]
    <3>1. Pieces(m) \in Seq(PieceSet) /\ Len(Pieces(m)) = Header + Size(m)
      BY <1>n, <1>0, <1>2, PiecesOf
    <3>2. \A i \in Header + 1 .. Header + Size(m) : Pieces(m)[i] \in PieceSet
      BY <3>1, <1>n, <1>2
    <3>3. QED
      BY <3>2, <1>n, <1>2, SubSeqProperties
  <2>3. \A i \in 1 .. Size(m) : Pieces(m)[Header + i] = [of |-> m, at |-> Header + i]
    BY <1>n, <1>0, <1>2, PiecesOf
  <2>3a. \A i \in 1 .. Size(m) : a[i] = b[i]
    BY <2>1, <2>2, <2>3, <1>4
  <2> HIDE DEF a, b, m
  <2>4. a = b
    BY <2>1, <2>2, <2>3a, SeqEqual
  <2>5. QED
    BY <2>4 DEF a, b, Payload
<1>6. QED
  BY <1>4, <1>5

\* A numbered message that is read to its end leaves the ones after it.
LEMMA TakeKeeps ==
  ASSUME NEW s \in Seq(PieceSet), NEW out \in Seq(Messages), NEW g \in Nat, s # <<>>,
         Whole(s), FromSent(s, out, g), InOrder(s), AllThere(s, out, g),
         \A k \in 1 .. Len(out) : out[k].n = k /\ Kept(out[k]),
         s[1].at = Header + 1, Kept(s[1].of)
  PROVE  LET t == SubSeq(s, Size(s[1].of) + 1, Len(s))
         IN  FromSent(t, out, g + 1) /\ AllThere(t, out, g + 1)
<1> DEFINE m == s[1].of
           k == Size(m)
           t == SubSeq(s, k + 1, Len(s))
<1>1. k \in {1, 2} /\ k <= Len(s) /\ \A i \in 1 .. k : s[i] = [of |-> m, at |-> Header + i]
  BY FrontPayload, SizeOf
<1>2. m = out[g + 1] /\ m.n = g + 1 /\ Kept(m)
  BY NextInStream
<1>3. k \in 1 .. Len(s) /\ s[k].of = m /\ s[k].at = LastAt(m)
  <2>1. k \in 1 .. Len(s) /\ s[k] = [of |-> m, at |-> Header + k]
    BY <1>1
  <2>2. LastAt(m) = Header + k
    BY DEF LastAt
  <2>3. QED
    BY <2>1, <2>2
<1> HIDE DEF m, k
<1>4. t \in Seq(PieceSet) /\ Len(t) = Len(s) - k /\ \A i \in 1 .. Len(s) - k : t[i] = s[i + k]
  BY <1>1, RestOf
<1> HIDE DEF t
<1>5. FromSent(t, out, g + 1)
  <2> SUFFICES ASSUME NEW i \in 1 .. Len(t), Kept(t[i].of)
               PROVE  t[i].of.n \in g + 1 + 1 .. Len(out) /\ out[t[i].of.n] = t[i].of
    BY DEF FromSent
  <2>1. t[i] = s[i + k] /\ i + k \in 1 .. Len(s) /\ k < i + k
    BY <1>1, <1>4
  <2>2. t[i].of.n \in g + 1 .. Len(out) /\ out[t[i].of.n] = t[i].of
    BY <2>1 DEF FromSent
  <2>3. s[k].of.n < s[i + k].of.n
    BY <1>2, <1>3, <2>1 DEF InOrder
  <2>4. g + 1 < t[i].of.n
    BY <1>2, <1>3, <2>1, <2>3
  <2>5. QED
    BY <2>2, <2>4
<1>6. AllThere(t, out, g + 1)
  <2> SUFFICES ASSUME NEW j \in g + 1 + 1 .. Len(out)
               PROVE  \E i \in 1 .. Len(t) : t[i] = [of |-> out[j], at |-> LastAt(out[j])]
    BY DEF AllThere
  <2>1. j \in g + 1 .. Len(out) /\ j \in 1 .. Len(out) /\ out[j].n = j
    OBVIOUS
  <2>2. PICK i \in 1 .. Len(s) : s[i] = [of |-> out[j], at |-> LastAt(out[j])]
    BY <2>1 DEF AllThere
  <2>3. i \notin 1 .. k
    <3>1. s[i].of.n = j
      BY <2>1, <2>2
    <3>2. \A h \in 1 .. k : s[h].of.n = g + 1
      <4>1. ASSUME NEW h \in 1 .. k PROVE s[h].of = m
        <5>1. s[h] = [of |-> m, at |-> Header + h]
          BY <1>1
        <5>2. QED
          BY <5>1
      <4>2. QED
        BY <4>1, <1>2
    <3>3. QED
      BY <3>1, <3>2
  <2>4. i - k \in 1 .. Len(t) /\ t[i - k] = s[i]
    BY <1>1, <1>4, <2>3
  <2>5. QED
    BY <2>2, <2>4
<1>7. QED
  BY <1>5, <1>6 DEF t, k, m

-----------------------------------------------------------------------------

\* One more message at the end of what was sent.
LEMMA OneMoreSent ==
  ASSUME NEW out \in Seq(Messages), NEW m \in Messages, m.n = Len(out) + 1, Kept(m),
         \A k \in 1 .. Len(out) : out[k].n = k /\ Kept(out[k])
  PROVE  LET o == Append(out, m)
         IN  /\ o \in Seq(Messages) /\ Len(o) = Len(out) + 1
             /\ \A k \in 1 .. Len(out) : o[k] = out[k]
             /\ o[Len(out) + 1] = m
             /\ \A k \in 1 .. Len(o) : o[k].n = k /\ Kept(o[k])
<1> DEFINE o == Append(out, m)
<1>1. /\ o \in Seq(Messages) /\ Len(o) = Len(out) + 1
      /\ \A k \in 1 .. Len(out) : o[k] = out[k]
      /\ o[Len(out) + 1] = m
  BY AppendProperties
<1> HIDE DEF o
<1>2. ASSUME NEW k \in 1 .. Len(o)
      PROVE  o[k].n = k /\ Kept(o[k])
  <2>1. CASE k \in 1 .. Len(out)
    BY <1>1, <2>1
  <2>2. CASE k = Len(out) + 1
    BY <1>1, <2>2
  <2>3. QED
    BY <1>1, <2>1, <2>2
<1>3. QED
  BY <1>1, <1>2 DEF o

\* A stream stays in order when a message is added to it, and to what was
\* sent if it has a number.
LEMMA OneMoreInStream ==
  ASSUME NEW s \in Seq(PieceSet), NEW out \in Seq(Messages), NEW g \in Nat, NEW m \in Messages,
         NEW o \in Seq(Messages),
         Whole(s), FromSent(s, out, g), InOrder(s), g <= Len(out),
         \/ ~ Kept(m) /\ o = out
         \/ /\ Kept(m) /\ m.n = Len(out) + 1
            /\ Len(o) = Len(out) + 1 /\ o[Len(out) + 1] = m
            /\ \A k \in 1 .. Len(out) : o[k] = out[k]
  PROVE  LET t == s \o Pieces(m)
         IN  /\ t \in Seq(PieceSet) /\ t # <<>>
             /\ s # <<>> => t[1] = s[1]
             /\ s = <<>> => t[1] = [of |-> m, at |-> 1]
             /\ Len(s) <= Len(t)
             /\ Whole(t) /\ FromSent(t, o, g) /\ InOrder(t)
             /\ AllThere(s, out, g) => AllThere(t, o, g)
<1> DEFINE p == Pieces(m)
           t == s \o p
           z == LastAt(m)
<1>1. p \in Seq(PieceSet) /\ Len(p) = z /\ \A i \in 1 .. z : p[i] = [of |-> m, at |-> i]
  BY PiecesOf
<1>2. z \in {5, 6}
  BY SizeOf
<1> HIDE DEF p
<1>3. /\ t \in Seq(PieceSet) /\ Len(t) = Len(s) + z
      /\ \A i \in 1 .. Len(s) + z : t[i] = IF i <= Len(s) THEN s[i] ELSE p[i - Len(s)]
  <2> HIDE DEF z
  <2>1. /\ t \in Seq(PieceSet) /\ Len(t) = Len(s) + Len(p)
        /\ \A i \in 1 .. Len(s) + Len(p) : t[i] = IF i <= Len(s) THEN s[i] ELSE p[i - Len(s)]
    BY <1>1, ConcatProperties, ZenonT(40)
  <2>2. Len(p) = z
    BY <1>1
  <2> HIDE DEF t
  <2>3. QED
    BY <2>1, <2>2
<1> HIDE DEF t
<1>n. PICK l \in Nat : l = Len(s)
  OBVIOUS
<1>4. /\ \A i \in 1 .. l : t[i] = s[i]
      /\ \A i \in l + 1 .. l + z : t[i] = [of |-> m, at |-> i - l]
      /\ Len(t) = l + z
  <2>1. \A i \in 1 .. l : t[i] = s[i]
    BY <1>3, <1>n, <1>2
  <2>2. ASSUME NEW i \in l + 1 .. l + z PROVE t[i] = [of |-> m, at |-> i - l]
    <3>1. i - l \in 1 .. z /\ t[i] = p[i - l]
      BY <1>3, <1>n, <1>2
    <3>2. QED
      BY <3>1, <1>1
  <2>3. QED
    BY <2>1, <2>2, <1>3, <1>n
<1> HIDE DEF z
<1>5. Whole(t)
  <2>1. ASSUME NEW i \in 1 .. Len(t) - 1
        PROVE  IF t[i].at < LastAt(t[i].of) THEN t[i + 1] = [of |-> t[i].of, at |-> t[i].at + 1]
               ELSE t[i + 1].at = 1
    <3>1. CASE i < l
      <4>1. t[i] = s[i] /\ t[i + 1] = s[i + 1] /\ i \in 1 .. Len(s) - 1
        BY <3>1, <1>4, <1>n
      <4>2. QED
        BY <4>1 DEF Whole
    <3>2. CASE i = l
      <4>1. t[i] = s[Len(s)] /\ s # <<>> /\ t[i + 1] = [of |-> m, at |-> 1]
        BY <3>2, <1>2, <1>4, <1>n
      <4>2. t[i].at = LastAt(t[i].of)
        BY <4>1 DEF Whole
      <4>3. LastAt(t[i].of) \in {5, 6}
        BY SizeOf
      <4>4. QED
        BY <4>1, <4>2, <4>3
    <3>3. CASE l < i
      <4>1. i \in l + 1 .. l + z /\ i + 1 \in l + 1 .. l + z
        BY <3>3, <1>2, <1>4, <1>n
      <4>2. t[i] = [of |-> m, at |-> i - l] /\ t[i + 1] = [of |-> m, at |-> (i + 1) - l]
        BY <4>1, <1>4
      <4>3. t[i].of = m /\ t[i].at = i - l
        <5>1. [of |-> m, at |-> i - l].of = m /\ [of |-> m, at |-> i - l].at = i - l
          OBVIOUS
        <5>2. QED
          BY <4>2, <5>1
      <4>4. i - l < z /\ (i + 1) - l = (i - l) + 1
        BY <4>1, <1>2, <1>n
      <4>5. LastAt(t[i].of) = z
        BY <4>3 DEF z
      <4>6. QED
        BY <4>2, <4>3, <4>4, <4>5
    <3>4. QED
      BY <3>1, <3>2, <3>3, <1>n
  <2>2. t[Len(t)].at = LastAt(t[Len(t)].of)
    <3>1. Len(t) \in l + 1 .. l + z /\ Len(t) - l = z
      BY <1>2, <1>4, <1>n
    <3>2. t[Len(t)] = [of |-> m, at |-> z]
      BY <3>1, <1>4
    <3>3. [of |-> m, at |-> z].of = m /\ [of |-> m, at |-> z].at = z
      OBVIOUS
    <3>4. t[Len(t)].of = m /\ t[Len(t)].at = z
      BY <3>2, <3>3
    <3>5. QED
      BY <3>4 DEF z
  <2>3. QED
    BY <2>1, <2>2 DEF Whole
<1>6. PICK u \in Nat : u = Len(out)
  OBVIOUS
<1>7. FromSent(t, o, g)
  <2> SUFFICES ASSUME NEW i \in 1 .. Len(t), Kept(t[i].of)
               PROVE  t[i].of.n \in g + 1 .. Len(o) /\ o[t[i].of.n] = t[i].of
    BY DEF FromSent
  <2>1. CASE i \in 1 .. l
    <3>1. t[i] = s[i] /\ i \in 1 .. Len(s)
      BY <2>1, <1>4, <1>n
    <3>2. s[i].of.n \in g + 1 .. u /\ out[s[i].of.n] = s[i].of
      BY <3>1, <1>6 DEF FromSent
    <3>3. QED
      BY <3>1, <3>2, <1>6
  <2>2. CASE i \in l + 1 .. l + z
    <3>1. t[i].of = m
      <4>1. [of |-> m, at |-> i - l].of = m
        OBVIOUS
      <4>2. QED
        BY <2>2, <1>4, <4>1
    <3>2. m.n = u + 1 /\ o[u + 1] = m /\ Len(o) = u + 1
      BY <3>1, <1>6
    <3>3. QED
      BY <3>1, <3>2, <1>6
  <2>3. QED
    BY <2>1, <2>2, <1>2, <1>4, <1>n
<1>8. InOrder(t)
  <2> SUFFICES ASSUME NEW i \in 1 .. Len(t), NEW j \in 1 .. Len(t), i < j, Kept(t[i].of), Kept(t[j].of)
               PROVE  /\ t[i].of.n <= t[j].of.n
                      /\ t[i].at = LastAt(t[i].of) => t[i].of.n < t[j].of.n
    BY DEF InOrder
  <2>1. CASE j \in 1 .. l
    <3>1. t[i] = s[i] /\ t[j] = s[j] /\ i \in 1 .. Len(s) /\ j \in 1 .. Len(s)
      BY <2>1, <1>4, <1>n
    <3>2. QED
      BY <3>1 DEF InOrder
  <2>2. CASE i \in 1 .. l /\ j \in l + 1 .. l + z
    <3>0. [of |-> m, at |-> j - l].of = m
      OBVIOUS
    <3>1. t[i] = s[i] /\ t[j].of = m /\ i \in 1 .. Len(s)
      BY <2>2, <1>4, <1>n, <3>0
    <3>2. s[i].of.n \in g + 1 .. u
      BY <3>1, <1>6 DEF FromSent
    <3>3. m.n = u + 1
      BY <3>1, <1>6
    <3>4. QED
      BY <3>1, <3>2, <3>3, <1>6
  <2>3. CASE i \in l + 1 .. l + z /\ j \in l + 1 .. l + z
    <3>1. t[i] = [of |-> m, at |-> i - l] /\ t[j] = [of |-> m, at |-> j - l]
      BY <2>3, <1>4
    <3>0. /\ [of |-> m, at |-> i - l].of = m /\ [of |-> m, at |-> i - l].at = i - l
          /\ [of |-> m, at |-> j - l].of = m
      OBVIOUS
    <3>2a. t[i].of = m /\ t[j].of = m /\ t[i].at = i - l
      BY <3>0, <3>1
    <3>2. t[i].of = m /\ t[j].of = m /\ t[i].at = i - l /\ i - l # z /\ m.n \in Nat
      BY <2>3, <3>2a, <1>2, <1>n DEF Messages
    <3>3. QED
      BY <3>2 DEF z
  <2>4. QED
    BY <2>1, <2>2, <2>3, <1>2, <1>4, <1>n
<1>9. ASSUME AllThere(s, out, g)
      PROVE  AllThere(t, o, g)
  <2> SUFFICES ASSUME NEW k \in g + 1 .. Len(o)
               PROVE  \E i \in 1 .. Len(t) : t[i] = [of |-> o[k], at |-> LastAt(o[k])]
    BY DEF AllThere
  <2>1. CASE k \in g + 1 .. u
    <3>1. k \in 1 .. Len(out) /\ k \in g + 1 .. Len(out) /\ o[k] = out[k]
      BY <2>1, <1>6
    <3>2. PICK i \in 1 .. Len(s) : s[i] = [of |-> out[k], at |-> LastAt(out[k])]
      BY <1>9, <3>1 DEF AllThere
    <3>3. i \in 1 .. Len(t) /\ t[i] = s[i]
      BY <1>2, <1>4, <1>n
    <3>4. QED
      BY <3>1, <3>2, <3>3
  <2>2. CASE k = u + 1 /\ Len(o) = u + 1
    <3>1. o[k] = m
      BY <2>2, <1>6
    <3>2. l + z \in 1 .. Len(t) /\ l + z \in l + 1 .. l + z /\ (l + z) - l = z
      BY <1>2, <1>4, <1>n
    <3>3. t[l + z] = [of |-> m, at |-> z]
      BY <3>2, <1>4
    <3>4. QED
      BY <3>1, <3>2, <3>3 DEF z
  <2>3. QED
    BY <2>1, <2>2, <1>6
<1>10. t # <<>> /\ (s # <<>> => t[1] = s[1]) /\ (s = <<>> => t[1] = [of |-> m, at |-> 1])
       /\ Len(s) <= Len(t)
  <2>1. s # <<>> => 1 \in 1 .. l
    BY <1>n
  <2>2. s = <<>> => 1 \in l + 1 .. l + z /\ 1 - l = 1
    BY <1>n, <1>2
  <2>3. t # <<>>
    BY <1>2, <1>4, <1>n
  <2>4. QED
    BY <2>1, <2>2, <2>3, <1>2, <1>4, <1>n
<1>11. QED
  BY <1>3, <1>5, <1>7, <1>8, <1>9, <1>10 DEF t, p

\* An end that is gone misses what is sent; what waits for it stays good.
LEMMA OneMoreUnheard ==
  ASSUME NEW s \in Seq(PieceSet), NEW out \in Seq(Messages), NEW o \in Seq(Messages), NEW g \in Nat,
         FromSent(s, out, g), Len(out) <= Len(o), \A k \in 1 .. Len(out) : o[k] = out[k]
  PROVE  FromSent(s, o, g)
  BY DEF FromSent

\* What the pieces of a message or two come to.
LEMMA Written ==
  ASSUME NEW m \in Messages, NEW n \in Messages
  PROVE  /\ FlattenSeq([i \in 1 .. Len(<<>>) |-> Pieces(<<>>[i])]) = <<>>
         /\ FlattenSeq([i \in 1 .. Len(<<m>>) |-> Pieces(<<m>>[i])]) = Pieces(m)
         /\ FlattenSeq([i \in 1 .. Len(<<m, n>>) |-> Pieces(<<m, n>>[i])]) = Pieces(m) \o Pieces(n)
<1>1. FlattenSeq([i \in 1 .. Len(<<>>) |-> Pieces(<<>>[i])]) = <<>>
  BY DEF FlattenSeq
<1>2. FlattenSeq([i \in 1 .. Len(<<m>>) |-> Pieces(<<m>>[i])]) = Pieces(m)
  <2> DEFINE q == [i \in 1 .. Len(<<m>>) |-> Pieces(<<m>>[i])]
             Fits(f) == f = [i \in 1 .. Len(q) |-> IF i = 1 THEN q[i] ELSE f[i - 1] \o q[i]]
  <2>1. Len(q) = 1 /\ q[1] = Pieces(m) /\ 1 .. Len(q) = {1}
    OBVIOUS
  <2> HIDE DEF q
  <2>2. Fits([i \in 1 .. Len(q) |-> q[1]])
    BY <2>1
  <2>3. \E f : Fits(f)
    BY <2>2
  <2>4. Fits(CHOOSE f : Fits(f))
    BY <2>3, Zenon
  <2>5. FlattenSeq(q) = (CHOOSE f : Fits(f))[Len(q)]
    BY <2>1 DEF FlattenSeq
  <2>6. (CHOOSE f : Fits(f))[1] = q[1]
    <3> HIDE DEF Fits
    <3>1. PICK f : f = CHOOSE g : Fits(g)
      OBVIOUS
    <3>2. Fits(f)
      BY <3>1, <2>4
    <3>3. f[1] = q[1]
      BY <3>2, <2>1 DEF Fits
    <3>4. QED
      BY <3>1, <3>3
  <2>7. QED
    BY <2>1, <2>5, <2>6 DEF q
<1>3. FlattenSeq([i \in 1 .. Len(<<m, n>>) |-> Pieces(<<m, n>>[i])]) = Pieces(m) \o Pieces(n)
  <2> DEFINE q == [i \in 1 .. Len(<<m, n>>) |-> Pieces(<<m, n>>[i])]
             Fits(f) == f = [i \in 1 .. Len(q) |-> IF i = 1 THEN q[i] ELSE f[i - 1] \o q[i]]
  <2>1. Len(q) = 2 /\ q[1] = Pieces(m) /\ q[2] = Pieces(n) /\ 1 .. Len(q) = {1, 2}
    OBVIOUS
  <2> HIDE DEF q
  <2>2. Fits([i \in 1 .. Len(q) |-> IF i = 1 THEN q[1] ELSE q[1] \o q[2]])
    BY <2>1
  <2>3. \E f : Fits(f)
    BY <2>2
  <2>4. Fits(CHOOSE f : Fits(f))
    BY <2>3, Zenon
  <2>5. FlattenSeq(q) = (CHOOSE f : Fits(f))[Len(q)]
    BY <2>1 DEF FlattenSeq
  <2>6. (CHOOSE f : Fits(f))[2] = q[1] \o q[2]
    <3> HIDE DEF Fits
    <3>1. PICK f : f = CHOOSE g : Fits(g)
      OBVIOUS
    <3>2. Fits(f)
      BY <3>1, <2>4
    <3>3. f[1] = q[1]
      BY <3>2, <2>1 DEF Fits
    <3>4. f[2] = f[1] \o q[2]
      <4>1. f[2] = [i \in 1 .. Len(q) |-> IF i = 1 THEN q[i] ELSE f[i - 1] \o q[i]][2]
        BY <3>2 DEF Fits
      <4>2. 2 \in 1 .. Len(q) /\ 2 # 1 /\ 2 - 1 = 1
        BY <2>1
      <4>3. QED
        BY <4>1, <4>2
    <3>5. f[2] = q[1] \o q[2]
      BY <3>3, <3>4
    <3>6. QED
      BY <3>1, <3>5
  <2>7. QED
    BY <2>1, <2>5, <2>6 DEF q
<1>4. QED
  BY <1>1, <1>2, <1>3

-----------------------------------------------------------------------------
(* The inductive invariant.                                                *)

States  == {"WaitingForGreeting", "ReadingGreeting", "ReadyForUse", "closed"}
Steps   == {"idle", "header", "enough", "data"}
Reasons == {"nobody", "pong", "token", "greeting", "transfer", "peer"}
Conns ==
  [state : States, pc : Steps, type : Types \cup {Undefined}, length : Int, buffered : BOOLEAN,
   timer : BOOLEAN, greeted : BOOLEAN, quiet : Int, closedBy : Reasons, alive : BOOLEAN]
Heard == [type : Types, data : Seq(PieceSet)]
Usable(c) == c.state # "closed" /\ c.alive

\* Where an end is in its stream s, of which h pieces have arrived.
Place(c, s, h) ==
    /\ h <= Len(s)
    /\ c.pc # "idle" => Usable(c)
    /\ c.type = Undefined => c.pc \in {"idle", "header"} /\ (s # <<>> => s[1].at = 1)
    /\ c.type # Undefined =>
        /\ c.pc \in {"idle", "enough", "data"}
        /\ s # <<>> /\ s[1].of.type = c.type
        /\ IF c.length > 0 THEN s[1].at = Header + 1 /\ c.length = Size(s[1].of)
           ELSE s[1].at \in {LengthHead, Header}
    /\ c.pc = "data" => c.length > 0 /\ h >= c.length

\* An end that waits for the greeting has it in front.
Waits(c, s, done) ==
    c.state = "WaitingForGreeting" =>
        /\ c.type = Undefined /\ done = <<>>
        /\ s # <<>> => s[1].of.type = "GREETING"

\* What was handled is the front of what was sent.
Framed(out, done) ==
    /\ Len(done) <= Len(out)
    /\ \A i \in 1 .. Len(done) : done[i] = [type |-> out[i].type, data |-> Payload(out[i])]

\* An end with stream s, whose peer sent out.
Reader(c, s, h, out, done) ==
    /\ c \in Conns /\ s \in Seq(PieceSet) /\ h \in Nat /\ done \in Seq(Heard)
    /\ Whole(s) /\ FromSent(s, out, Len(done)) /\ InOrder(s)
    /\ Usable(c) => AllThere(s, out, Len(done))
    /\ Framed(out, done) /\ Place(c, s, h) /\ Waits(c, s, done)
    /\ c.closedBy # "greeting"

Numbered(out) == \A k \in 1 .. Len(out) : out[k].n = k /\ Kept(out[k])

\* An end that sent out: the greeting comes first.
Writer(c, out) ==
    /\ out \in Seq(Messages) /\ Numbered(out)
    /\ c.greeted <=> out # <<>>
    /\ c.state = "ReadyForUse" => c.greeted

\* What it sends next: nothing, a message, or the greeting.
Saying(out, ms) ==
    \/ ms = <<>>
    \/ /\ out # <<>>
       /\ \E m \in Messages : ms = <<m>> /\ (Kept(m) => m.n = Len(out) + 1)
    \/ /\ out = <<>>
       /\ \E m, n \in Messages :
            /\ ms = <<m, n>>
            /\ m.type = "GREETING" /\ m.n = 1
            /\ n.type = "PUBLICKEY_REQUEST" /\ n.n = 2

\* The pieces of messages ms, and what was sent once they are.
Wire(ms) == FlattenSeq([i \in 1 .. Len(ms) |-> Pieces(ms[i])])
After(out, ms) == IF \E i \in 1 .. Len(ms) : ms[i].type \in KeepAlive THEN out ELSE out \o ms

Adds(out, m, o) ==
    \/ ~ Kept(m) /\ o = out
    \/ Kept(m) /\ m.n = Len(out) + 1 /\ o = Append(out, m)

TypeOK ==
    /\ conn \in [Ends -> Conns]
    /\ stream \in [Ends -> Seq(PieceSet)]
    /\ here \in [Ends -> Nat]
    /\ sent \in [Ends -> Seq(Messages)]
    /\ handled \in [Ends -> Seq(Heard)]

ConnInv ==
    /\ TypeOK
    /\ \A e \in Ends : /\ Reader(conn[e], stream[e], here[e], sent[Other(e)], handled[e])
                       /\ Writer(conn[e], sent[e])

-----------------------------------------------------------------------------

\* A piece that is not the last of its message is followed by the next one.
LEMMA PieceAfter ==
  ASSUME NEW s \in Seq(PieceSet), Whole(s), NEW i \in 1 .. Len(s), s[i].at < LastAt(s[i].of)
  PROVE  i + 1 \in 1 .. Len(s) /\ s[i + 1] = [of |-> s[i].of, at |-> s[i].at + 1]
<1>1. PICK l \in Nat : l = Len(s)
  OBVIOUS
<1>2. i # l
  <2>1. s # <<>> /\ LastAt(s[i].of) \in {5, 6} /\ s[i] \in PieceSet /\ s[i].at \in Int
    BY SizeOf DEF PieceSet
  <2>2. s[Len(s)].at = LastAt(s[Len(s)].of)
    BY <2>1 DEF Whole
  <2>3. QED
    BY <1>1, <2>1, <2>2
<1>3. i \in 1 .. Len(s) - 1 /\ i + 1 \in 1 .. Len(s)
  BY <1>1, <1>2
<1>4. QED
  BY <1>3 DEF Whole

\* The last piece of a message is followed by the first one of another.
LEMMA PieceAfterLast ==
  ASSUME NEW s \in Seq(PieceSet), Whole(s), NEW i \in 1 .. Len(s) - 1, s[i].at = LastAt(s[i].of)
  PROVE  s[i + 1].at = 1
<1>1. LastAt(s[i].of) \in {5, 6}
  BY SizeOf
<1>2. ~ (s[i].at < LastAt(s[i].of))
  BY <1>1
<1>3. IF s[i].at < LastAt(s[i].of) THEN s[i + 1] = [of |-> s[i].of, at |-> s[i].at + 1]
      ELSE s[i + 1].at = 1
  BY DEF Whole
<1>4. QED
  BY <1>2, <1>3

\* A header is in front as a whole, and a payload follows it.
LEMMA HeaderAhead ==
  ASSUME NEW s \in Seq(PieceSet), Whole(s), s # <<>>, NEW a \in {1, 3, 4}, s[1].at = a
  PROVE  /\ 6 - a <= Len(s)
         /\ \A i \in 1 .. 6 - a : s[i] \in PieceSet /\ s[i].of = s[1].of /\ s[i].at = a + i - 1
<1> DEFINE Ahead(i) == i \in 1 .. Len(s) /\ s[i] \in PieceSet /\ s[i].of = s[1].of /\ s[i].at = a + i - 1
<1>1. Ahead(1)
  OBVIOUS
<1>2. ASSUME NEW i \in 1 .. 4, Ahead(i), a + i - 1 < 5
      PROVE  Ahead(i + 1)
  <2>1. LastAt(s[i].of) \in {5, 6}
    BY SizeOf
  <2>2. s[i].at < LastAt(s[i].of)
    BY <1>2, <2>1
  <2>3. i + 1 \in 1 .. Len(s) /\ s[i + 1] = [of |-> s[i].of, at |-> s[i].at + 1]
    BY <1>2, <2>2, PieceAfter
  <2>4. [of |-> s[i].of, at |-> s[i].at + 1].of = s[i].of
        /\ [of |-> s[i].of, at |-> s[i].at + 1].at = s[i].at + 1
    OBVIOUS
  <2>5. s[i + 1].of = s[i].of /\ s[i + 1].at = s[i].at + 1
    BY <2>3, <2>4
  <2>6. s[i].at + 1 = a + (i + 1) - 1
    BY <1>2
  <2>7. s[i + 1] \in PieceSet
    BY <2>3
  <2>8. QED
    BY <1>2, <2>3, <2>5, <2>6, <2>7
<1> HIDE DEF Ahead
<1>3. CASE a = 1
  <2>1. Ahead(2)
    BY <1>1, <1>2, <1>3
  <2>2. Ahead(3)
    BY <2>1, <1>2, <1>3
  <2>3. Ahead(4)
    BY <2>2, <1>2, <1>3
  <2>4. Ahead(5)
    BY <2>3, <1>2, <1>3
  <2>5. QED
    BY <1>1, <2>1, <2>2, <2>3, <2>4, <1>3 DEF Ahead
<1>4. CASE a = 3
  <2>1. Ahead(2)
    BY <1>1, <1>2, <1>4
  <2>2. Ahead(3)
    BY <2>1, <1>2, <1>4
  <2>3. QED
    BY <1>1, <2>1, <2>2, <1>4 DEF Ahead
<1>5. CASE a = 4
  <2>1. Ahead(2)
    BY <1>1, <1>2, <1>5
  <2>2. QED
    BY <1>1, <2>1, <1>5 DEF Ahead
<1>6. QED
  BY <1>3, <1>4, <1>5

\* Nothing is read: only the members that the reader does not go by change,
\* or the connection ends.
LEMMA ReadsNothing ==
  ASSUME NEW c, NEW s, NEW h, NEW out, NEW done, Reader(c, s, h, out, done),
         NEW c2 \in Conns, NEW h2 \in Nat, h2 <= Len(s),
         c2.type = c.type, c2.length = c.length, Usable(c2) => Usable(c),
         c2.pc # "idle" => Usable(c2),
         c2.type = Undefined => c2.pc \in {"idle", "header"},
         c2.type # Undefined => c2.pc \in {"idle", "enough", "data"},
         c2.pc = "data" => c2.length > 0 /\ h2 >= c2.length,
         c2.state = "WaitingForGreeting" => c.state = "WaitingForGreeting",
         c2.closedBy # "greeting"
  PROVE  Reader(c2, s, h2, out, done)
<1>1. Place(c2, s, h2)
  BY DEF Reader, Place
<1>2. Waits(c2, s, done)
  BY DEF Reader, Waits
<1>3. QED
  BY <1>1, <1>2 DEF Reader

\* An end that stood at piece a of a header and took the next k pieces of it.
PastHeader(c, s, h, a, k) ==
    /\ c \in Conns /\ Usable(c) /\ c.type = s[1].of.type
    /\ c.state # "WaitingForGreeting" /\ c.closedBy # "greeting"
    /\ a \in {1, 3, 4} /\ s[1].at = a
    /\ k \in 0 .. 5 - a /\ k <= h /\ a + k \in {3, 4, 5}
    /\ IF a + k = 5 THEN c.length = Size(s[1].of) ELSE c.length <= 0
    /\ c.pc \in {"idle", "enough", "data"}
    /\ c.pc = "data" => c.length > 0 /\ h - k >= c.length

\* Pieces of a header are read.
LEMMA ReadsHeader ==
  ASSUME NEW c, NEW s, NEW h, NEW out \in Seq(Messages), NEW done, Reader(c, s, h, out, done),
         Numbered(out), Usable(c), s # <<>>,
         NEW c2, NEW a, NEW k, PastHeader(c2, s, h, a, k)
  PROVE  Reader(c2, SubSeq(s, k + 1, Len(s)), h - k, out, done)
<1> USE DEF PastHeader
<1> DEFINE t == SubSeq(s, k + 1, Len(s))
<1>0. PICK l \in Nat : l = Len(s)
  BY DEF Reader
<1>1. /\ s \in Seq(PieceSet) /\ Whole(s) /\ h \in Nat /\ h <= l /\ c \in Conns /\ done \in Seq(Heard)
      /\ FromSent(s, out, Len(done)) /\ InOrder(s) /\ AllThere(s, out, Len(done)) /\ Framed(out, done)
  BY <1>0 DEF Reader, Place
<1>2. /\ 6 - a <= Len(s)
      /\ \A i \in 1 .. 6 - a : s[i] \in PieceSet /\ s[i].of = s[1].of /\ s[i].at = a + i - 1
  BY <1>1, HeaderAhead
<1>3. k \in 0 .. Len(s)
  BY <1>0, <1>1
<1>4. t \in Seq(PieceSet) /\ Len(t) = Len(s) - k /\ \A i \in 1 .. Len(s) - k : t[i] = s[i + k]
  BY <1>1, <1>3, RestOf
<1>5. Whole(t) /\ FromSent(t, out, Len(done)) /\ InOrder(t)
  BY <1>1, <1>3, RestKeeps
<1>6. AllThere(t, out, Len(done))
  <2>1. \A i \in 1 .. k : s[i].at # LastAt(s[i].of)
    <3> TAKE i \in 1 .. k
    <3>1. LastAt(s[i].of) \in {5, 6}
      BY SizeOf
    <3>2. i \in 1 .. 6 - a /\ a + i - 1 < 5
      OBVIOUS
    <3>3. QED
      BY <1>2, <3>1, <3>2
  <2>2. \A i \in 1 .. Len(out) : Kept(out[i])
    BY DEF Numbered
  <2>3. QED
    BY <1>1, <1>3, <2>1, <2>2, RestHasAll
<1> HIDE DEF t
<1>7. t # <<>> /\ t[1].of = s[1].of /\ t[1].at = a + k
  <2>1. 1 + k \in 1 .. 6 - a /\ 1 \in 1 .. Len(s) - k /\ Len(t) # 0
    BY <1>0, <1>2, <1>4
  <2>2. t[1] = s[1 + k] /\ s[1 + k].at = a + (1 + k) - 1 /\ a + (1 + k) - 1 = a + k
    BY <1>2, <1>4, <2>1
  <2>3. QED
    BY <1>2, <1>4, <2>1, <2>2
<1>8. Size(s[1].of) \in {1, 2} /\ Header = 4 /\ LengthHead = 3
  BY SizeOf DEF Header, LengthHead
<1>9. c2.type # Undefined
  <2>1. s[1] \in PieceSet
    BY <1>0, <1>1
  <2>2. s[1].of.type \in Types
    BY <2>1 DEF PieceSet, Messages
  <2>3. Undefined \notin Types
    BY ConnectionAssumption DEF Types, KeepAlive, Undefined
  <2>4. QED
    BY <2>2, <2>3
<1>10. Place(c2, t, h - k)
  <2>1. h - k <= Len(t)
    BY <1>0, <1>1, <1>4
  <2>2. t[1].of.type = c2.type
    BY <1>7
  <2>3. IF c2.length > 0 THEN t[1].at = Header + 1 /\ c2.length = Size(t[1].of)
        ELSE t[1].at \in {LengthHead, Header}
    <3>1. CASE a + k = 5
      BY <3>1, <1>7, <1>8
    <3>2. CASE a + k # 5
      <4>1. ~ (c2.length > 0)
        BY <3>2 DEF Conns
      <4>2. QED
        BY <3>2, <4>1, <1>7, <1>8
    <3>3. QED
      BY <3>1, <3>2
  <2>4. QED
    BY <2>1, <2>2, <2>3, <1>7, <1>9 DEF Place
<1>11. Waits(c2, t, done)
  BY DEF Waits
<1>12. h - k \in Nat
  BY <1>1
<1>13. QED
  BY <1>1, <1>4, <1>5, <1>6, <1>10, <1>11, <1>12 DEF Reader, t

\* A payload is read.
LEMMA ReadsPayload ==
  ASSUME NEW c, NEW s, NEW h, NEW out \in Seq(Messages), NEW done, Reader(c, s, h, out, done),
         Numbered(out), c.pc = "data", NEW c2 \in Conns, Usable(c2), c2.type = Undefined,
         c2.pc \in {"idle", "header"}, c2.state # "WaitingForGreeting", c2.closedBy # "greeting",
         NEW done2,
         IF c.type \in KeepAlive THEN done2 = done
         ELSE done2 = Append(done, [type |-> c.type, data |-> SubSeq(s, 1, c.length)])
  PROVE  Reader(c2, SubSeq(s, c.length + 1, Len(s)), h - c.length, out, done2)
<1> DEFINE m == s[1].of
           k == Size(m)
           t == SubSeq(s, k + 1, Len(s))
           g == Len(done)
<1>0. PICK l \in Nat : l = Len(s)
  BY DEF Reader
<1>1. /\ s \in Seq(PieceSet) /\ Whole(s) /\ h \in Nat /\ h <= l /\ c \in Conns /\ done \in Seq(Heard)
      /\ FromSent(s, out, g) /\ InOrder(s) /\ Framed(out, done)
  BY <1>0 DEF Reader, Place
<1>2. c.type # Undefined /\ c.length > 0 /\ Usable(c)
  BY DEF Reader, Place
<1>3. s # <<>> /\ m.type = c.type /\ s[1].at = Header + 1 /\ c.length = k /\ h >= k
  BY <1>2 DEF Reader, Place
<1>4. AllThere(s, out, g)
  BY <1>2 DEF Reader
<1>5. k \in {1, 2} /\ LastAt(m) = Header + k
  BY SizeOf
<1>6. /\ k <= Len(s) /\ \A i \in 1 .. k : s[i] = [of |-> m, at |-> Header + i]
      /\ SubSeq(s, 1, k) = Payload(m)
  BY <1>1, <1>3, FrontPayload
<1>7. m \in Messages
  <2>1. s[1] \in PieceSet
    BY <1>0, <1>1, <1>3
  <2>2. QED
    BY <2>1 DEF PieceSet
<1>8. k \in 0 .. Len(s)
  BY <1>0, <1>5, <1>6
<1>9. t \in Seq(PieceSet) /\ Len(t) = Len(s) - k /\ \A i \in 1 .. Len(s) - k : t[i] = s[i + k]
  BY <1>1, <1>8, RestOf
<1>10. Whole(t) /\ FromSent(t, out, g) /\ InOrder(t)
  BY <1>1, <1>8, RestKeeps
<1>11. t # <<>> => t[1].at = 1
  <2> SUFFICES ASSUME t # <<>> PROVE t[1].at = 1
    OBVIOUS
  <2>1. k \in 1 .. Len(s) - 1 /\ k \in 1 .. k /\ t[1] = s[k + 1]
    <3> HIDE DEF t, k, m
    <3>1. Len(t) \in Nat /\ Len(t) # 0
      BY <1>9
    <3>2. QED
      BY <1>0, <1>5, <1>9, <3>1
  <2>2. s[k].of = m /\ s[k].at = LastAt(m)
    <3>1. s[k] = [of |-> m, at |-> Header + k]
      BY <1>6, <2>1
    <3>2. QED
      BY <3>1, <1>5
  <2>3. s[k + 1].at = 1
    BY <1>1, <2>1, <2>2, PieceAfterLast
  <2>4. QED
    BY <2>1, <2>3
<1>12. Place(c2, t, h - k)
  <2> HIDE DEF t, k, m
  <2>1. h - k <= Len(t)
    BY <1>0, <1>1, <1>5, <1>9
  <2>2. QED
    BY <2>1, <1>11 DEF Place
<1>13. Waits(c2, t, done2)
  BY DEF Waits
<1>14. h - k \in Nat
  <2> HIDE DEF t, k, m
  <2>1. k \in Nat
    BY <1>5
  <2>2. QED
    BY <1>1, <1>3, <2>1
<1>15. /\ done2 \in Seq(Heard) /\ FromSent(t, out, Len(done2)) /\ AllThere(t, out, Len(done2))
       /\ Framed(out, done2)
  <2>1. CASE c.type \in KeepAlive
    <3>1. done2 = done /\ ~ Kept(m)
      BY <2>1, <1>3 DEF Kept
    <3>2. \A i \in 1 .. k : ~ Kept(s[i].of)
      <4>1. ASSUME NEW i \in 1 .. k PROVE s[i].of = m
        <5>1. s[i] = [of |-> m, at |-> Header + i]
          BY <1>6
        <5>2. QED
          BY <5>1
      <4>2. QED
        BY <3>1, <4>1
    <3>3. \A i \in 1 .. Len(out) : Kept(out[i])
      BY DEF Numbered
    <3>4. g \in Nat
      BY <1>1
    <3>5. AllThere(t, out, g)
      BY <1>1, <1>4, <1>8, <3>2, <3>3, <3>4, RestHasAll
    <3>6. QED
      BY <1>1, <1>10, <3>1, <3>5
  <2>2. CASE c.type \notin KeepAlive
    <3>1. Kept(m)
      BY <2>2, <1>3 DEF Kept
    <3>2. g \in Nat
      BY <1>1
    <3>3. \A i \in 1 .. Len(out) : out[i].n = i /\ Kept(out[i])
      BY DEF Numbered
    <3>4. FromSent(t, out, g + 1) /\ AllThere(t, out, g + 1)
      BY <1>1, <1>3, <1>4, <3>1, <3>2, <3>3, TakeKeeps
    <3>5. g + 1 \in 1 .. Len(out) /\ m = out[g + 1]
      BY <1>1, <1>3, <1>4, <3>1, <3>2, <3>3, NextInStream
    <3>6. done2 = Append(done, [type |-> m.type, data |-> Payload(m)])
      BY <2>2, <1>3, <1>6
    <3>7. [type |-> m.type, data |-> Payload(m)] \in Heard
      <4>1. m.type \in Types
        BY <1>7 DEF Messages
      <4>2. \A i \in 1 .. k : s[i] \in PieceSet
        BY <1>0, <1>1, <1>5, <1>6
      <4>3. SubSeq(s, 1, k) \in Seq(PieceSet)
        BY <1>5, <4>2, SubSeqProperties
      <4>4. QED
        BY <4>1, <4>3, <1>6 DEF Heard
    <3> DEFINE x == [type |-> m.type, data |-> Payload(m)]
    <3> HIDE DEF t, k, m, x
    <3>8. /\ done2 \in Seq(Heard) /\ Len(done2) = g + 1
          /\ \A i \in 1 .. g : done2[i] = done[i]
          /\ done2[g + 1] = x
      BY <1>1, <3>6, <3>7, AppendProperties DEF x
    <3>9. x = [type |-> out[g + 1].type, data |-> Payload(out[g + 1])]
      BY <3>5 DEF x
    <3>10. Framed(out, done2)
      <4>1. g + 1 <= Len(out)
        BY <3>5
      <4>2. ASSUME NEW i \in 1 .. g + 1
            PROVE  done2[i] = [type |-> out[i].type, data |-> Payload(out[i])]
        <5>1. CASE i \in 1 .. g
          BY <5>1, <1>1, <3>8 DEF Framed
        <5>2. CASE i = g + 1
          BY <5>2, <3>8, <3>9
        <5>3. QED
          BY <5>1, <5>2, <3>2
      <4>3. QED
        BY <4>1, <4>2, <3>8 DEF Framed
    <3>11. QED
      BY <3>4, <3>8, <3>10
  <2>3. QED
    BY <2>1, <2>2
<1>16. QED
  <2>1. Reader(c2, t, h - k, out, done2)
    <3> HIDE DEF t, k, m
    <3>1. QED
      BY <1>9, <1>10, <1>12, <1>13, <1>14, <1>15 DEF Reader
  <2>2. QED
    BY <2>1, <1>3

-----------------------------------------------------------------------------

LEMMA Adding ==
  ASSUME NEW out \in Seq(Messages), Numbered(out), NEW m \in Messages, NEW o, Adds(out, m, o)
  PROVE  /\ o \in Seq(Messages) /\ Numbered(o) /\ Len(out) <= Len(o)
         /\ \A k \in 1 .. Len(out) : o[k] = out[k]
         /\ \/ ~ Kept(m) /\ o = out
            \/ /\ Kept(m) /\ m.n = Len(out) + 1
               /\ Len(o) = Len(out) + 1 /\ o[Len(out) + 1] = m
<1>1. CASE ~ Kept(m) /\ o = out
  BY <1>1
<1>2. CASE Kept(m) /\ m.n = Len(out) + 1 /\ o = Append(out, m)
  <2>1. \A k \in 1 .. Len(out) : out[k].n = k /\ Kept(out[k])
    BY DEF Numbered
  <2>2. /\ o \in Seq(Messages) /\ Len(o) = Len(out) + 1
        /\ \A k \in 1 .. Len(out) : o[k] = out[k]
        /\ o[Len(out) + 1] = m
        /\ \A k \in 1 .. Len(o) : o[k].n = k /\ Kept(o[k])
    BY <1>2, <2>1, OneMoreSent
  <2>3. Len(out) <= Len(o)
    BY <2>2
  <2>4. QED
    BY <1>2, <2>2, <2>3 DEF Numbered
<1>3. QED
  BY <1>1, <1>2 DEF Adds

\* What was sent to an end changes nothing of what it handled.
LEMMA FramedStays ==
  ASSUME NEW out \in Seq(Messages), NEW o \in Seq(Messages), Len(out) <= Len(o),
         \A k \in 1 .. Len(out) : o[k] = out[k], NEW done \in Seq(Heard), Framed(out, done)
  PROVE  Framed(o, done)
<1>1. \A i \in 1 .. Len(done) : i \in 1 .. Len(out)
  BY DEF Framed
<1>2. QED
  BY <1>1 DEF Framed

\* A message arrives at an end that is there.
LEMMA Receives ==
  ASSUME NEW c, NEW s, NEW h, NEW out \in Seq(Messages), NEW done, Reader(c, s, h, out, done),
         Numbered(out), NEW m \in Messages, NEW o, Adds(out, m, o), Usable(c),
         c.state = "WaitingForGreeting" /\ s = <<>> => m.type = "GREETING"
  PROVE  Reader(c, s \o Pieces(m), h, o, done)
<1> DEFINE t == s \o Pieces(m)
           g == Len(done)
<1>1. /\ s \in Seq(PieceSet) /\ Whole(s) /\ h \in Nat /\ c \in Conns /\ done \in Seq(Heard) /\ g \in Nat
      /\ FromSent(s, out, g) /\ InOrder(s) /\ AllThere(s, out, g) /\ Framed(out, done)
      /\ Place(c, s, h) /\ Waits(c, s, done)
  BY DEF Reader
<1>2. /\ o \in Seq(Messages) /\ Numbered(o) /\ Len(out) <= Len(o)
      /\ \A k \in 1 .. Len(out) : o[k] = out[k]
      /\ \/ ~ Kept(m) /\ o = out
         \/ /\ Kept(m) /\ m.n = Len(out) + 1
            /\ Len(o) = Len(out) + 1 /\ o[Len(out) + 1] = m
  BY Adding
<1>3. /\ t \in Seq(PieceSet) /\ t # <<>>
      /\ s # <<>> => t[1] = s[1]
      /\ s = <<>> => t[1] = [of |-> m, at |-> 1]
      /\ Len(s) <= Len(t)
      /\ Whole(t) /\ FromSent(t, o, g) /\ InOrder(t)
      /\ AllThere(s, out, g) => AllThere(t, o, g)
  <2>1. g <= Len(out)
    BY <1>1 DEF Framed
  <2> HIDE DEF g
  <2>2. QED
    BY <1>1, <1>2, <2>1, OneMoreInStream
<1>4. Framed(o, done)
  BY <1>1, <1>2, FramedStays
<1> HIDE DEF t
<1>5. s = <<>> => t[1].of = m /\ t[1].at = 1
  BY <1>3
<1>6. Place(c, t, h)
  <2>1. h <= Len(t)
    BY <1>1, <1>3 DEF Place
  <2>2. QED
    BY <1>1, <1>3, <1>5, <2>1 DEF Place
<1>7. Waits(c, t, done)
  BY <1>1, <1>3, <1>5 DEF Waits
<1>8. c.closedBy # "greeting"
  BY DEF Reader
<1>9. QED
  BY <1>1, <1>3, <1>4, <1>6, <1>7, <1>8 DEF Reader, t

\* A message is sent to an end that is not there any more.
LEMMA Misses ==
  ASSUME NEW c, NEW s, NEW h, NEW out \in Seq(Messages), NEW done, Reader(c, s, h, out, done),
         Numbered(out), NEW m \in Messages, NEW o, Adds(out, m, o), ~ Usable(c)
  PROVE  Reader(c, s, h, o, done)
<1>1. /\ s \in Seq(PieceSet) /\ done \in Seq(Heard) /\ Len(done) \in Nat
      /\ FromSent(s, out, Len(done)) /\ Framed(out, done)
  BY DEF Reader
<1>2. /\ o \in Seq(Messages) /\ Len(out) <= Len(o)
      /\ \A k \in 1 .. Len(out) : o[k] = out[k]
  BY Adding
<1>3. FromSent(s, o, Len(done))
  BY <1>1, <1>2, OneMoreUnheard
<1>4. Framed(o, done)
  BY <1>1, <1>2, FramedStays
<1>5. QED
  BY <1>3, <1>4 DEF Reader

\* An end that waits for a greeting and has nothing to read was sent nothing.
LEMMA NothingSentYet ==
  ASSUME NEW c, NEW h, NEW out \in Seq(Messages), NEW done, Reader(c, <<>>, h, out, done),
         Usable(c), c.state = "WaitingForGreeting"
  PROVE  out = <<>>
<1>1. done = <<>> /\ AllThere(<<>>, out, Len(done))
  BY DEF Reader, Waits
<1>2. Len(done) = 0 /\ Len(<<>>) = 0
  BY <1>1
<1>3. ASSUME out # <<>>
      PROVE  FALSE
  <2>1. 1 \in 0 + 1 .. Len(out)
    BY <1>3
  <2>2. \E i \in 1 .. 0 : TRUE
    BY <1>1, <1>2, <2>1 DEF AllThere
  <2>3. QED
    BY <2>2
<1>4. QED
  BY <1>3

LEMMA OneThenAnother ==
  ASSUME NEW m \in Messages, NEW n \in Messages
  PROVE  /\ Append(<<>>, m) = <<m>> /\ Len(<<m>>) = 1
         /\ Append(<<m>>, n) = <<m, n>> /\ <<m, n>> # <<>>
<1>1. <<>> \in Seq(Messages) /\ <<m>> \in Seq(Messages) /\ <<m, n>> \in Seq(Messages)
  OBVIOUS
<1>2. Len(<<>>) = 0 /\ Len(<<m>>) = 1 /\ Len(<<m, n>>) = 2
  OBVIOUS
<1>3. Append(<<>>, m) = <<m>>
  <2>1. Append(<<>>, m) \in Seq(Messages) /\ Len(Append(<<>>, m)) = 1 /\ Append(<<>>, m)[1] = m
    BY <1>1, <1>2, AppendProperties
  <2>2. QED
    BY <1>1, <1>2, <2>1, SeqEqual
<1>4. Append(<<m>>, n) = <<m, n>>
  <2> DEFINE a == Append(<<m>>, n)
             b == <<m, n>>
  <2>1. a \in Seq(Messages) /\ Len(a) = 2 /\ a[1] = m /\ a[2] = n
    BY <1>1, <1>2, AppendProperties
  <2>2. b \in Seq(Messages) /\ Len(b) = 2 /\ b[1] = m /\ b[2] = n
    BY <1>1, <1>2
  <2> HIDE DEF a, b
  <2>3. \A i \in 1 .. Len(a) : a[i] = b[i]
    BY <2>1, <2>2
  <2>4. a = b
    BY <2>1, <2>2, <2>3, SeqEqual
  <2>5. QED
    BY <2>4 DEF a, b
<1>5. <<m, n>> # <<>>
  BY <1>2
<1>6. QED
  BY <1>2, <1>3, <1>4, <1>5

\* What one end writes leaves the other end with a stream in order.
LEMMA Hears ==
  ASSUME NEW c, NEW s, NEW h, NEW out \in Seq(Messages), NEW done, Reader(c, s, h, out, done),
         Numbered(out), NEW ms, Saying(out, ms), NEW o, o = After(out, ms)
  PROVE  /\ Reader(c, IF Usable(c) THEN s \o Wire(ms) ELSE s, h, o, done)
         /\ o \in Seq(Messages) /\ Numbered(o)
         /\ o # <<>> <=> out # <<>> \/ ms # <<>>
<1>0. s \in Seq(PieceSet)
  BY DEF Reader
<1>1. CASE ms = <<>>
  <2>1. o = out
    BY <1>1 DEF After
  <2>2. Wire(ms) = <<>>
    BY <1>1 DEF Wire, FlattenSeq
  <2>3. s \o <<>> = s
    BY <1>0
  <2>4. QED
    BY <1>1, <2>1, <2>2, <2>3
<1>2. ASSUME out # <<>>, NEW m \in Messages, ms = <<m>>, Kept(m) => m.n = Len(out) + 1
      PROVE  /\ Reader(c, IF Usable(c) THEN s \o Wire(ms) ELSE s, h, o, done)
             /\ o \in Seq(Messages) /\ Numbered(o)
             /\ o # <<>> <=> out # <<>> \/ ms # <<>>
  <2>1. Wire(ms) = Pieces(m)
    BY <1>2, Written DEF Wire
  <2>2. (\E i \in 1 .. Len(ms) : ms[i].type \in KeepAlive) <=> ~ Kept(m)
    <3>1. 1 .. Len(ms) = {1} /\ ms[1] = m
      BY <1>2
    <3>2. QED
      BY <3>1 DEF Kept
  <2>3. out \o ms = Append(out, m)
    BY <1>2
  <2>4. Adds(out, m, o)
    BY <1>2, <2>2, <2>3 DEF Adds, After
  <2>5. o \in Seq(Messages) /\ Numbered(o) /\ Len(out) <= Len(o)
    BY <2>4, Adding
  <2>6. o # <<>>
    BY <1>2, <2>5
  <2>7. CASE Usable(c)
    <3>1. c.state = "WaitingForGreeting" /\ s = <<>> => m.type = "GREETING"
      BY <1>2, <2>7, NothingSentYet
    <3>2. Reader(c, s \o Pieces(m), h, o, done)
      BY <2>4, <2>7, <3>1, Receives
    <3>3. QED
      BY <1>2, <2>1, <2>5, <2>6, <2>7, <3>2
  <2>8. CASE ~ Usable(c)
    <3>1. Reader(c, s, h, o, done)
      BY <2>4, <2>8, Misses
    <3>2. QED
      BY <1>2, <2>5, <2>6, <2>8, <3>1
  <2>9. QED
    BY <2>7, <2>8
<1>3. ASSUME out = <<>>, NEW m \in Messages, NEW n \in Messages, ms = <<m, n>>,
             m.type = "GREETING", m.n = 1, n.type = "PUBLICKEY_REQUEST", n.n = 2
      PROVE  /\ Reader(c, IF Usable(c) THEN s \o Wire(ms) ELSE s, h, o, done)
             /\ o \in Seq(Messages) /\ Numbered(o)
             /\ o # <<>> <=> out # <<>> \/ ms # <<>>
  <2>1. Wire(ms) = Pieces(m) \o Pieces(n)
    BY <1>3, Written DEF Wire
  <2>2. Kept(m) /\ Kept(n)
    BY <1>3 DEF Kept, KeepAlive
  <2>3. ~ \E i \in 1 .. Len(ms) : ms[i].type \in KeepAlive
    <3>1. \A i \in 1 .. Len(ms) : ms[i] = m \/ ms[i] = n
      BY <1>3
    <3>2. QED
      BY <2>2, <3>1 DEF Kept
  <2>4. o = <<m, n>>
    BY <1>3, <2>3 DEF After
  <2> DEFINE a == Append(out, m)
  <2>5. Adds(out, m, a)
    BY <1>3, <2>2 DEF Adds
  <2>6. a \in Seq(Messages) /\ Numbered(a)
    BY <2>5, Adding
  <2>7. Adds(a, n, o)
    <3>1. a = <<m>> /\ Len(a) = 1 /\ Append(a, n) = <<m, n>>
      BY <1>3, OneThenAnother
    <3> HIDE DEF a
    <3>1a. n.n = 1 + 1
      BY <1>3
    <3>2. n.n = Len(a) + 1 /\ o = Append(a, n)
      BY <2>4, <3>1, <3>1a
    <3>3. QED
      BY <2>2, <3>2 DEF Adds
  <2>8. o \in Seq(Messages) /\ Numbered(o) /\ o # <<>>
    <3>1. o \in Seq(Messages) /\ Numbered(o)
      BY <2>6, <2>7, Adding
    <3>2. QED
      BY <1>3, <2>4, <3>1, OneThenAnother
  <2> HIDE DEF a
  <2>9. CASE Usable(c)
    <3>1. Reader(c, s \o Pieces(m), h, a, done)
      BY <1>3, <2>5, <2>9, Receives
    <3>2. Pieces(m) \in Seq(PieceSet) /\ Len(Pieces(m)) = LastAt(m) /\ Pieces(n) \in Seq(PieceSet)
      BY <1>3, PiecesOf
    <3>3. s \o Pieces(m) # <<>>
      <4>1. LastAt(m) \in {5, 6}
        BY SizeOf
      <4>2. Len(s \o Pieces(m)) # 0
        BY <1>0, <3>2, <4>1
      <4>3. QED
        BY <4>2
    <3>4. Reader(c, (s \o Pieces(m)) \o Pieces(n), h, o, done)
      BY <2>6, <2>7, <2>9, <3>1, <3>3, Receives
    <3>5. (s \o Pieces(m)) \o Pieces(n) = s \o (Pieces(m) \o Pieces(n))
      <4>1. ASSUME NEW p \in Seq(PieceSet), NEW q \in Seq(PieceSet)
            PROVE  (s \o p) \o q = s \o (p \o q)
        BY <1>0, ConcatAssociative, SMTT(30)
      <4>2. QED
        BY <3>2, <4>1, Zenon
    <3>6. QED
      BY <1>3, <2>1, <2>8, <2>9, <3>4, <3>5
  <2>10. CASE ~ Usable(c)
    <3>1. Reader(c, s, h, a, done)
      BY <2>5, <2>10, Misses
    <3>2. Reader(c, s, h, o, done)
      BY <2>6, <2>7, <2>10, <3>1, Misses
    <3>3. QED
      BY <1>3, <2>8, <2>10, <3>2
  <2>11. QED
    BY <2>9, <2>10
<1>4. QED
  BY <1>1, <1>2, <1>3 DEF Saying

-----------------------------------------------------------------------------

LEMMA OtherEnd ==
  ASSUME NEW e \in Ends
  PROVE  Other(e) \in Ends /\ Other(e) # e /\ Other(Other(e)) = e /\ Ends = {e, Other(e)}
  BY DEF Ends, Other, Initiator, Acceptor

\* The invariant survives what an end reads and writes.
LEMMA Runs ==
  ASSUME ConnInv, NEW e \in Ends, NEW c \in Conns, NEW k, NEW ms, Run(e, c, k, ms),
         Saying(sent[e], ms),
         handled' \in [Ends -> Seq(Heard)], handled'[Other(e)] = handled[Other(e)],
         Reader(c, SubSeq(stream[e], k + 1, Len(stream[e])), here[e] - k, sent[Other(e)], handled'[e]),
         c.greeted <=> (sent[e] # <<>> \/ ms # <<>>), c.state = "ReadyForUse" => c.greeted
  PROVE  ConnInv'
<1> DEFINE d == Other(e)
           o == After(sent[e], ms)
           t == SubSeq(stream[e], k + 1, Len(stream[e]))
           u == IF Usable(conn[d]) THEN stream[d] \o Wire(ms) ELSE stream[d]
<1>1. d \in Ends /\ d # e /\ Other(d) = e /\ Ends = {e, d}
  BY OtherEnd
<1>2. TypeOK
  BY DEF ConnInv
<1>3. conn' = [conn EXCEPT ![e] = c] /\ here' = [here EXCEPT ![e] = @ - k] /\ sent' = [sent EXCEPT ![e] = o]
  <2>1. conn' = [conn EXCEPT ![e] = c] /\ here' = [here EXCEPT ![e] = @ - k]
    BY DEF Run
  <2>2. sent' = [sent EXCEPT ![e] = IF \E i \in 1 .. Len(ms) : ms[i].type \in KeepAlive
                                    THEN @ ELSE @ \o ms]
    BY DEF Run
  <2>3. QED
    BY <2>1, <2>2 DEF After
<1>4. stream' = [x \in Ends |->
           IF x = e THEN SubSeq(stream[e], k + 1, Len(stream[e]))
           ELSE IF Listening(x) THEN stream[x] \o Wire(ms) ELSE stream[x]]
  BY DEF Run, Wire
<1>5. stream'[e] = t /\ stream'[d] = u
  <2>1. Listening(d) <=> Usable(conn[d])
    BY DEF Listening, Usable
  <2>2. QED
    BY <1>1, <1>4, <2>1
<1>6. Reader(conn[d], stream[d], here[d], sent[e], handled[d]) /\ sent[e] \in Seq(Messages)
      /\ Numbered(sent[e])
  BY <1>1, <1>2 DEF ConnInv, Writer, TypeOK
<1>7. /\ Reader(conn[d], u, here[d], o, handled[d])
      /\ o \in Seq(Messages) /\ Numbered(o)
      /\ (o # <<>>) <=> (sent[e] # <<>> \/ ms # <<>>)
  BY <1>6, Hears
<1>8. Reader(c, t, here[e] - k, sent[d], handled'[e])
  OBVIOUS
<1> HIDE DEF d, o, t, u
<1>9. conn'[e] = c /\ conn'[d] = conn[d] /\ here'[e] = here[e] - k /\ here'[d] = here[d]
      /\ sent'[e] = o /\ sent'[d] = sent[d] /\ handled'[d] = handled[d]
  BY <1>1, <1>2, <1>3 DEF TypeOK, d
<1>10. TypeOK'
  <2>1. conn' \in [Ends -> Conns] /\ sent' \in [Ends -> Seq(Messages)]
    BY <1>2, <1>3, <1>7 DEF TypeOK
  <2>2. here[e] - k \in Nat /\ t \in Seq(PieceSet)
    BY <1>8 DEF Reader
  <2>3. u \in Seq(PieceSet)
    BY <1>7 DEF Reader
  <2>4. here' \in [Ends -> Nat]
    BY <1>2, <1>3, <2>2 DEF TypeOK
  <2>5. stream' \in [Ends -> Seq(PieceSet)]
    <3>1. \A x \in Ends : stream'[x] \in Seq(PieceSet)
      BY <1>1, <1>5, <2>2, <2>3
    <3>2. stream' = [x \in Ends |-> stream'[x]]
      BY <1>4
    <3>3. QED
      BY <3>1, <3>2
  <2>6. QED
    BY <2>1, <2>4, <2>5 DEF TypeOK
<1>11. Writer(conn[d], sent[d]) /\ Writer(conn[e], sent[e])
  BY <1>1 DEF ConnInv
<1>12. Writer(c, o)
  BY <1>7 DEF Writer
<1>13. Reader(conn'[e], stream'[e], here'[e], sent'[d], handled'[e]) /\ Writer(conn'[e], sent'[e])
  BY <1>5, <1>8, <1>9, <1>12
<1>14. Reader(conn'[d], stream'[d], here'[d], sent'[e], handled'[d]) /\ Writer(conn'[d], sent'[d])
  BY <1>5, <1>7, <1>9, <1>11
<1>15. ASSUME NEW x \in Ends
       PROVE  /\ Reader(conn'[x], stream'[x], here'[x], sent'[Other(x)], handled'[x])
              /\ Writer(conn'[x], sent'[x])
  <2>1. CASE x = e
    BY <2>1, <1>13 DEF d
  <2>2. CASE x = d
    BY <2>2, <1>1, <1>14
  <2>3. QED
    BY <1>1, <2>1, <2>2
<1>16. QED
  BY <1>10, <1>15 DEF ConnInv

\* A step that reads nothing.
LEMMA RunsOnTheSpot ==
  ASSUME ConnInv, NEW e \in Ends, NEW c \in Conns, NEW ms, Run(e, c, 0, ms), UNCHANGED handled,
         Saying(sent[e], ms),
         c.type = conn[e].type, c.length = conn[e].length, Usable(c) => Usable(conn[e]),
         c.pc # "idle" => Usable(c),
         c.type = Undefined => c.pc \in {"idle", "header"},
         c.type # Undefined => c.pc \in {"idle", "enough", "data"},
         c.pc = "data" => c.length > 0 /\ here[e] >= c.length,
         c.state = "WaitingForGreeting" => conn[e].state = "WaitingForGreeting",
         c.closedBy # "greeting",
         c.greeted <=> (sent[e] # <<>> \/ ms # <<>>), c.state = "ReadyForUse" => c.greeted
  PROVE  ConnInv'
<1>1. Reader(conn[e], stream[e], here[e], sent[Other(e)], handled[e])
  BY DEF ConnInv
<1>2. stream[e] \in Seq(PieceSet) /\ here[e] \in Nat /\ here[e] <= Len(stream[e])
  BY <1>1 DEF Reader, Place
<1>3. Reader(c, stream[e], here[e], sent[Other(e)], handled[e])
  BY <1>1, <1>2, ReadsNothing
<1>4. SubSeq(stream[e], 0 + 1, Len(stream[e])) = stream[e] /\ here[e] - 0 = here[e]
  BY <1>2
<1>5. handled' \in [Ends -> Seq(Heard)] /\ handled'[Other(e)] = handled[Other(e)]
      /\ handled'[e] = handled[e]
  BY DEF ConnInv, TypeOK
<1>6. Reader(c, SubSeq(stream[e], 0 + 1, Len(stream[e])), here[e] - 0, sent[Other(e)], handled'[e])
  BY <1>3, <1>4, <1>5
<1>7. QED
  BY <1>5, <1>6, Runs

\* The members keep their types.
LEMMA Members ==
  ASSUME NEW c \in Conns
  PROVE  /\ \A v \in States : [c EXCEPT !.state = v] \in Conns
         /\ \A v \in Steps : [c EXCEPT !.pc = v] \in Conns
         /\ \A v \in Reasons : [c EXCEPT !.closedBy = v] \in Conns
         /\ \A v \in Types \cup {Undefined} : [c EXCEPT !.type = v] \in Conns
         /\ \A v \in Int : [c EXCEPT !.length = v] \in Conns
         /\ \A v \in Int : [c EXCEPT !.quiet = v] \in Conns
         /\ \A v \in BOOLEAN : [c EXCEPT !.buffered = v] \in Conns
         /\ \A v \in BOOLEAN : [c EXCEPT !.timer = v] \in Conns
         /\ \A v \in BOOLEAN : [c EXCEPT !.greeted = v] \in Conns
<1>1. \A v \in States : [c EXCEPT !.state = v] \in Conns
  BY DEF Conns
<1>2. \A v \in Steps : [c EXCEPT !.pc = v] \in Conns
  BY DEF Conns
<1>3. \A v \in Reasons : [c EXCEPT !.closedBy = v] \in Conns
  BY DEF Conns
<1>4. \A v \in Types \cup {Undefined} : [c EXCEPT !.type = v] \in Conns
  BY DEF Conns
<1>5. \A v \in Int : [c EXCEPT !.length = v] \in Conns
  BY DEF Conns
<1>6. \A v \in Int : [c EXCEPT !.quiet = v] \in Conns
  BY DEF Conns
<1>7. \A v \in BOOLEAN : [c EXCEPT !.buffered = v] \in Conns
  BY DEF Conns
<1>8. \A v \in BOOLEAN : [c EXCEPT !.timer = v] \in Conns
  BY DEF Conns
<1>9. \A v \in BOOLEAN : [c EXCEPT !.greeted = v] \in Conns
  BY DEF Conns
<1>10. QED
  BY <1>1, <1>2, <1>3, <1>4, <1>5, <1>6, <1>7, <1>8, <1>9, Zenon

LEMMA AbortedConn ==
  ASSUME NEW c \in Conns, NEW why \in Reasons
  PROVE  Aborted(c, why) \in Conns
<1> DEFINE c1 == [c EXCEPT !.state = "closed"]
           c2 == [c1 EXCEPT !.pc = "idle"]
           c3 == [c2 EXCEPT !.timer = FALSE]
           c4 == [c3 EXCEPT !.closedBy = why]
<1>1. c1 \in Conns
  BY Members DEF States
<1> HIDE DEF c1
<1>2. c2 \in Conns
  BY <1>1, Members DEF Steps
<1> HIDE DEF c2
<1>3. c3 \in Conns
  BY <1>2, Members
<1> HIDE DEF c3
<1>4. c4 \in Conns
  BY <1>3, Members
<1>5. Aborted(c, why) = c4
  BY DEF Aborted, c1, c2, c3
<1>6. QED
  BY <1>4, <1>5

\* The connection ends on one side.
LEMMA Aborts ==
  ASSUME ConnInv, NEW e \in Ends, NEW c \in Conns, NEW why \in Reasons \ {"greeting"},
         c.type = conn[e].type, c.length = conn[e].length, c.greeted = conn[e].greeted,
         Run(e, Aborted(c, why), 0, <<>>), UNCHANGED handled
  PROVE  ConnInv'
<1> DEFINE a == Aborted(c, why)
<1>1. a \in Conns /\ a.type = conn[e].type /\ a.length = conn[e].length /\ a.greeted = conn[e].greeted
      /\ a.state = "closed" /\ a.pc = "idle" /\ a.closedBy # "greeting"
  <2>1. a \in Conns
    BY AbortedConn
  <2>2. a.type = c.type /\ a.length = c.length /\ a.greeted = c.greeted /\ a.pc = "idle"
    BY DEF Aborted, Conns
  <2>3. a.state = "closed" /\ a.closedBy = why
    BY DEF Aborted, Conns
  <2>4. QED
    BY <2>1, <2>2, <2>3
<1>2. Saying(sent[e], <<>>)
  BY DEF Saying
<1>3. Writer(conn[e], sent[e])
  BY DEF ConnInv
<1>4. a.greeted <=> sent[e] # <<>>
  BY <1>1, <1>3 DEF Writer
<1> HIDE DEF a
<1>5. ~ Usable(a)
  BY <1>1 DEF Usable
<1>6. QED
  <2>1. Run(e, a, 0, <<>>)
    BY DEF a
  <2>2. QED
    BY <1>1, <1>2, <1>4, <1>5, <2>1, RunsOnTheSpot

-----------------------------------------------------------------------------
(* One lemma per action.                                                   *)

\* What the invariant says of one end.
LEMMA OfEnd ==
  ASSUME ConnInv, NEW e \in Ends
  PROVE  /\ conn[e] \in Conns /\ stream[e] \in Seq(PieceSet) /\ here[e] \in Nat
         /\ sent[e] \in Seq(Messages) /\ sent[Other(e)] \in Seq(Messages)
         /\ here[e] <= Len(stream[e]) /\ Whole(stream[e])
         /\ Reader(conn[e], stream[e], here[e], sent[Other(e)], handled[e])
         /\ Place(conn[e], stream[e], here[e]) /\ Waits(conn[e], stream[e], handled[e])
         /\ Writer(conn[e], sent[e]) /\ Numbered(sent[e]) /\ Numbered(sent[Other(e)])
         /\ conn[e].closedBy # "greeting"
<1>1. Other(e) \in Ends
  BY OtherEnd
<1>2. /\ Reader(conn[e], stream[e], here[e], sent[Other(e)], handled[e])
      /\ Writer(conn[e], sent[e]) /\ Writer(conn[Other(e)], sent[Other(e)])
  BY <1>1 DEF ConnInv
<1>3. QED
  BY <1>2 DEF Reader, Writer, Place

LEMMA ReplyTyped ==
  ASSUME NEW e \in Ends, sent[e] \in Seq(Messages), sent[e] # <<>>, NEW type \in Types
  PROVE  /\ Saying(sent[e], <<>>)
         /\ Saying(sent[e], <<Message(type, Len(sent[e]) + 1)>>)
         /\ type \in KeepAlive => Saying(sent[e], <<Message(type, 0)>>)
<1>1. Len(sent[e]) + 1 \in Nat
  OBVIOUS
<1>2. Message(type, Len(sent[e]) + 1) \in Messages /\ Message(type, 0) \in Messages
  BY <1>1 DEF Message, Messages
<1>3. Message(type, Len(sent[e]) + 1).n = Len(sent[e]) + 1 /\ Message(type, 0).type = type
  BY DEF Message
<1>4. Saying(sent[e], <<Message(type, Len(sent[e]) + 1)>>)
  BY <1>2, <1>3 DEF Saying
<1>5. ASSUME type \in KeepAlive
      PROVE  Saying(sent[e], <<Message(type, 0)>>)
  <2>1. ~ Kept(Message(type, 0))
    BY <1>3, <1>5 DEF Kept
  <2>2. QED
    BY <1>2, <2>1 DEF Saying
<1>6. QED
  BY <1>4, <1>5 DEF Saying

LEMMA GreetingTyped ==
  ASSUME NEW e \in Ends, sent[e] = <<>>
  PROVE  Saying(sent[e], Greeting(e)) /\ Greeting(e) # <<>>
<1> DEFINE m == Message("GREETING", 1)
           n == Message("PUBLICKEY_REQUEST", 2)
<1>1. Len(sent[e]) + 1 = 1 /\ Len(sent[e]) + 2 = 2
  OBVIOUS
<1>2. Greeting(e) = <<m, n>>
  BY <1>1 DEF Greeting
<1>3. m \in Messages /\ n \in Messages
  BY DEF Message, Messages, Types
<1>4. m.type = "GREETING" /\ m.n = 1 /\ n.type = "PUBLICKEY_REQUEST" /\ n.n = 2
  BY DEF Message
<1> HIDE DEF m, n
<1>5. <<m, n>> # <<>>
  BY <1>3, OneThenAnother
<1>6. Saying(sent[e], <<m, n>>)
  BY <1>3, <1>4 DEF Saying
<1>7. QED
  BY <1>2, <1>5, <1>6

LEMMA ConnectedStep ==
  ASSUME ConnInv, Connected
  PROVE  ConnInv'
<1> DEFINE e == Initiator
           c == [New EXCEPT !.greeted = TRUE]
<1>1. e \in Ends
  BY DEF Ends
<1>2. conn[e] = New /\ Run(e, c, 0, Greeting(e)) /\ UNCHANGED handled
  BY DEF Connected
<1>3. New \in Conns
  BY <1>1, <1>2, OfEnd
<1>4. c \in Conns
  BY <1>3, Members
<1>5. /\ c.type = New.type /\ c.length = New.length /\ c.pc = "idle" /\ c.greeted
      /\ c.state = New.state /\ c.alive = New.alive /\ c.closedBy = New.closedBy
      /\ New.closedBy # "greeting" /\ ~ New.greeted /\ c.state # "ReadyForUse"
  BY DEF New
<1>6. sent[e] = <<>>
  BY <1>1, <1>2, <1>5, OfEnd DEF Writer
<1>7. Saying(sent[e], Greeting(e)) /\ Greeting(e) # <<>>
  BY <1>1, <1>6, GreetingTyped
<1>8. c.type = Undefined
  BY <1>5 DEF New
<1>9. Usable(c) => Usable(conn[e])
  BY <1>2, <1>5 DEF Usable
<1> HIDE DEF c, e
<1>10. QED
  BY <1>1, <1>2, <1>4, <1>5, <1>7, <1>8, <1>9, RunsOnTheSpot

LEMMA SendStep ==
  ASSUME ConnInv, NEW e \in Ends, NEW type \in AppTypes, Send(e, type)
  PROVE  ConnInv'
<1>1. /\ Listening(e) /\ conn[e].state = "ReadyForUse" /\ UNCHANGED handled /\ Calm
      /\ Run(e, conn[e], 0, <<Message(type, Len(sent[e]) + 1)>>)
  BY DEF Send
<1>2. conn[e].pc = "idle"
  BY <1>1 DEF Calm
<1>3. conn[e].greeted /\ sent[e] # <<>>
  BY <1>1, OfEnd DEF Writer
<1>4. type \in Types
  BY DEF Types
<1>5. Saying(sent[e], <<Message(type, Len(sent[e]) + 1)>>)
  BY <1>3, <1>4, OfEnd, ReplyTyped
<1>6. QED
  BY <1>1, <1>2, <1>3, <1>5, OfEnd, RunsOnTheSpot

LEMMA SendPingStep ==
  ASSUME ConnInv, NEW e \in Ends, SendPing(e)
  PROVE  ConnInv'
<1>1. Listening(e) /\ conn[e].state = "ReadyForUse" /\ UNCHANGED handled /\ Calm
  BY DEF SendPing
<1>2. CASE Run(e, Aborted(conn[e], "pong"), 0, <<>>)
  <2>1. "pong" \in Reasons \ {"greeting"}
    BY DEF Reasons
  <2>2. QED
    BY <1>1, <1>2, <2>1, OfEnd, Aborts
<1>3. CASE Run(e, [conn[e] EXCEPT !.quiet = @ + 1], 0,
               IF Pinging(e) THEN <<>> ELSE <<Message("PING", 0)>>)
  <2> DEFINE c == [conn[e] EXCEPT !.quiet = @ + 1]
             ms == IF Pinging(e) THEN <<>> ELSE <<Message("PING", 0)>>
  <2>1. conn[e] \in Conns /\ conn[e].quiet + 1 \in Int
    BY OfEnd DEF Conns
  <2>2. c \in Conns
    BY <2>1, Members
  <2>3. /\ c.type = conn[e].type /\ c.length = conn[e].length /\ c.pc = conn[e].pc
        /\ c.greeted = conn[e].greeted
        /\ c.state = conn[e].state /\ c.alive = conn[e].alive /\ c.closedBy = conn[e].closedBy
    BY <2>1 DEF Conns
  <2>4. conn[e].pc = "idle"
    BY <1>1 DEF Calm
  <2>5. conn[e].greeted /\ sent[e] # <<>>
    BY <1>1, OfEnd DEF Writer
  <2>6. "PING" \in Types /\ "PING" \in KeepAlive
    BY DEF Types, KeepAlive
  <2>7. Saying(sent[e], ms)
    BY <2>5, <2>6, OfEnd, ReplyTyped
  <2>8. Usable(c) => Usable(conn[e])
    BY <2>3 DEF Usable
  <2>9. Run(e, c, 0, ms)
    BY <1>3
  <2> HIDE DEF c, ms
  <2>10. conn[e].closedBy # "greeting" /\ Place(conn[e], stream[e], here[e])
    BY OfEnd
  <2>11. QED
    BY <1>1, <2>2, <2>3, <2>4, <2>5, <2>7, <2>8, <2>9, <2>10, RunsOnTheSpot
<1>4. QED
  BY <1>2, <1>3 DEF SendPing

\* The members of one end change, and nothing else but what has arrived.
LEMMA OnlyConn ==
  ASSUME ConnInv, NEW e \in Ends, NEW c \in Conns, NEW h \in Nat, h <= Len(stream[e]),
         conn' = [conn EXCEPT ![e] = c], here' = [here EXCEPT ![e] = h],
         UNCHANGED <<stream, sent, handled>>,
         c.type = conn[e].type, c.length = conn[e].length, Usable(c) => Usable(conn[e]),
         c.pc # "idle" => Usable(c),
         c.type = Undefined => c.pc \in {"idle", "header"},
         c.type # Undefined => c.pc \in {"idle", "enough", "data"},
         c.pc = "data" => c.length > 0 /\ h >= c.length,
         c.state = conn[e].state, c.closedBy = conn[e].closedBy, c.greeted = conn[e].greeted
  PROVE  ConnInv'
<1>1. TypeOK
  BY DEF ConnInv
<1>2. TypeOK'
  BY <1>1 DEF TypeOK
<1>3. Reader(conn[e], stream[e], here[e], sent[Other(e)], handled[e]) /\ Writer(conn[e], sent[e])
      /\ conn[e].closedBy # "greeting"
  BY OfEnd
<1>4. Reader(c, stream[e], h, sent[Other(e)], handled[e])
  BY <1>3, ReadsNothing
<1>5. Writer(c, sent[e])
  BY <1>3 DEF Writer
<1>6. conn'[e] = c /\ here'[e] = h
  BY <1>1 DEF TypeOK
<1>7. ASSUME NEW x \in Ends
      PROVE  /\ Reader(conn'[x], stream'[x], here'[x], sent'[Other(x)], handled'[x])
             /\ Writer(conn'[x], sent'[x])
  <2>1. CASE x = e
    BY <2>1, <1>4, <1>5, <1>6
  <2>2. CASE x # e
    <3>1. conn'[x] = conn[x] /\ here'[x] = here[x]
      BY <2>2, <1>1 DEF TypeOK
    <3>2. Reader(conn[x], stream[x], here[x], sent[Other(x)], handled[x]) /\ Writer(conn[x], sent[x])
      BY DEF ConnInv
    <3>3. QED
      BY <3>1, <3>2
  <2>3. QED
    BY <2>1, <2>2
<1>8. QED
  BY <1>2, <1>7 DEF ConnInv

LEMMA ReadyReadStep ==
  ASSUME ConnInv, NEW e \in Ends, NEW n \in 1 .. Len(stream[e]) - here[e], ReadyRead(e, n)
  PROVE  ConnInv'
<1> DEFINE p == IF conn[e].type = Undefined THEN "header" ELSE "enough"
           c == [conn[e] EXCEPT !.pc = p]
           h == here[e] + n
<1>1. conn[e] \in Conns /\ here[e] \in Nat /\ here[e] <= Len(stream[e]) /\ Listening(e)
      /\ stream[e] \in Seq(PieceSet)
  BY OfEnd DEF ReadyRead
<1>2. h \in Nat /\ h <= Len(stream[e])
  BY <1>1
<1>3. here' = [here EXCEPT ![e] = h] /\ UNCHANGED <<stream, sent, handled>>
  BY DEF ReadyRead
<1>4. conn' = [conn EXCEPT ![e] = c]
  BY DEF ReadyRead
<1>5. p \in Steps /\ p \in {"header", "enough"}
  BY DEF Steps
<1> HIDE DEF p, h
<1>6. c \in Conns
  BY <1>1, <1>5, Members
<1>7. /\ c.type = conn[e].type /\ c.length = conn[e].length /\ c.pc = p
      /\ c.greeted = conn[e].greeted
      /\ c.state = conn[e].state /\ c.alive = conn[e].alive /\ c.closedBy = conn[e].closedBy
  BY <1>1, <1>5 DEF Conns
<1>8. Usable(c) /\ Usable(conn[e])
  BY <1>1, <1>7 DEF Usable, Listening
<1>9. IF c.type = Undefined THEN c.pc = "header" ELSE c.pc = "enough"
  BY <1>7 DEF p
<1> HIDE DEF c
<1>10. QED
  BY <1>2, <1>3, <1>4, <1>6, <1>7, <1>8, <1>9, OnlyConn

LEMMA VanishStep ==
  ASSUME ConnInv, NEW e \in Ends, Vanish(e)
  PROVE  ConnInv'
<1> DEFINE c == [conn[e] EXCEPT !.alive = FALSE]
<1>1. conn[e] \in Conns /\ here[e] \in Nat /\ here[e] <= Len(stream[e])
  BY OfEnd
<1>2. c \in Conns
  BY <1>1 DEF Conns
<1>3. conn' = [conn EXCEPT ![e] = c] /\ UNCHANGED <<stream, here, sent, handled>> /\ Calm
  BY DEF Vanish
<1>4. here' = [here EXCEPT ![e] = here[e]]
  BY <1>3 DEF ConnInv, TypeOK
<1>5. /\ c.type = conn[e].type /\ c.length = conn[e].length /\ c.pc = conn[e].pc
      /\ c.greeted = conn[e].greeted
      /\ c.state = conn[e].state /\ ~ c.alive /\ c.closedBy = conn[e].closedBy
  BY <1>1 DEF Conns
<1>6. c.pc = "idle"
  BY <1>3, <1>5 DEF Calm
<1>7. ~ Usable(c)
  BY <1>5 DEF Usable
<1> HIDE DEF c
<1>8. QED
  BY <1>1, <1>2, <1>3, <1>4, <1>5, <1>6, <1>7, OnlyConn

LEMMA EndStep ==
  ASSUME ConnInv, NEW e \in Ends, TimerEvent(e) \/ Disconnected(e)
  PROVE  ConnInv'
<1>1. "transfer" \in Reasons \ {"greeting"} /\ "peer" \in Reasons \ {"greeting"}
  BY DEF Reasons
<1>2. CASE TimerEvent(e)
  BY <1>1, <1>2, OfEnd, Aborts DEF TimerEvent
<1>3. CASE Disconnected(e)
  BY <1>1, <1>3, OfEnd, Aborts DEF Disconnected
<1>4. QED
  BY <1>2, <1>3

\* What dataLengthForCurrentDataType finds at piece b of a header.
LEMMA DataLengthOf ==
  ASSUME ConnInv, NEW e \in Ends, NEW k \in Nat, k <= here[e], k < Len(stream[e]),
         NEW b \in {3, 4}, stream[e][k + 1].at = b
  PROVE  LET d == DataLength(e, k)
         IN  /\ d.read \in 0 .. 5 - b /\ k + d.read <= here[e]
             /\ IF b + d.read = 5 THEN d.length = Size(stream[e][k + 1].of) ELSE d.length = 0
             /\ d.buffered \in BOOLEAN
<1> DEFINE rest == SubSeq(stream[e], k + 1, here[e])
           headNow == rest # <<>> /\ Head(rest).at = LengthHead
           whole == IF headNow THEN 2 ELSE 1
           d == DataLength(e, k)
<1> SUFFICES /\ d.read \in 0 .. 5 - b /\ k + d.read <= here[e]
             /\ IF b + d.read = 5 THEN d.length = Size(stream[e][k + 1].of) ELSE d.length = 0
             /\ d.buffered \in BOOLEAN
  OBVIOUS
<1>0. /\ stream[e] \in Seq(PieceSet) /\ here[e] \in Nat /\ here[e] <= Len(stream[e])
      /\ conn[e].buffered \in BOOLEAN
  BY OfEnd DEF Conns
<1>1. rest \in Seq(PieceSet) /\ Len(rest) = here[e] - k
      /\ (here[e] # k => rest[1] = stream[e][k + 1])
  <2>1. \A i \in k + 1 .. here[e] : stream[e][i] \in PieceSet
    BY <1>0
  <2>2. PICK h \in Nat : h = here[e]
    BY <1>0
  <2>3. rest \in Seq(PieceSet) /\ Len(rest) = (IF k + 1 <= h THEN h - (k + 1) + 1 ELSE 0)
        /\ \A i \in 1 .. h - (k + 1) + 1 : rest[i] = stream[e][k + 1 + i - 1]
    BY <2>1, <2>2, SubSeqProperties
  <2> HIDE DEF rest
  <2>4. Len(rest) = h - k
    BY <2>2, <2>3
  <2>5. h # k => 1 \in 1 .. h - (k + 1) + 1 /\ k + 1 + 1 - 1 = k + 1
    BY <2>2
  <2>6. QED
    BY <2>2, <2>3, <2>4, <2>5
<1>2. d = IF rest = <<>> THEN [read |-> 0, length |-> 0, buffered |-> conn[e].buffered]
          ELSE IF Len(rest) < whole THEN [read |-> 1, length |-> 0, buffered |-> TRUE]
          ELSE [read |-> whole, length |-> Size(Head(rest).of), buffered |-> FALSE]
  BY DEF DataLength
<1>3. rest # <<>> => Head(rest) = rest[1]
  BY <1>1
<1>4. rest # <<>> <=> here[e] # k
  BY <1>0, <1>1
<1>5. headNow <=> (here[e] # k /\ b = 3)
  BY <1>1, <1>3, <1>4 DEF LengthHead
<1> HIDE DEF headNow, rest, d
<1>6. CASE rest = <<>>
  <2>1. d = [read |-> 0, length |-> 0, buffered |-> conn[e].buffered]
    BY <1>2, <1>6
  <2>2. d.read = 0 /\ d.length = 0 /\ d.buffered = conn[e].buffered
    BY <2>1
  <2>3. 0 \in 0 .. 5 - b /\ k + 0 <= here[e] /\ b + 0 # 5
    OBVIOUS
  <2>4. QED
    BY <1>0, <2>2, <2>3
<1>7. CASE rest # <<>> /\ Len(rest) < whole
  <2>1. d = [read |-> 1, length |-> 0, buffered |-> TRUE]
    BY <1>2, <1>7
  <2>2. d.read = 1 /\ d.length = 0 /\ d.buffered = TRUE
    BY <2>1
  <2>3. here[e] # k /\ here[e] - k < whole
    BY <1>1, <1>4, <1>7
  <2>4. b = 3
    BY <1>0, <1>5, <2>3
  <2>5. 1 \in 0 .. 5 - b /\ k + 1 <= here[e] /\ b + 1 # 5
    BY <1>0, <2>3, <2>4
  <2>6. d.buffered \in BOOLEAN
    BY <2>2
  <2>7. d.read \in 0 .. 5 - b /\ k + d.read <= here[e] /\ b + d.read # 5 /\ d.length = 0
    BY <2>2, <2>5
  <2>8. QED
    BY <2>6, <2>7
<1>8. CASE rest # <<>> /\ ~ (Len(rest) < whole)
  <2>1. d = [read |-> whole, length |-> Size(Head(rest).of), buffered |-> FALSE]
    BY <1>2, <1>8
  <2>2. d.read = whole /\ d.length = Size(Head(rest).of) /\ d.buffered = FALSE
    BY <2>1
  <2>3. here[e] # k /\ ~ (here[e] - k < whole) /\ Head(rest) = stream[e][k + 1]
    BY <1>1, <1>3, <1>4, <1>8
  <2>4. b + whole = 5 /\ whole \in {1, 2}
    BY <1>5, <2>3
  <2> HIDE DEF whole
  <2>5. d.buffered \in BOOLEAN
    BY <2>2
  <2>6. d.read \in 0 .. 5 - b /\ k + d.read <= here[e] /\ b + d.read = 5
    BY <1>0, <2>2, <2>3, <2>4
  <2>7. d.length = Size(stream[e][k + 1].of)
    BY <2>2, <2>3
  <2>8. QED
    BY <2>5, <2>6, <2>7
<1>9. QED
  BY <1>6, <1>7, <1>8

LEMMA HeaderStep ==
  ASSUME ConnInv, NEW e \in Ends, ReadProtocolHeader(e)
  PROVE  ConnInv'
<1> DEFINE c == [conn[e] EXCEPT !.timer = FALSE]
           s == stream[e]
           type == s[1].of.type
           data == DataLength(e, 2)
           next == [c EXCEPT !.pc = "enough", !.type = type, !.length = data.length,
                             !.buffered = data.buffered]
           start == [next EXCEPT !.state = IF @ = "WaitingForGreeting" THEN "ReadingGreeting" ELSE @]
<1>1. /\ conn[e] \in Conns /\ s \in Seq(PieceSet) /\ here[e] \in Nat /\ here[e] <= Len(s)
      /\ Place(conn[e], s, here[e]) /\ Waits(conn[e], s, handled[e]) /\ Whole(s)
      /\ Writer(conn[e], sent[e]) /\ conn[e].closedBy # "greeting"
      /\ Reader(conn[e], s, here[e], sent[Other(e)], handled[e])
      /\ sent[Other(e)] \in Seq(Messages) /\ Numbered(sent[Other(e)])
  BY OfEnd
<1>2. conn[e].pc = "header" /\ UNCHANGED handled
  BY DEF ReadProtocolHeader
<1>3. conn[e].type = Undefined /\ Usable(conn[e]) /\ (s # <<>> => s[1].at = 1)
  BY <1>1, <1>2 DEF Place
<1>4. c \in Conns
  BY <1>1 DEF Conns
<1>5. /\ c.type = conn[e].type /\ c.length = conn[e].length /\ c.pc = conn[e].pc
      /\ c.greeted = conn[e].greeted
      /\ c.state = conn[e].state /\ c.alive = conn[e].alive /\ c.closedBy = conn[e].closedBy
      /\ c.buffered = conn[e].buffered /\ c.timer = FALSE
  BY <1>1 DEF Conns
<1>6. CASE here[e] = 0
  <2> DEFINE c2 == [c EXCEPT !.timer = TRUE, !.pc = "idle"]
             c1 == [c EXCEPT !.timer = TRUE]
  <2>1. Run(e, c2, 0, <<>>)
    BY <1>6 DEF ReadProtocolHeader
  <2>2. c1 \in Conns
    BY <1>4, Members
  <2>3. c2 \in Conns
    <3>1. [c1 EXCEPT !.pc = "idle"] \in Conns
      <4> HIDE DEF c1
      <4>1. QED
        BY <2>2, Members DEF Steps
    <3>2. QED
      BY <3>1
  <2>4. /\ c2.type = c.type /\ c2.length = c.length /\ c2.pc = "idle"
        /\ c2.greeted = c.greeted
        /\ c2.state = c.state /\ c2.alive = c.alive /\ c2.closedBy = c.closedBy
    <3> HIDE DEF c
    <3>1. QED
      BY <1>4 DEF Conns
  <2>5. Saying(sent[e], <<>>)
    BY DEF Saying
  <2>6. Usable(c2)
    BY <1>3, <1>5, <2>4 DEF Usable
  <2> HIDE DEF c2, c
  <2>7. QED
    BY <1>1, <1>2, <1>3, <1>5, <2>1, <2>3, <2>4, <2>5, <2>6, RunsOnTheSpot DEF Writer
<1>7. CASE here[e] # 0 /\ (here[e] = 1 \/ s[1].at # TokenHead)
  <2>1. Run(e, Aborted(c, "token"), 0, <<>>)
    BY <1>7 DEF ReadProtocolHeader
  <2>2. "token" \in Reasons \ {"greeting"}
    BY DEF Reasons
  <2> HIDE DEF c
  <2>3. QED
    BY <1>2, <1>4, <1>5, <2>1, <2>2, Aborts
<1> DEFINE Whether == here[e] # 0 /\ ~ (here[e] = 1 \/ s[1].at # TokenHead)
<1>8. CASE Whether /\ c.state = "WaitingForGreeting" /\ type # "GREETING"
  <2>1. s # <<>>
    BY <1>1, <1>8
  <2>2. type = "GREETING"
    BY <1>1, <1>5, <1>8, <2>1 DEF Waits
  <2>3. QED
    BY <1>8, <2>2
<1>9. CASE Whether /\ ~ (c.state = "WaitingForGreeting" /\ type # "GREETING")
  <2>1. Run(e, start, 2 + data.read, <<>>)
    BY <1>9 DEF ReadProtocolHeader
  <2>2. here[e] >= 2 /\ s # <<>> /\ s[1].at = 1
    BY <1>1, <1>3, <1>9
  <2>3. /\ 5 <= Len(s)
        /\ \A i \in 1 .. 5 : s[i] \in PieceSet /\ s[i].of = s[1].of /\ s[i].at = 1 + i - 1
    <3>1. 6 - 1 <= Len(s)
          /\ \A i \in 1 .. 6 - 1 : s[i] \in PieceSet /\ s[i].of = s[1].of /\ s[i].at = 1 + i - 1
      BY <1>1, <2>2, HeaderAhead
    <3>2. 6 - 1 = 5
      OBVIOUS
    <3>3. QED
      BY <3>1, <3>2
  <2>4. s[2 + 1].at = 3 /\ s[2 + 1].of = s[1].of /\ 2 < Len(s)
    <3>1. 2 + 1 \in 1 .. 5 /\ 1 + (2 + 1) - 1 = 3
      OBVIOUS
    <3>2. QED
      BY <1>1, <2>3, <3>1
  <2>5. /\ data.read \in 0 .. 2 /\ 2 + data.read <= here[e]
        /\ IF 3 + data.read = 5 THEN data.length = Size(s[1].of) ELSE data.length = 0
        /\ data.buffered \in BOOLEAN
    <3>1. /\ data.read \in 0 .. 5 - 3 /\ 2 + data.read <= here[e]
          /\ IF 3 + data.read = 5 THEN data.length = Size(s[2 + 1].of) ELSE data.length = 0
          /\ data.buffered \in BOOLEAN
      BY <2>2, <2>4, DataLengthOf
    <3>2. 5 - 3 = 2
      OBVIOUS
    <3>3. QED
      BY <2>4, <3>1, <3>2
  <2> HIDE DEF data
  <2>6. data.length \in Int /\ type \in Types
    <3>1. Size(s[1].of) \in {1, 2}
      BY SizeOf
    <3>2. s[1] \in PieceSet
      BY <1>1, <2>2
    <3>3. QED
      BY <2>5, <3>1, <3>2 DEF PieceSet, Messages
  <2> HIDE DEF type
  <2> DEFINE n1 == [c EXCEPT !.pc = "enough"]
             n2 == [n1 EXCEPT !.type = type]
             n3 == [n2 EXCEPT !.length = data.length]
             n4 == [n3 EXCEPT !.buffered = data.buffered]
             n5 == [n4 EXCEPT !.state = IF @ = "WaitingForGreeting" THEN "ReadingGreeting" ELSE @]
  <2>7. n1 \in Conns /\ n1.pc = "enough" /\ n1.state = c.state /\ n1.alive = c.alive
        /\ n1.greeted = c.greeted /\ n1.closedBy = c.closedBy
    <3> HIDE DEF c
    <3>1. n1 \in Conns
      BY <1>4, Members DEF Steps
    <3>2. QED
      BY <1>4, <3>1 DEF Conns
  <2>e. start = n5
    OBVIOUS
  <2> HIDE DEF n1, start
  <2>8. n2 \in Conns /\ n2.pc = n1.pc /\ n2.state = n1.state /\ n2.alive = n1.alive
        /\ n2.greeted = n1.greeted /\ n2.closedBy = n1.closedBy /\ n2.type = type
    <3>1. n2 \in Conns
      BY <2>6, <2>7, Members
    <3>2. QED
      BY <2>7, <3>1 DEF Conns
  <2> HIDE DEF n2
  <2>9. n3 \in Conns /\ n3.pc = n2.pc /\ n3.state = n2.state /\ n3.alive = n2.alive
        /\ n3.greeted = n2.greeted /\ n3.closedBy = n2.closedBy /\ n3.type = n2.type
        /\ n3.length = data.length
    <3>1. n3 \in Conns
      BY <2>6, <2>8, Members
    <3>2. QED
      BY <2>8, <3>1 DEF Conns
  <2> HIDE DEF n3
  <2>10. n4 \in Conns /\ n4.pc = n3.pc /\ n4.state = n3.state /\ n4.alive = n3.alive
         /\ n4.greeted = n3.greeted /\ n4.closedBy = n3.closedBy /\ n4.type = n3.type
         /\ n4.length = n3.length
    <3>1. n4 \in Conns
      BY <2>5, <2>9, Members
    <3>2. QED
      BY <2>9, <3>1 DEF Conns
  <2> HIDE DEF n4
  <2>11. n5 \in Conns /\ n5.pc = n4.pc /\ n5.alive = n4.alive
         /\ n5.greeted = n4.greeted /\ n5.closedBy = n4.closedBy /\ n5.type = n4.type
         /\ n5.length = n4.length
         /\ n5.state = IF n4.state = "WaitingForGreeting" THEN "ReadingGreeting" ELSE n4.state
    <3>1. (IF n4.state = "WaitingForGreeting" THEN "ReadingGreeting" ELSE n4.state) \in States
      BY <2>10 DEF Conns, States
    <3>2. n5 \in Conns
      BY <2>10, <3>1, Members
    <3>3. QED
      BY <2>10, <3>2 DEF Conns
  <2> HIDE DEF n5
  <2>12. start \in Conns /\ start.pc = "enough" /\ start.alive = conn[e].alive
         /\ start.greeted = conn[e].greeted /\ start.closedBy # "greeting" /\ start.type = type
         /\ start.length = data.length
         /\ start.state = IF conn[e].state = "WaitingForGreeting" THEN "ReadingGreeting"
                          ELSE conn[e].state
    BY <1>1, <1>5, <2>e, <2>7, <2>8, <2>9, <2>10, <2>11
  <2>13. Usable(start)
    BY <1>3, <2>12 DEF Usable
  <2>14. start.state # "WaitingForGreeting"
         /\ (start.state = "ReadyForUse" => conn[e].state = "ReadyForUse")
    BY <2>12
  <2> DEFINE k == 2 + data.read
  <2>15. k \in 0 .. 5 - 1 /\ k <= here[e] /\ 1 + k \in {3, 4, 5} /\ (1 + k = 5 <=> 3 + data.read = 5)
    BY <1>1, <2>5
  <2>16. IF 1 + k = 5 THEN start.length = Size(s[1].of) ELSE start.length <= 0
    BY <2>5, <2>12, <2>15
  <2> HIDE DEF k
  <2>17. Reader(start, SubSeq(s, k + 1, Len(s)), here[e] - k, sent[Other(e)], handled[e])
    <3>1. PastHeader(start, s, here[e], 1, k)
      BY <2>2, <2>12, <2>13, <2>14, <2>15, <2>16 DEF PastHeader, type
    <3>2. /\ Reader(conn[e], s, here[e], sent[Other(e)], handled[e])
          /\ sent[Other(e)] \in Seq(Messages) /\ Numbered(sent[Other(e)])
      BY <1>1
    <3>3. s # <<>> /\ Usable(conn[e])
      BY <1>3, <2>2
    <3>4. QED
      BY <3>1, <3>2, <3>3, ReadsHeader
  <2>18. handled' \in [Ends -> Seq(Heard)] /\ handled'[Other(e)] = handled[Other(e)]
         /\ handled'[e] = handled[e]
    BY <1>2 DEF ConnInv, TypeOK
  <2>19. Saying(sent[e], <<>>)
    BY DEF Saying
  <2>20. Run(e, start, k, <<>>)
    BY <2>1 DEF k
  <2>21. start.greeted <=> sent[e] # <<>>
    BY <1>1, <2>12 DEF Writer
  <2>22. start.state = "ReadyForUse" => start.greeted
    BY <1>1, <2>12, <2>14 DEF Writer
  <2>23. QED
    BY <2>12, <2>17, <2>18, <2>19, <2>20, <2>21, <2>22, Runs
<1>10. QED
  BY <1>6, <1>7, <1>8, <1>9

LEMMA EnoughStep ==
  ASSUME ConnInv, NEW e \in Ends, HasEnoughData(e)
  PROVE  ConnInv'
<1> DEFINE s == stream[e]
           data == IF conn[e].length <= 0 THEN DataLength(e, 0)
                   ELSE [read |-> 0, length |-> conn[e].length, buffered |-> conn[e].buffered]
           short == here[e] - data.read < data.length \/ data.length <= 0
           c1 == [conn[e] EXCEPT !.length = data.length]
           c2 == [c1 EXCEPT !.buffered = data.buffered]
           p == IF short THEN "idle" ELSE "data"
           c3 == [c2 EXCEPT !.pc = p]
           c == [c3 EXCEPT !.timer = short]
<1>1. /\ conn[e] \in Conns /\ s \in Seq(PieceSet) /\ here[e] \in Nat /\ here[e] <= Len(s)
      /\ Place(conn[e], s, here[e]) /\ Waits(conn[e], s, handled[e]) /\ Whole(s)
      /\ Writer(conn[e], sent[e]) /\ conn[e].closedBy # "greeting"
      /\ Reader(conn[e], s, here[e], sent[Other(e)], handled[e])
      /\ sent[Other(e)] \in Seq(Messages) /\ Numbered(sent[Other(e)])
  BY OfEnd
<1>2. conn[e].pc = "enough" /\ UNCHANGED handled /\ Run(e, c, data.read, <<>>)
  BY DEF HasEnoughData
<1>3. Usable(conn[e]) /\ conn[e].type # Undefined
  BY <1>1, <1>2 DEF Place
<1>4. /\ s # <<>> /\ s[1].of.type = conn[e].type
      /\ IF conn[e].length > 0 THEN s[1].at = Header + 1 /\ conn[e].length = Size(s[1].of)
         ELSE s[1].at \in {LengthHead, Header}
  BY <1>1, <1>3 DEF Place
<1>5. conn[e].state # "WaitingForGreeting"
  BY <1>1, <1>3 DEF Waits
<1>6. conn[e].length \in Int /\ conn[e].buffered \in BOOLEAN
  BY <1>1 DEF Conns
<1>7. CASE conn[e].length <= 0
  <2>1. s[1].at \in {3, 4} /\ 0 < Len(s)
    BY <1>1, <1>4, <1>6, <1>7 DEF LengthHead, Header
  <2>2. PICK b \in {3, 4} : s[1].at = b
    BY <2>1
  <2>3. /\ data.read \in 0 .. 5 - b /\ 0 + data.read <= here[e]
        /\ IF b + data.read = 5 THEN data.length = Size(s[0 + 1].of) ELSE data.length = 0
        /\ data.buffered \in BOOLEAN
    <3>1. s[0 + 1].at = b /\ 0 <= here[e]
      BY <1>1, <2>2
    <3>2. data = DataLength(e, 0)
      BY <1>7
    <3> HIDE DEF data
    <3>3. QED
      BY <2>1, <3>1, <3>2, DataLengthOf
  <2>4. Size(s[1].of) \in {1, 2}
    BY SizeOf
  <2> HIDE DEF data
  <2>5. /\ data.read \in Nat /\ data.length \in Int /\ data.buffered \in BOOLEAN
        /\ data.read <= here[e]
    BY <1>1, <2>3, <2>4
  <2>6. short \in BOOLEAN /\ p \in Steps
    BY DEF Steps
  <2>6a. p \in {"idle", "data"} /\ (p = "data" => data.length > 0 /\ here[e] - data.read >= data.length)
    BY <1>1, <2>5
  <2> HIDE DEF p, short
  <2>7. c1 \in Conns /\ c1.type = conn[e].type /\ c1.length = data.length
        /\ c1.state = conn[e].state /\ c1.alive = conn[e].alive
        /\ c1.greeted = conn[e].greeted /\ c1.closedBy = conn[e].closedBy
    <3>1. c1 \in Conns
      BY <1>1, <2>5, Members
    <3>2. QED
      BY <1>1, <3>1 DEF Conns
  <2> HIDE DEF c1
  <2>8. c2 \in Conns /\ c2.type = c1.type /\ c2.length = c1.length
        /\ c2.state = c1.state /\ c2.alive = c1.alive
        /\ c2.greeted = c1.greeted /\ c2.closedBy = c1.closedBy
    <3>1. c2 \in Conns
      BY <2>5, <2>7, Members
    <3>2. QED
      BY <2>7, <3>1 DEF Conns
  <2> HIDE DEF c2
  <2>9. c3 \in Conns /\ c3.type = c2.type /\ c3.length = c2.length /\ c3.pc = p
        /\ c3.state = c2.state /\ c3.alive = c2.alive
        /\ c3.greeted = c2.greeted /\ c3.closedBy = c2.closedBy
    <3>1. c3 \in Conns
      BY <2>6, <2>8, Members
    <3>2. QED
      BY <2>8, <3>1 DEF Conns
  <2> HIDE DEF c3
  <2>10. c \in Conns /\ c.type = c3.type /\ c.length = c3.length /\ c.pc = c3.pc
        /\ c.state = c3.state /\ c.alive = c3.alive
        /\ c.greeted = c3.greeted /\ c.closedBy = c3.closedBy
    <3>1. c \in Conns
      BY <2>6, <2>9, Members
    <3>2. QED
      BY <2>9, <3>1 DEF Conns
  <2> HIDE DEF c
  <2>11. c.type = s[1].of.type /\ c.length = data.length /\ c.pc = p
         /\ c.state = conn[e].state /\ c.alive = conn[e].alive
         /\ c.greeted = conn[e].greeted /\ c.closedBy = conn[e].closedBy
    BY <1>4, <2>7, <2>8, <2>9, <2>10
  <2>12. Usable(c)
    BY <1>3, <2>11 DEF Usable
  <2> DEFINE k == data.read
  <2>13. k \in 0 .. 5 - b /\ k <= here[e] /\ b + k \in {3, 4, 5}
    BY <1>1, <2>3, <2>5
  <2>14. IF b + k = 5 THEN c.length = Size(s[1].of) ELSE c.length <= 0
    BY <2>3, <2>11
  <2>15. c.pc \in {"idle", "enough", "data"} /\ (c.pc = "data" => c.length > 0 /\ here[e] - k >= c.length)
    BY <2>6a, <2>11
  <2>16. Run(e, c, k, <<>>)
    BY <1>2
  <2> HIDE DEF k
  <2>17. Reader(c, SubSeq(s, k + 1, Len(s)), here[e] - k, sent[Other(e)], handled[e])
    <3>1. c.state # "WaitingForGreeting" /\ c.closedBy # "greeting"
      BY <1>1, <1>5, <2>11 DEF Reader
    <3>2. b \in {1, 3, 4} /\ s[1].at = b /\ s # <<>> /\ c \in Conns /\ c.type = s[1].of.type
      BY <1>4, <2>2, <2>10, <2>11
    <3>3. /\ Reader(conn[e], s, here[e], sent[Other(e)], handled[e])
          /\ sent[Other(e)] \in Seq(Messages) /\ Numbered(sent[Other(e)])
      BY <1>1
    <3>4. PastHeader(c, s, here[e], b, k)
      BY <2>12, <2>13, <2>14, <2>15, <3>1, <3>2 DEF PastHeader
    <3>5. QED
      BY <1>3, <3>2, <3>3, <3>4, ReadsHeader
  <2>18. handled' \in [Ends -> Seq(Heard)] /\ handled'[Other(e)] = handled[Other(e)]
         /\ handled'[e] = handled[e]
    BY <1>2 DEF ConnInv, TypeOK
  <2>19. Saying(sent[e], <<>>)
    BY DEF Saying
  <2>20. (c.greeted <=> sent[e] # <<>>) /\ (c.state = "ReadyForUse" => c.greeted)
    BY <1>1, <2>11 DEF Writer
  <2>21. QED
    BY <2>10, <2>16, <2>17, <2>18, <2>19, <2>20, Runs
<1>8. CASE conn[e].length > 0
  <2>1. data = [read |-> 0, length |-> conn[e].length, buffered |-> conn[e].buffered]
    BY <1>6, <1>8
  <2>2. data.read = 0 /\ data.length = conn[e].length /\ data.buffered = conn[e].buffered
    BY <2>1
  <2> HIDE DEF data
  <2>6. short \in BOOLEAN /\ p \in Steps
    BY DEF Steps
  <2>6a. p \in {"idle", "data"} /\ (p = "data" => data.length > 0 /\ here[e] >= data.length)
    BY <1>1, <1>6, <2>2
  <2> HIDE DEF p, short
  <2>7. c1 \in Conns /\ c1.type = conn[e].type /\ c1.length = conn[e].length
        /\ c1.state = conn[e].state /\ c1.alive = conn[e].alive
        /\ c1.greeted = conn[e].greeted /\ c1.closedBy = conn[e].closedBy
    <3>1. c1 \in Conns
      BY <1>1, <1>6, <2>2, Members
    <3>2. QED
      BY <1>1, <2>2, <3>1 DEF Conns
  <2> HIDE DEF c1
  <2>8. c2 \in Conns /\ c2.type = c1.type /\ c2.length = c1.length
        /\ c2.state = c1.state /\ c2.alive = c1.alive
        /\ c2.greeted = c1.greeted /\ c2.closedBy = c1.closedBy
    <3>1. c2 \in Conns
      BY <1>6, <2>2, <2>7, Members
    <3>2. QED
      BY <2>7, <3>1 DEF Conns
  <2> HIDE DEF c2
  <2>9. c3 \in Conns /\ c3.type = c2.type /\ c3.length = c2.length /\ c3.pc = p
        /\ c3.state = c2.state /\ c3.alive = c2.alive
        /\ c3.greeted = c2.greeted /\ c3.closedBy = c2.closedBy
    <3>1. c3 \in Conns
      BY <2>6, <2>8, Members
    <3>2. QED
      BY <2>8, <3>1 DEF Conns
  <2> HIDE DEF c3
  <2>10. c \in Conns /\ c.type = c3.type /\ c.length = c3.length /\ c.pc = c3.pc
        /\ c.state = c3.state /\ c.alive = c3.alive
        /\ c.greeted = c3.greeted /\ c.closedBy = c3.closedBy
    <3>1. c \in Conns
      BY <2>6, <2>9, Members
    <3>2. QED
      BY <2>9, <3>1 DEF Conns
  <2> HIDE DEF c
  <2>11. c.type = conn[e].type /\ c.length = conn[e].length /\ c.pc = p
         /\ c.state = conn[e].state /\ c.alive = conn[e].alive
         /\ c.greeted = conn[e].greeted /\ c.closedBy = conn[e].closedBy
    BY <2>7, <2>8, <2>9, <2>10
  <2>12. Usable(c)
    BY <1>3, <2>11 DEF Usable
  <2>13. Run(e, c, 0, <<>>)
    BY <1>2, <2>2
  <2>14. Saying(sent[e], <<>>)
    BY DEF Saying
  <2>15. (c.greeted <=> sent[e] # <<>>) /\ (c.state = "ReadyForUse" => c.greeted)
    BY <1>1, <2>11 DEF Writer
  <2>16. QED
    BY <1>1, <1>2, <1>3, <2>2, <2>6a, <2>10, <2>11, <2>12, <2>13, <2>14, <2>15, RunsOnTheSpot
<1>9. QED
  BY <1>6, <1>7, <1>8

\* The pieces of a payload are taken.
LEMMA TakeStep ==
  ASSUME ConnInv, NEW e \in Ends, conn[e].pc = "data", Take(e),
         NEW c \in Conns, Usable(c), c.type = Undefined, c.pc \in {"idle", "header"},
         c.state # "WaitingForGreeting", c.closedBy # "greeting",
         NEW ms, Run(e, c, conn[e].length, ms), Saying(sent[e], ms),
         c.greeted <=> (sent[e] # <<>> \/ ms # <<>>), c.state = "ReadyForUse" => c.greeted
  PROVE  ConnInv'
<1> DEFINE x == Append(handled[e], [type |-> conn[e].type, data |-> SubSeq(stream[e], 1, conn[e].length)])
           y == IF conn[e].type \in KeepAlive THEN handled[e] ELSE x
<1>1. handled \in [Ends -> Seq(Heard)]
  BY DEF ConnInv, TypeOK
<1>2. handled' = IF conn[e].type \in KeepAlive THEN handled ELSE [handled EXCEPT ![e] = x]
  BY DEF Take
<1>3. IF conn[e].type \in KeepAlive THEN y = handled[e] ELSE y = x
  OBVIOUS
<1>4. Reader(c, SubSeq(stream[e], conn[e].length + 1, Len(stream[e])), here[e] - conn[e].length,
             sent[Other(e)], y)
  BY <1>3, OfEnd, ReadsPayload
<1> HIDE DEF x, y
<1>5. y \in Seq(Heard)
  BY <1>4 DEF Reader
<1>6. Other(e) \in Ends /\ Other(e) # e
  BY OtherEnd
<1>7. handled' \in [Ends -> Seq(Heard)] /\ handled'[Other(e)] = handled[Other(e)] /\ handled'[e] = y
  BY <1>1, <1>2, <1>3, <1>5, <1>6
<1>8. QED
  BY <1>4, <1>7, Runs

LEMMA ReadGreetingStep ==
  ASSUME ConnInv, NEW e \in Ends, ReadGreeting(e)
  PROVE  ConnInv'
<1> DEFINE ms == IF conn[e].greeted THEN <<>> ELSE Greeting(e)
           c == [conn[e] EXCEPT !.state = "ReadyForUse", !.pc = "header", !.type = Undefined,
                                !.length = 0, !.greeted = TRUE, !.quiet = 0]
           c1 == [conn[e] EXCEPT !.state = "ReadyForUse"]
           c2 == [c1 EXCEPT !.pc = "header"]
           c3 == [c2 EXCEPT !.type = Undefined]
           c4 == [c3 EXCEPT !.length = 0]
           c5 == [c4 EXCEPT !.greeted = TRUE]
           c6 == [c5 EXCEPT !.quiet = 0]
<1>1. conn[e].pc = "data" /\ Run(e, c, conn[e].length, ms) /\ Take(e)
  BY DEF ReadGreeting
<1>2. /\ conn[e] \in Conns /\ Place(conn[e], stream[e], here[e]) /\ Writer(conn[e], sent[e])
      /\ conn[e].closedBy # "greeting"
  BY OfEnd
<1>3. Usable(conn[e])
  BY <1>1, <1>2 DEF Place
<1>e. c = c6
  OBVIOUS
<1> HIDE DEF c
<1>4. c1 \in Conns /\ c1.alive = conn[e].alive /\ c1.closedBy = conn[e].closedBy
      /\ c1.state = "ReadyForUse"
  <2>1. c1 \in Conns
    BY <1>2, Members DEF States
  <2>2. QED
    BY <1>2, <2>1 DEF Conns
<1> HIDE DEF c1
<1>5. c2 \in Conns /\ c2.alive = c1.alive /\ c2.closedBy = c1.closedBy /\ c2.state = c1.state
      /\ c2.pc = "header"
  <2>1. c2 \in Conns
    BY <1>4, Members DEF Steps
  <2>2. QED
    BY <1>4, <2>1 DEF Conns
<1> HIDE DEF c2
<1>6. c3 \in Conns /\ c3.alive = c2.alive /\ c3.closedBy = c2.closedBy /\ c3.state = c2.state
      /\ c3.pc = c2.pc /\ c3.type = Undefined
  <2>1. c3 \in Conns
    BY <1>5, Members
  <2>2. QED
    BY <1>5, <2>1 DEF Conns
<1> HIDE DEF c3
<1>7. c4 \in Conns /\ c4.alive = c3.alive /\ c4.closedBy = c3.closedBy /\ c4.state = c3.state
      /\ c4.pc = c3.pc /\ c4.type = c3.type
  <2>1. c4 \in Conns
    BY <1>6, Members
  <2>2. QED
    BY <1>6, <2>1 DEF Conns
<1> HIDE DEF c4
<1>8. c5 \in Conns /\ c5.alive = c4.alive /\ c5.closedBy = c4.closedBy /\ c5.state = c4.state
      /\ c5.pc = c4.pc /\ c5.type = c4.type /\ c5.greeted = TRUE
  <2>1. c5 \in Conns
    BY <1>7, Members
  <2>2. QED
    BY <1>7, <2>1 DEF Conns
<1> HIDE DEF c5
<1>9. c6 \in Conns /\ c6.alive = c5.alive /\ c6.closedBy = c5.closedBy /\ c6.state = c5.state
      /\ c6.pc = c5.pc /\ c6.type = c5.type /\ c6.greeted = c5.greeted
  <2>1. c6 \in Conns
    BY <1>8, Members
  <2>2. QED
    BY <1>8, <2>1 DEF Conns
<1> HIDE DEF c6
<1>10. c \in Conns /\ c.alive = conn[e].alive /\ c.closedBy # "greeting" /\ c.state = "ReadyForUse"
       /\ c.pc = "header" /\ c.type = Undefined /\ c.greeted = TRUE
  BY <1>2, <1>e, <1>4, <1>5, <1>6, <1>7, <1>8, <1>9
<1>11. Usable(c)
  BY <1>3, <1>10 DEF Usable
<1>12. Saying(sent[e], ms) /\ (sent[e] # <<>> \/ ms # <<>>)
  <2>1. CASE conn[e].greeted
    BY <2>1, <1>2 DEF Writer, Saying
  <2>2. CASE ~ conn[e].greeted
    BY <2>2, <1>2, GreetingTyped DEF Writer
  <2>3. QED
    BY <2>1, <2>2
<1> HIDE DEF ms
<1>13. QED
  BY <1>1, <1>10, <1>11, <1>12, TakeStep

LEMMA ProcessDataStep ==
  ASSUME ConnInv, NEW e \in Ends, ProcessData(e)
  PROVE  ConnInv'
<1> DEFINE ms == Answer(e, conn[e].type)
           p == IF here[e] > conn[e].length THEN "header" ELSE "idle"
           q == IF conn[e].type = "PONG" THEN 0 ELSE conn[e].quiet
           c == [conn[e] EXCEPT !.pc = p, !.type = Undefined, !.length = 0, !.quiet = q]
           c1 == [conn[e] EXCEPT !.pc = p]
           c2 == [c1 EXCEPT !.type = Undefined]
           c3 == [c2 EXCEPT !.length = 0]
           c4 == [c3 EXCEPT !.quiet = q]
<1>1. conn[e].pc = "data" /\ conn[e].state = "ReadyForUse" /\ Take(e)
  BY DEF ProcessData
<1>2. /\ conn[e] \in Conns /\ Place(conn[e], stream[e], here[e]) /\ Writer(conn[e], sent[e])
      /\ conn[e].closedBy # "greeting" /\ sent[e] \in Seq(Messages)
  BY OfEnd
<1>3. Run(e, c, conn[e].length, ms)
  <2>1. [conn[e] EXCEPT !.pc = IF here[e] > conn[e].length THEN "header" ELSE "idle",
                        !.type = Undefined, !.length = 0,
                        !.quiet = IF conn[e].type = "PONG" THEN 0 ELSE @] = c
    OBVIOUS
  <2>2. QED
    BY <2>1 DEF ProcessData
<1>4. Usable(conn[e])
  BY <1>1, <1>2 DEF Place
<1>5. p \in Steps /\ p \in {"header", "idle"} /\ q \in Int
  BY <1>2 DEF Steps, Conns
<1>e. c = c4
  OBVIOUS
<1> HIDE DEF c, p, q
<1>6. c1 \in Conns /\ c1.alive = conn[e].alive /\ c1.closedBy = conn[e].closedBy
      /\ c1.state = conn[e].state /\ c1.greeted = conn[e].greeted /\ c1.pc = p
  <2>1. c1 \in Conns
    BY <1>2, <1>5, Members
  <2>2. QED
    BY <1>2, <2>1 DEF Conns
<1> HIDE DEF c1
<1>7. c2 \in Conns /\ c2.alive = c1.alive /\ c2.closedBy = c1.closedBy
      /\ c2.state = c1.state /\ c2.greeted = c1.greeted /\ c2.pc = c1.pc /\ c2.type = Undefined
  <2>1. c2 \in Conns
    BY <1>6, Members
  <2>2. QED
    BY <1>6, <2>1 DEF Conns
<1> HIDE DEF c2
<1>8. c3 \in Conns /\ c3.alive = c2.alive /\ c3.closedBy = c2.closedBy
      /\ c3.state = c2.state /\ c3.greeted = c2.greeted /\ c3.pc = c2.pc /\ c3.type = c2.type
  <2>1. c3 \in Conns
    BY <1>7, Members
  <2>2. QED
    BY <1>7, <2>1 DEF Conns
<1> HIDE DEF c3
<1>9. c4 \in Conns /\ c4.alive = c3.alive /\ c4.closedBy = c3.closedBy
      /\ c4.state = c3.state /\ c4.greeted = c3.greeted /\ c4.pc = c3.pc /\ c4.type = c3.type
  <2>1. c4 \in Conns
    BY <1>5, <1>8, Members
  <2>2. QED
    BY <1>8, <2>1 DEF Conns
<1> HIDE DEF c4
<1>10. c \in Conns /\ c.alive = conn[e].alive /\ c.closedBy # "greeting" /\ c.state = "ReadyForUse"
       /\ c.pc \in {"idle", "header"} /\ c.type = Undefined /\ c.greeted = conn[e].greeted
  BY <1>1, <1>2, <1>5, <1>e, <1>6, <1>7, <1>8, <1>9
<1>11. Usable(c)
  BY <1>4, <1>10, <1>1 DEF Usable
<1>12. conn[e].greeted /\ sent[e] # <<>>
  BY <1>1, <1>2 DEF Writer
<1>13. Saying(sent[e], ms)
  <2>1. /\ "PONG" \in Types /\ "PONG" \in KeepAlive
        /\ "PUBLICKEY_RESPONSE" \in Types /\ "BLOCK_RESPONSE" \in Types
    BY DEF Types, KeepAlive
  <2>2. /\ Saying(sent[e], <<>>)
        /\ Saying(sent[e], <<Message("PONG", 0)>>)
        /\ Saying(sent[e], <<Message("PUBLICKEY_RESPONSE", Len(sent[e]) + 1)>>)
        /\ Saying(sent[e], <<Message("BLOCK_RESPONSE", Len(sent[e]) + 1)>>)
    BY <1>2, <1>12, <2>1, ReplyTyped
  <2>3. CASE conn[e].type = "PING"
    BY <2>2, <2>3 DEF Answer
  <2>4. CASE conn[e].type = "PUBLICKEY_REQUEST"
    BY <2>2, <2>4 DEF Answer
  <2>5. CASE conn[e].type = "BLOCK_REQUEST"
    BY <2>2, <2>5 DEF Answer
  <2>6. CASE conn[e].type \notin {"PING", "PUBLICKEY_REQUEST", "BLOCK_REQUEST"}
    BY <2>2, <2>6 DEF Answer
  <2>7. QED
    BY <2>3, <2>4, <2>5, <2>6
<1> HIDE DEF ms
<1>14. QED
  BY <1>1, <1>3, <1>10, <1>11, <1>12, <1>13, TakeStep

LEMMA ConnStart ==
  ASSUME Init
  PROVE  ConnInv
<1>1. New \in Conns
  BY DEF New, Conns, States, Steps, Reasons
<1>2. TypeOK
  <2>1. <<>> \in Seq(PieceSet) /\ <<>> \in Seq(Messages) /\ <<>> \in Seq(Heard)
    OBVIOUS
  <2>2. QED
    BY <1>1, <2>1 DEF Init, TypeOK
<1>3. /\ New.type = Undefined /\ New.pc = "idle" /\ New.state = "WaitingForGreeting"
      /\ New.closedBy = "nobody" /\ New.greeted = FALSE
  BY DEF New
<1>4. Len(<<>>) = 0 /\ <<>> \in Seq(PieceSet) /\ <<>> \in Seq(Messages) /\ <<>> \in Seq(Heard)
  OBVIOUS
<1>5. Whole(<<>>) /\ FromSent(<<>>, <<>>, 0) /\ InOrder(<<>>) /\ AllThere(<<>>, <<>>, 0)
  BY <1>4 DEF Whole, FromSent, InOrder, AllThere
<1>6. Framed(<<>>, <<>>) /\ Numbered(<<>>)
  BY <1>4 DEF Framed, Numbered
<1>7. Place(New, <<>>, 0) /\ Waits(New, <<>>, <<>>)
  BY <1>3, <1>4 DEF Place, Waits
<1>8. Reader(New, <<>>, 0, <<>>, <<>>)
  BY <1>1, <1>3, <1>4, <1>5, <1>6, <1>7 DEF Reader
<1>9. Writer(New, <<>>)
  BY <1>3, <1>4, <1>6 DEF Writer
<1>10. ASSUME NEW e \in Ends
       PROVE  /\ conn[e] = New /\ stream[e] = <<>> /\ here[e] = 0 /\ handled[e] = <<>>
              /\ sent[e] = <<>> /\ sent[Other(e)] = <<>>
  BY OtherEnd DEF Init
<1>11. QED
  BY <1>2, <1>8, <1>9, <1>10 DEF ConnInv

LEMMA ConnStep ==
  ASSUME ConnInv, [Next]_vars
  PROVE  ConnInv'
<1>1. CASE UNCHANGED vars
  BY <1>1 DEF vars, ConnInv, TypeOK
<1>2. CASE Connected
  BY <1>2, ConnectedStep
<1>3. CASE \E e \in Ends : \E type \in AppTypes : Send(e, type)
  BY <1>3, SendStep
<1>4. CASE \E e \in Ends : SendPing(e)
  BY <1>4, SendPingStep
<1>5. CASE \E e \in Ends : Arrival(e)
  BY <1>5, ReadyReadStep DEF Arrival
<1>6. CASE \E e \in Ends : Reading(e)
  BY <1>6, HeaderStep, EnoughStep, ReadGreetingStep, ProcessDataStep DEF Reading
<1>7. CASE \E e \in Ends : TimerEvent(e) \/ Disconnected(e)
  BY <1>7, EndStep
<1>8. CASE \E e \in Ends : Vanish(e)
  BY <1>8, VanishStep
<1>9. QED
  BY <1>1, <1>2, <1>3, <1>4, <1>5, <1>6, <1>7, <1>8 DEF Next

\* However the network cuts the stream between them, and whatever an end does
\* when it reads a part of a message, each end takes for messages exactly what
\* the other one sent, in the same order and with the same payloads.
THEOREM FramingAlways == Spec => []Framing
<1>1. ConnInv => Framing
  <2> SUFFICES ASSUME ConnInv, NEW e \in Ends
               PROVE  IsPrefix(handled[e], [i \in 1 .. Len(sent[Other(e)]) |->
                                 [type |-> sent[Other(e)][i].type,
                                  data |-> Payload(sent[Other(e)][i])]])
    BY DEF Framing
  <2> DEFINE out == sent[Other(e)]
             F(i) == [type |-> out[i].type, data |-> Payload(out[i])]
             t == [i \in 1 .. Len(out) |-> F(i)]
             s == handled[e]
  <2>1. out \in Seq(Messages) /\ s \in Seq(Heard) /\ Framed(out, s)
    BY OfEnd DEF Reader
  <2>2. Len(s) <= Len(out) /\ \A i \in 1 .. Len(s) : s[i] = F(i)
    BY <2>1 DEF Framed
  <2> HIDE DEF F, out
  <2>3. Len(t) = Len(out) /\ \A i \in 1 .. Len(out) : t[i] = F(i)
    BY <2>1
  <2> DEFINE All == {F(i) : i \in 1 .. Len(out)}
  <2> HIDE DEF t, s
  <2>4. PICK k \in Nat : k = Len(s)
    BY <2>1
  <2>5. \A i \in 1 .. k : s[i] = F(i) /\ t[i] = F(i) /\ i \in 1 .. Len(out)
    BY <2>1, <2>2, <2>3, <2>4
  <2>6. SubSeq(s, 1, k) = SubSeq(t, 1, k)
    <3>1. \A i \in 1 .. k : s[i] \in All /\ t[i] \in All
      BY <2>5
    <3> HIDE DEF All
    <3>2. /\ SubSeq(s, 1, k) \in Seq(All) /\ Len(SubSeq(s, 1, k)) = k
          /\ \A i \in 1 .. k : SubSeq(s, 1, k)[i] = s[i]
      BY <2>4, <3>1, SubSeqProperties
    <3>3. /\ SubSeq(t, 1, k) \in Seq(All) /\ Len(SubSeq(t, 1, k)) = k
          /\ \A i \in 1 .. k : SubSeq(t, 1, k)[i] = t[i]
      BY <2>4, <3>1, SubSeqProperties
    <3>4. \A i \in 1 .. k : SubSeq(s, 1, k)[i] = SubSeq(t, 1, k)[i]
      BY <2>5, <3>2, <3>3
    <3>5. QED
      BY <3>2, <3>3, <3>4, SeqEqual
  <2>7. IsPrefix(s, t)
    BY <2>2, <2>3, <2>4, <2>6 DEF IsPrefix
  <2>8. QED
    BY <2>7 DEF s, t, F, out
<1>2. QED
  BY <1>1, ConnStart, ConnStep, PTL DEF Spec

\* A connection is never closed over a message before the greeting, because
\* each end greets before it sends anything else.
THEOREM GreetingIsFirstAlways == Spec => []GreetingIsFirst
<1>1. ConnInv => GreetingIsFirst
  BY OfEnd DEF GreetingIsFirst
<1>2. QED
  BY <1>1, ConnStart, ConnStep, PTL DEF Spec

-----------------------------------------------------------------------------
(* The transfer timer.                                                     *)

\* An end with h pieces to read that has handled done: before the greeting is
\* through it has handled nothing, and the timer goes with a type that was
\* read and a payload that was not.
TimedEnd(c, h, done) ==
    c.state # "closed" =>
        /\ c.state # "ReadyForUse" => done = <<>>
        /\ c.state = "ReadingGreeting" => c.type = "GREETING"
        /\ c.pc = "idle" /\ c.type # Undefined => c.timer
        /\ c.pc = "idle" /\ c.timer /\ c.type = Undefined => Len(done) = 1
        /\ c.pc = "header" /\ h = 0 => Len(done) = 1
        /\ c.pc = "data" => ~ c.timer

Timed == \A e \in Ends : TimedEnd(conn[e], here[e], handled[e])

\* What an end reads and writes leaves the other one's timer alone.
LEMMA TimedRun ==
  ASSUME ConnInv, Timed, NEW e \in Ends, NEW c, NEW k, NEW ms, Run(e, c, k, ms),
         \A d \in Ends : d # e => handled'[d] = handled[d],
         TimedEnd(c, here[e] - k, handled'[e])
  PROVE  Timed'
<1>1. conn \in [Ends -> Conns] /\ here \in [Ends -> Nat]
  BY DEF ConnInv, TypeOK
<1>2. conn' = [conn EXCEPT ![e] = c] /\ here' = [here EXCEPT ![e] = here[e] - k]
  BY DEF Run
<1>3. conn'[e] = c /\ here'[e] = here[e] - k
  BY <1>1, <1>2
<1>4. \A d \in Ends : d # e => conn'[d] = conn[d] /\ here'[d] = here[d]
  BY <1>1, <1>2
<1>5. QED
  BY <1>3, <1>4 DEF Timed

\* An end that closes needs no timer.
LEMMA TimedAborted ==
  ASSUME NEW c \in Conns, NEW why, NEW h, NEW done
  PROVE  TimedEnd(Aborted(c, why), h, done)
BY AbortedConn DEF TimedEnd, Aborted, Conns

\* An end between two runs of processReadyRead that only sends.
LEMMA TimedSends ==
  ASSUME ConnInv, Timed, [Next]_vars,
         \/ Connected
         \/ \E e \in Ends : (\E type \in AppTypes : Send(e, type)) \/ SendPing(e)
         \/ \E e \in Ends : TimerEvent(e) \/ Disconnected(e)
  PROVE  Timed'
<1>0. conn \in [Ends -> Conns] /\ here \in [Ends -> Nat]
  BY DEF ConnInv, TypeOK
<1>1. CASE Connected
  <2>1. Initiator \in Ends /\ handled' = handled
    BY <1>1 DEF Connected, Ends
  <2>2. Run(Initiator, [New EXCEPT !.greeted = TRUE], 0, Greeting(Initiator)) /\ conn[Initiator] = New
    BY <1>1 DEF Connected
  <2>3. TimedEnd(New, here[Initiator], handled[Initiator])
    BY <2>1, <2>2 DEF Timed
  <2>4. TimedEnd([New EXCEPT !.greeted = TRUE], here[Initiator] - 0, handled'[Initiator])
    BY <2>1, <2>3, <1>0 DEF TimedEnd, New
  <2>5. QED
    BY <2>1, <2>2, <2>4, TimedRun
<1>2. ASSUME NEW e \in Ends, NEW type \in AppTypes, Send(e, type)
      PROVE  Timed'
  <2>1. Run(e, conn[e], 0, <<Message(type, Len(sent[e]) + 1)>>) /\ handled' = handled
    BY <1>2 DEF Send
  <2>2. TimedEnd(conn[e], here[e] - 0, handled'[e])
    BY <1>0, <2>1 DEF Timed
  <2>3. QED
    BY <2>1, <2>2, TimedRun
<1>3. ASSUME NEW e \in Ends, SendPing(e)
      PROVE  Timed'
  <2>1. PICK c, ms : Run(e, c, 0, ms) /\ handled' = handled
                     /\ (c = Aborted(conn[e], "pong") \/ c = [conn[e] EXCEPT !.quiet = @ + 1])
    BY <1>3 DEF SendPing
  <2>2. TimedEnd(conn[e], here[e], handled[e]) /\ conn[e] \in Conns /\ here[e] - 0 = here[e]
    BY <1>0 DEF Timed
  <2>3. TimedEnd([conn[e] EXCEPT !.quiet = @ + 1], here[e], handled[e])
    BY <2>2 DEF TimedEnd, Conns
  <2>4. TimedEnd(c, here[e] - 0, handled'[e])
    BY <2>1, <2>2, <2>3, TimedAborted
  <2>5. QED
    BY <2>1, <2>4, TimedRun
<1>4. ASSUME NEW e \in Ends, TimerEvent(e) \/ Disconnected(e)
      PROVE  Timed'
  <2>1. PICK why : Run(e, Aborted(conn[e], why), 0, <<>>) /\ handled' = handled
    BY <1>4 DEF TimerEvent, Disconnected
  <2>2. conn[e] \in Conns
    BY <1>0
  <2>3. QED
    BY <2>1, <2>2, TimedAborted, TimedRun
<1>5. QED
  BY <1>1, <1>2, <1>3, <1>4

\* What arrives is read at once, and a host that is gone changes no timer.
LEMMA TimedArrives ==
  ASSUME ConnInv, Timed, NEW e \in Ends, Arrival(e) \/ Vanish(e)
  PROVE  Timed'
<1>0. conn \in [Ends -> Conns] /\ here \in [Ends -> Nat] /\ handled' = handled
  BY DEF ConnInv, TypeOK, Arrival, ReadyRead, Vanish
<1>1. TimedEnd(conn[e], here[e], handled[e])
  BY DEF Timed
<1>2. CASE Arrival(e)
  <2>1. PICK n \in 1 .. Len(stream[e]) - here[e] :
          /\ conn[e].pc = "idle"
          /\ here' = [here EXCEPT ![e] = here[e] + n]
          /\ conn' = [conn EXCEPT ![e].pc = IF conn[e].type = Undefined THEN "header" ELSE "enough"]
    BY <1>2 DEF Arrival, ReadyRead, Calm
  <2>2. Len(stream[e]) \in Nat
    BY DEF ConnInv, TypeOK
  <2>3. here'[e] = here[e] + n /\ here'[e] # 0
    BY <1>0, <2>1, <2>2
  <2>4. conn'[e] = [conn[e] EXCEPT !.pc = IF conn[e].type = Undefined THEN "header" ELSE "enough"]
    BY <1>0, <2>1
  <2>5. TimedEnd(conn'[e], here'[e], handled[e])
    BY <1>0, <1>1, <2>1, <2>3, <2>4 DEF TimedEnd, Conns
  <2>6. \A d \in Ends : d # e => conn'[d] = conn[d] /\ here'[d] = here[d]
    BY <1>0, <2>1
  <2>7. QED
    BY <1>0, <2>5, <2>6 DEF Timed
<1>3. CASE Vanish(e)
  <2>1. conn' = [conn EXCEPT ![e].alive = FALSE] /\ here' = here
    BY <1>3 DEF Vanish
  <2>2. conn'[e] = [conn[e] EXCEPT !.alive = FALSE]
    BY <1>0, <2>1
  <2>3. TimedEnd(conn'[e], here'[e], handled[e])
    BY <1>0, <1>1, <2>1, <2>2 DEF TimedEnd, Conns
  <2>4. \A d \in Ends : d # e => conn'[d] = conn[d]
    BY <1>0, <2>1
  <2>5. QED
    BY <1>0, <2>1, <2>3, <2>4 DEF Timed
<1>4. QED
  BY <1>2, <1>3

\* Each call of processReadyRead.
LEMMA TimedReads ==
  ASSUME ConnInv, Timed, NEW e \in Ends, Reading(e)
  PROVE  Timed'
<1>0. /\ conn[e] \in Conns /\ here[e] \in Nat /\ handled \in [Ends -> Seq(Heard)]
      /\ TimedEnd(conn[e], here[e], handled[e])
  BY DEF ConnInv, TypeOK, Timed
<1>1. /\ Place(conn[e], stream[e], here[e]) /\ Usable(conn[e])
      /\ conn[e].state # "closed"
  BY DEF ConnInv, Reader, Place, Usable, Reading, ReadProtocolHeader, HasEnoughData, ReadGreeting,
         ProcessData
<1>2. CASE ReadProtocolHeader(e)
  <2>1. conn[e].pc = "header" /\ conn[e].type = Undefined /\ handled' = handled
    BY <1>1, <1>2 DEF ReadProtocolHeader, Place
  <2> DEFINE c    == [conn[e] EXCEPT !.timer = FALSE]
             type == stream[e][1].of.type
             data == DataLength(e, 2)
             next == [c EXCEPT !.pc = "enough", !.type = type, !.length = data.length,
                               !.buffered = data.buffered]
             read == [next EXCEPT !.state = IF @ = "WaitingForGreeting" THEN "ReadingGreeting"
                                            ELSE @]
  <2>2. \/ here[e] = 0 /\ Run(e, [c EXCEPT !.timer = TRUE, !.pc = "idle"], 0, <<>>)
        \/ Run(e, Aborted(c, "token"), 0, <<>>)
        \/ Run(e, Aborted(c, "greeting"), 0, <<>>)
        \/ /\ c.state = "WaitingForGreeting" => type = "GREETING"
           /\ Run(e, read, 2 + data.read, <<>>)
    BY <1>2 DEF ReadProtocolHeader
  <2>3. /\ c \in Conns /\ c.state = conn[e].state /\ c.type = Undefined
        /\ conn[e].state # "ReadingGreeting"
    BY <1>0, <1>1, <2>1 DEF TimedEnd, Undefined, Conns
  <2>4. /\ read.pc = "enough"
        /\ read.state = IF c.state = "WaitingForGreeting" THEN "ReadingGreeting" ELSE c.state
        /\ read.type = type
    <3> HIDE DEF c, type, data
    <3>1. QED
      BY <2>3 DEF Conns
  <2>5. CASE here[e] = 0 /\ Run(e, [c EXCEPT !.timer = TRUE, !.pc = "idle"], 0, <<>>)
    <3>1. TimedEnd([c EXCEPT !.timer = TRUE, !.pc = "idle"], here[e] - 0, handled'[e])
      BY <1>0, <1>1, <2>1, <2>3, <2>5 DEF TimedEnd, Conns
    <3> HIDE DEF c
    <3>2. QED
      BY <2>1, <2>5, <3>1, TimedRun
  <2> HIDE DEF c, read, type, data
  <2>6. ASSUME NEW why, Run(e, Aborted(c, why), 0, <<>>)
        PROVE  Timed'
    BY <2>1, <2>3, <2>6, TimedAborted, TimedRun
  <2>7. ASSUME c.state = "WaitingForGreeting" => type = "GREETING", Run(e, read, 2 + data.read, <<>>)
        PROVE  Timed'
    <3>1. TimedEnd(read, here[e] - (2 + data.read), handled'[e])
      BY <1>0, <1>1, <2>1, <2>3, <2>4, <2>7 DEF TimedEnd
    <3>2. QED
      BY <2>1, <2>7, <3>1, TimedRun
  <2>8. QED
    BY <2>2, <2>5, <2>6, <2>7
<1>3. CASE HasEnoughData(e)
  <2>1. conn[e].pc = "enough" /\ conn[e].type # Undefined /\ handled' = handled
    BY <1>1, <1>3 DEF HasEnoughData, Place
  <2> DEFINE data  == IF conn[e].length <= 0 THEN DataLength(e, 0)
                      ELSE [read |-> 0, length |-> conn[e].length, buffered |-> conn[e].buffered]
             short == here[e] - data.read < data.length \/ data.length <= 0
             told  == [conn[e] EXCEPT !.length = data.length, !.buffered = data.buffered]
             c     == [told EXCEPT !.pc = IF short THEN "idle" ELSE "data", !.timer = short]
  <2>2. Run(e, c, data.read, <<>>)
    BY <1>3 DEF HasEnoughData
  <2> HIDE DEF data, short
  <2>3. /\ c.pc = IF short THEN "idle" ELSE "data"
        /\ c.timer = short /\ c.type = conn[e].type /\ c.state = conn[e].state
    BY <1>0 DEF Conns
  <2>4. short \in BOOLEAN
    BY DEF short
  <2> HIDE DEF c
  <2>5. TimedEnd(c, here[e] - data.read, handled'[e])
    BY <1>0, <1>1, <2>1, <2>3, <2>4 DEF TimedEnd
  <2>6. QED
    BY <2>1, <2>2, <2>5, TimedRun
<1>4. CASE ReadGreeting(e)
  <2> DEFINE c == [conn[e] EXCEPT !.state = "ReadyForUse", !.pc = "header", !.type = Undefined,
                                  !.length = 0, !.greeted = TRUE, !.quiet = 0]
  <2>1. PICK ms : Run(e, c, conn[e].length, ms)
    BY <1>4 DEF ReadGreeting
  <2>2. conn[e].type = "GREETING" /\ handled[e] = <<>> /\ "GREETING" \notin KeepAlive
    BY <1>0, <1>1, <1>4 DEF ReadGreeting, TimedEnd, KeepAlive
  <2>3. PICK x : handled' = [handled EXCEPT ![e] = Append(handled[e], x)]
    BY <1>4, <2>2 DEF ReadGreeting, Take
  <2>4. Len(handled'[e]) = 1 /\ \A d \in Ends : d # e => handled'[d] = handled[d]
    <3>1. handled'[e] = Append(<<>>, x)
      BY <1>0, <2>2, <2>3
    <3>2. Append(<<>>, x) = <<x>> /\ Len(<<x>>) = 1
      OBVIOUS
    <3>3. QED
      BY <1>0, <2>3, <3>1, <3>2
  <2>5. c.state = "ReadyForUse" /\ c.pc = "header"
    BY <1>0 DEF Conns
  <2> HIDE DEF c
  <2>6. TimedEnd(c, here[e] - conn[e].length, handled'[e])
    BY <2>4, <2>5 DEF TimedEnd
  <2>7. QED
    BY <2>1, <2>4, <2>6, TimedRun
<1>5. CASE ProcessData(e)
  <2> DEFINE c == [conn[e] EXCEPT !.pc = IF here[e] > conn[e].length THEN "header" ELSE "idle",
                                  !.type = Undefined, !.length = 0,
                                  !.quiet = IF conn[e].type = "PONG" THEN 0 ELSE @]
  <2>1. /\ Run(e, c, conn[e].length, Answer(e, conn[e].type))
        /\ conn[e].pc = "data" /\ conn[e].state = "ReadyForUse"
    BY <1>5 DEF ProcessData
  <2>2. \A d \in Ends : d # e => handled'[d] = handled[d]
    BY <1>0, <1>5 DEF ProcessData, Take
  <2>3. ~ conn[e].timer
    BY <1>0, <2>1 DEF TimedEnd
  <2>4. /\ c.state = "ReadyForUse" /\ c.timer = conn[e].timer /\ c.type = Undefined
        /\ c.pc = IF here[e] > conn[e].length THEN "header" ELSE "idle"
        /\ conn[e].length \in Int
    BY <1>0, <2>1 DEF Conns
  <2> HIDE DEF c
  <2>5. TimedEnd(c, here[e] - conn[e].length, handled'[e])
    BY <1>0, <2>3, <2>4 DEF TimedEnd
  <2>6. QED
    BY <2>1, <2>2, <2>5, TimedRun
<1>6. QED
  BY <1>2, <1>3, <1>4, <1>5 DEF Reading

LEMMA TimedStep ==
  ASSUME ConnInv, Timed, [Next]_vars
  PROVE  Timed'
<1>1. CASE UNCHANGED vars
  BY <1>1 DEF vars, Timed
<1>2. QED
  BY <1>1, TimedSends, TimedArrives, TimedReads DEF Next

\* An end whose reader waits in the middle of a message has its timer running,
\* and once a message is complete the timer is off, wherever the stream is
\* cut and whatever else is sent: the greeting alone leaves it running.
THEOREM TransferTimedAlways == Spec => []TransferTimed
<1>1. Init => Timed
  <2>1. \A e \in Ends : Init => conn[e] = New /\ here[e] = 0 /\ handled[e] = <<>>
    BY DEF Init
  <2>2. TimedEnd(New, 0, <<>>)
    BY DEF TimedEnd, New
  <2>3. QED
    BY <2>1, <2>2 DEF Timed
<1>2. ConnInv /\ Timed => TransferTimed
  BY DEF TransferTimed, Timed, TimedEnd, Listening
<1>3. ConnInv /\ Timed /\ [Next]_vars => ConnInv' /\ Timed'
  BY ConnStep, TimedStep
<1>4. QED
  BY <1>1, <1>2, <1>3, ConnStart, PTL DEF Spec

-----------------------------------------------------------------------------
(* The tables of connections: Peers.  NoDeletedConnection is its own       *)
(* argument once the tables have their types: a connection is made anew    *)
(* only where no end is open, so where no table holds it, and              *)
(* removeConnection takes the closed end's connection out together with    *)
(* the others to that address.                                             *)

PeersInv ==
    /\ link \in [Links -> LinkType]
    /\ peers \in [Nodes -> SUBSET Links]
    /\ NoDeletedConnection

\* It holds when the nodes start.
LEMMA PeersStart == PeersInit => PeersInv
<1> SUFFICES ASSUME PeersInit
             PROVE  PeersInv
  OBVIOUS
<1>1. NoLink \in LinkType
  BY DEF NoLink, LinkType
<1>2. link \in [Links -> LinkType] /\ peers \in [Nodes -> SUBSET Links]
  BY <1>1 DEF PeersInit
<1>3. NoDeletedConnection
  BY DEF PeersInit, NoDeletedConnection
<1>4. QED
  BY <1>2, <1>3 DEF PeersInv

\* A new connection is in no table yet.
LEMMA BroadcastKeeps ==
  ASSUME PeersInv, NEW n \in Nodes, NEW m \in Nodes, ReadBroadcastDatagram(n, m)
  PROVE  PeersInv'
<1>1. PICK l \in Links : /\ \A x \in Nodes : ~ Open(l, x)
                         /\ link' = [link EXCEPT ![l] = NewLink(n, m)]
  <2>1. PICK l \in Links : /\ \A k \in 1 .. l : (k = l) <=> \A x \in Nodes : ~ Open(k, x)
                           /\ link' = [link EXCEPT ![l] = NewLink(n, m)]
    BY DEF ReadBroadcastDatagram
  <2>2. l \in 1 .. l
    BY PeersAssumption DEF Links
  <2>3. QED
    BY <2>1, <2>2
<1>2. NewLink(n, m) \in LinkType
  BY DEF NewLink, LinkType
<1>3. link' \in [Links -> LinkType] /\ peers' \in [Nodes -> SUBSET Links]
  BY <1>1, <1>2 DEF PeersInv, ReadBroadcastDatagram
<1>4. ASSUME NEW x \in Nodes, NEW k \in peers'[x]
      PROVE  link'[k].state[x] = "ready"
  <2>1. k \in peers[x] /\ k \in Links /\ link[k].state[x] = "ready"
    BY DEF ReadBroadcastDatagram, PeersInv, NoDeletedConnection
  <2>2. k # l
    BY <1>1, <2>1 DEF Open
  <2>3. QED
    BY <1>1, <2>1, <2>2 DEF PeersInv
<1>5. QED
  BY <1>3, <1>4 DEF PeersInv, NoDeletedConnection

\* Steps that change no table and no end's state.
LEMMA StatesKept ==
  ASSUME PeersInv, link' \in [Links -> LinkType], UNCHANGED peers,
         \A l \in Links : link'[l].state = link[l].state
  PROVE  PeersInv'
  BY DEF PeersInv, NoDeletedConnection

\* An end that becomes ready enters the table.
LEMMA ReadyKeeps ==
  ASSUME PeersInv, NEW l \in Links, NEW n \in Nodes, ReadyForUse(l, n)
  PROVE  PeersInv'
<1> DEFINE ready == [link[l] EXCEPT !.state[n] = "ready", !.greeted = TRUE]
<1>1. link[l] \in LinkType
  BY DEF PeersInv
<1>2. ready \in LinkType /\ ready.state = [link[l].state EXCEPT ![n] = "ready"]
  BY <1>1 DEF LinkType
<1>3. link' = [link EXCEPT ![l] = ready]
  BY DEF ReadyForUse, PeersInv
<1> HIDE DEF ready
<1>4. link' \in [Links -> LinkType] /\ peers' \in [Nodes -> SUBSET Links]
  <2>1. link' \in [Links -> LinkType]
    BY <1>2, <1>3 DEF PeersInv
  <2>2. peers' \in [Nodes -> SUBSET Links]
    BY DEF PeersInv, ReadyForUse
  <2>3. QED
    BY <2>1, <2>2
<1>5. ASSUME NEW x \in Nodes, NEW k \in peers'[x]
      PROVE  link'[k].state[x] = "ready"
  <2>1. link[k].state \in [Nodes -> {"open", "ready", "closed"}] /\ k \in Links
    BY <1>4 DEF PeersInv, LinkType
  <2>2. CASE k = l /\ x = n
    BY <1>2, <1>3, <2>1, <2>2 DEF PeersInv
  <2>3. CASE ~ (k = l /\ x = n)
    <3>1. k \in peers[x]
      BY <2>3 DEF ReadyForUse, PeersInv
    <3>2. link[k].state[x] = "ready"
      BY <3>1 DEF PeersInv, NoDeletedConnection
    <3>3. QED
      BY <1>2, <1>3, <2>1, <2>3, <3>2 DEF PeersInv
  <2>4. QED
    BY <2>2, <2>3
<1>6. QED
  BY <1>4, <1>5 DEF PeersInv, NoDeletedConnection

\* removeConnection takes the closed end out of the table.
LEMMA RemoveKeeps ==
  ASSUME PeersInv, NEW l \in Links, NEW n \in Nodes, RemoveConnection(l, n)
  PROVE  PeersInv'
<1> DEFINE closed == [link[l] EXCEPT !.state[n] = "closed", !.mail[n] = <<>>]
<1>1. PICK m \in link[l].ends \ {n} :
        /\ link' = [link EXCEPT ![l].state[n] = "closed", ![l].mail[n] = <<>>]
        /\ IF Connections(n, m) = {} THEN UNCHANGED peers
           ELSE peers' = [peers EXCEPT ![n] = @ \ Connections(n, m)]
  BY DEF RemoveConnection
<1>2. link[l] \in LinkType
  BY DEF PeersInv
<1>3. closed \in LinkType /\ closed.state = [link[l].state EXCEPT ![n] = "closed"]
  <2> DEFINE state == [link[l].state EXCEPT ![n] = "closed"]
             mail == [link[l].mail EXCEPT ![n] = <<>>]
  <2>1. state \in [Nodes -> {"open", "ready", "closed"}]
    BY <1>2 DEF LinkType
  <2>2. mail \in [Nodes -> Seq({"PUBLICKEY_ADD", "PUBLICKEY_REMOVE"})]
    BY <1>2 DEF LinkType
  <2>3. closed = [link[l] EXCEPT !.state = state, !.mail = mail]
    BY <1>2 DEF LinkType
  <2> HIDE DEF state, mail, closed
  <2>4. closed \in LinkType /\ closed.state = state
    BY <1>2, <2>1, <2>2, <2>3 DEF LinkType
  <2>5. QED
    BY <2>4 DEF state
<1>4. link' = [link EXCEPT ![l] = closed]
  BY <1>1, <1>2 DEF PeersInv, LinkType
<1> HIDE DEF closed
<1>5. link' \in [Links -> LinkType] /\ peers' \in [Nodes -> SUBSET Links]
  <2>1. link' \in [Links -> LinkType]
    BY <1>3, <1>4 DEF PeersInv
  <2>2. peers' \in [Nodes -> SUBSET Links]
    BY <1>1 DEF PeersInv
  <2>3. QED
    BY <2>1, <2>2
<1>6. ASSUME NEW x \in Nodes, NEW k \in peers'[x]
      PROVE  link'[k].state[x] = "ready"
  <2>1. k \in peers[x] /\ k \in Links
    BY <1>1 DEF PeersInv
  <2>2. link[k].state[x] = "ready" /\ link[k].state \in [Nodes -> {"open", "ready", "closed"}]
    BY <2>1 DEF PeersInv, NoDeletedConnection, LinkType
  <2>3. ~ (k = l /\ x = n)
    <3>1. SUFFICES ASSUME k = l, x = n
                   PROVE  FALSE
      OBVIOUS
    <3>2. l \in Connections(n, m)
      BY <1>1, <2>1, <3>1 DEF Connections
    <3>3. QED
      BY <1>1, <3>1, <3>2 DEF PeersInv
  <2>4. QED
    BY <1>3, <1>4, <2>1, <2>2, <2>3 DEF PeersInv
<1>7. QED
  BY <1>5, <1>6 DEF PeersInv, NoDeletedConnection

\* The key's answer changes nothing but who knows it.
LEMMA KeyKeeps ==
  ASSUME PeersInv, NEW l \in Links, NEW n \in Nodes, PublicKeyResponse(l, n)
  PROVE  PeersInv'
<1> DEFINE told == [link[l] EXCEPT !.knows = @ \cup {n}]
<1>1. link[l] \in LinkType
  BY DEF PeersInv
<1>2. told \in LinkType /\ told.state = link[l].state
  BY <1>1 DEF LinkType
<1>3. link' = [link EXCEPT ![l] = told]
  BY DEF PublicKeyResponse, PeersInv
<1> HIDE DEF told
<1>4. link' \in [Links -> LinkType] /\ \A k \in Links : link'[k].state = link[k].state
  BY <1>2, <1>3 DEF PeersInv
<1>5. QED
  BY <1>4, StatesKept DEF PublicKeyResponse

\* An announcement only sends mail.
LEMMA AnnounceKeeps ==
  ASSUME PeersInv, NEW n \in Nodes, NEW what \in {"PUBLICKEY_ADD", "PUBLICKEY_REMOVE"},
         Announce(n, what), UNCHANGED peers
  PROVE  PeersInv'
<1> DEFINE mail(l) == [m \in Nodes |->
               IF m \in link[l].ends \ {n} THEN Append(link[l].mail[m], what) ELSE link[l].mail[m]]
           mailed(l) == [link[l] EXCEPT !.mail = mail(l)]
<1>1. ASSUME NEW l \in Links
      PROVE  mailed(l) \in LinkType /\ mailed(l).state = link[l].state
  <2>1. link[l] \in LinkType
    BY DEF PeersInv
  <2>2. mail(l) \in [Nodes -> Seq({"PUBLICKEY_ADD", "PUBLICKEY_REMOVE"})]
    <3>1. ASSUME NEW m \in Nodes
          PROVE  /\ link[l].mail[m] \in Seq({"PUBLICKEY_ADD", "PUBLICKEY_REMOVE"})
                 /\ Append(link[l].mail[m], what) \in Seq({"PUBLICKEY_ADD", "PUBLICKEY_REMOVE"})
      BY <2>1 DEF LinkType
    <3>2. QED
      BY <3>1
  <2> HIDE DEF mail
  <2>3. QED
    BY <2>1, <2>2 DEF LinkType
<1>2. link' = [l \in Links |-> IF l \in peers[n] THEN mailed(l) ELSE link[l]]
  BY DEF Announce
<1> HIDE DEF mailed
<1>3. link' \in [Links -> LinkType] /\ \A l \in Links : link'[l].state = link[l].state
  BY <1>1, <1>2 DEF PeersInv
<1>4. QED
  BY <1>3, StatesKept

\* Reading mail takes it out.
LEMMA MailKeeps ==
  ASSUME PeersInv, NEW l \in Links, NEW n \in Nodes, TestModeMessage(l, n)
  PROVE  PeersInv'
<1> DEFINE read == [link[l] EXCEPT !.mail[n] = Tail(@)]
<1>1. link[l] \in LinkType
  BY DEF PeersInv
<1>2. read \in LinkType /\ read.state = link[l].state
  <2>1. link[l].mail[n] \in Seq({"PUBLICKEY_ADD", "PUBLICKEY_REMOVE"}) /\ link[l].mail[n] # <<>>
    BY <1>1 DEF LinkType, TestModeMessage
  <2>2. Tail(link[l].mail[n]) \in Seq({"PUBLICKEY_ADD", "PUBLICKEY_REMOVE"})
    BY <2>1
  <2>3. QED
    BY <1>1, <2>2 DEF LinkType
<1>3. link' = [link EXCEPT ![l] = read]
  BY DEF TestModeMessage, PeersInv
<1> HIDE DEF read
<1>4. link' \in [Links -> LinkType] /\ \A k \in Links : link'[k].state = link[k].state
  BY <1>2, <1>3 DEF PeersInv
<1>5. QED
  BY <1>4, StatesKept DEF TestModeMessage

\* Every step keeps the invariant.
LEMMA PeersStep == PeersInv /\ [PeersNext]_peersVars => PeersInv'
<1> SUFFICES ASSUME PeersInv, [PeersNext]_peersVars
             PROVE  PeersInv'
  OBVIOUS
<1>1. ASSUME NEW n \in Nodes, NEW m \in Nodes, ReadBroadcastDatagram(n, m)
      PROVE  PeersInv'
  BY <1>1, BroadcastKeeps
<1>2. ASSUME NEW l \in Links, NEW n \in Nodes, Proceed(l, n)
      PROVE  PeersInv'
  BY <1>2, ReadyKeeps, KeyKeeps, MailKeeps, RemoveKeeps DEF Proceed, EndDisconnected
<1>3. ASSUME NEW l \in Links, NEW n \in Nodes, Lose(l, n)
      PROVE  PeersInv'
  BY <1>3, RemoveKeeps DEF Lose
<1>4. ASSUME NEW n \in Nodes, Toggle(n)
      PROVE  PeersInv'
  <2>1. UNCHANGED peers /\ (Announce(n, "PUBLICKEY_ADD") \/ Announce(n, "PUBLICKEY_REMOVE"))
    BY <1>4 DEF Toggle
  <2>2. QED
    BY <2>1, AnnounceKeeps
<1>5. CASE UNCHANGED peersVars
  BY <1>5 DEF peersVars, PeersInv, NoDeletedConnection
<1>6. QED
  BY <1>1, <1>2, <1>3, <1>4, <1>5 DEF PeersNext

\* A broadcast of blocks or transactions never goes to a connection that was
\* deleted: the table and removeConnection agree, whatever connections are
\* made and lost (Client::readyForUse, Client::removeConnection).
THEOREM NoDeletedConnectionAlways == PeersSpec => []NoDeletedConnection
<1>1. PeersInv => NoDeletedConnection
  BY DEF PeersInv
<1>2. QED
  BY <1>1, PeersStart, PeersStep, PTL DEF PeersSpec
=============================================================================
