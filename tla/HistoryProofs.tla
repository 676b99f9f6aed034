---------------------------- MODULE HistoryProofs ----------------------------
(***************************************************************************)
(* Proofs about HistoryInvariants: lemmas about sequences, about messages  *)
(* that keep the protocol (Normal) and its batches, one lemma per action,  *)
(* and the theorems.  A batch is the same seen in a sequence, in a piece   *)
(* of it and after its rows are renamed, which is why a history can be cut *)
(* at its units, put together again and normalised again.                  *)
(***************************************************************************)
EXTENDS HistoryInvariants, SequenceTheorems, WellFoundedInduction, TLAPS

LEMMA ConcatAt ==
    ASSUME NEW S, NEW a \in Seq(S), NEW b \in Seq(S)
    PROVE  /\ a \o b \in Seq(S) /\ Len(a \o b) = Len(a) + Len(b)
           /\ DOMAIN (a \o b) = 1..Len(a) + Len(b)
           /\ \A i \in 1..Len(a) : (a \o b)[i] = a[i]
           /\ \A i \in Len(a) + 1..Len(a) + Len(b) : (a \o b)[i] = b[i - Len(a)]
    BY ConcatProperties, LenProperties

LEMMA SliceAt ==
    ASSUME NEW S, NEW s \in Seq(S), NEW f \in 1..Len(s), NEW l \in f..Len(s)
    PROVE  /\ SubSeq(s, f, l) \in Seq(S) /\ Len(SubSeq(s, f, l)) = l + 1 - f
           /\ DOMAIN SubSeq(s, f, l) = 1..l + 1 - f
           /\ \A i \in 1..l + 1 - f : SubSeq(s, f, l)[i] = s[f + i - 1]
<1>1. \A i \in f..l : s[i] \in S
    BY ElementOfSeq
<1> QED BY <1>1, SubSeqProperties, LenProperties

LEMMA SliceOfConcat ==
    ASSUME NEW S, NEW a \in Seq(S), NEW b \in Seq(S),
           NEW i \in 1..Len(b), NEW j \in i..Len(b)
    PROVE  SubSeq(a \o b, Len(a) + i, Len(a) + j) = SubSeq(b, i, j)
<1> DEFINE s == a \o b
<1>1. s \in Seq(S) /\ Len(s) = Len(a) + Len(b) /\ Len(a) \in Nat /\ Len(b) \in Nat
    BY ConcatAt, LenProperties
<1>2. Len(a) + i \in 1..Len(s) /\ Len(a) + j \in Len(a) + i..Len(s)
    BY <1>1
<1>3. SubSeq(s, Len(a) + i, Len(a) + j) \in Seq(S) /\ SubSeq(b, i, j) \in Seq(S)
      /\ Len(SubSeq(s, Len(a) + i, Len(a) + j)) = j + 1 - i /\ Len(SubSeq(b, i, j)) = j + 1 - i
    <2> HIDE DEF s
    <2> QED BY <1>1, <1>2, SliceAt
<1>4. ASSUME NEW k \in 1..j + 1 - i
      PROVE  SubSeq(s, Len(a) + i, Len(a) + j)[k] = SubSeq(b, i, j)[k]
    <2>1. SubSeq(b, i, j)[k] = b[i + k - 1]
        BY SliceAt
    <2>2. SubSeq(s, Len(a) + i, Len(a) + j)[k] = s[Len(a) + i + k - 1]
        <3> HIDE DEF s
        <3> QED BY <1>1, <1>2, SliceAt
    <2>3. s[Len(a) + i + k - 1] = b[Len(a) + i + k - 1 - Len(a)]
        BY <1>1, ConcatAt
    <2> QED BY <1>1, <2>1, <2>2, <2>3
<1> QED
    <2> HIDE DEF s
    <2> QED BY <1>3, <1>4, SeqEqual DEF s

LEMMA SliceOfPrefix ==
    ASSUME NEW S, NEW a \in Seq(S), NEW b \in Seq(S),
           NEW i \in 1..Len(a), NEW j \in i..Len(a)
    PROVE  SubSeq(a \o b, i, j) = SubSeq(a, i, j)
    BY SubSeqOfConcat1, LenProperties

\* Equal rows, equal slices.
LEMMA SameSlice ==
    ASSUME NEW S, NEW s \in Seq(S), NEW t \in Seq(S),
           NEW i \in 1..Len(s), NEW j \in i..Len(s), j <= Len(t),
           \A k \in i..j : s[k] = t[k]
    PROVE  SubSeq(s, i, j) = SubSeq(t, i, j)
<1>1. SubSeq(s, i, j) \in Seq(S) /\ SubSeq(t, i, j) \in Seq(S)
      /\ Len(SubSeq(s, i, j)) = j + 1 - i /\ Len(SubSeq(t, i, j)) = j + 1 - i
    BY SliceAt, LenProperties
<1>2. ASSUME NEW k \in 1..j + 1 - i
      PROVE  SubSeq(s, i, j)[k] = SubSeq(t, i, j)[k]
    <2>1. SubSeq(s, i, j)[k] = s[i + k - 1]
        BY SliceAt
    <2>2. SubSeq(t, i, j)[k] = t[i + k - 1]
        BY SliceAt, LenProperties
    <2> QED BY <2>1, <2>2, LenProperties
<1> QED BY <1>1, <1>2, SeqEqual

\* A sequence that keeps the protocol does not begin with a tool row.
LEMMA NormalBegins ==
    ASSUME NEW s \in Seq(Messages), Normal(s), s # <<>>
    PROVE  1 \in DOMAIN s /\ s[1].role # "tool"
<1>1. Len(s) \in Nat \ {0} /\ DOMAIN s = 1..Len(s)
    BY EmptySeq, LenProperties
<1> QED BY <1>1 DEF Normal

\* Two parts that share no id make one.
LEMMA NormalConcat ==
    ASSUME NEW a \in Seq(Messages), NEW b \in Seq(Messages), Normal(a), Normal(b),
           \A i \in DOMAIN a : \A k \in DOMAIN a[i].calls : ~Uses(b, a[i].calls[k])
    PROVE  Normal(a \o b)
<1> DEFINE s == a \o b
<1>0. /\ Len(a) \in Nat /\ Len(b) \in Nat /\ DOMAIN a = 1..Len(a) /\ DOMAIN b = 1..Len(b)
      /\ s \in Seq(Messages) /\ Len(s) = Len(a) + Len(b) /\ DOMAIN s = 1..Len(a) + Len(b)
      /\ \A i \in 1..Len(a) : s[i] = a[i]
      /\ \A i \in Len(a) + 1..Len(a) + Len(b) : i - Len(a) \in 1..Len(b) /\ s[i] = b[i - Len(a)]
    BY ConcatAt, LenProperties
<1>b. Len(b) # 0 => b[1].role # "tool"
    BY <1>0, NormalBegins, EmptySeq
<1>1. ASSUME NEW i \in DOMAIN s, s[i].role = "tool"
      PROVE  i > 1 /\ (s[i - 1].role = "tool" \/ Opens(s[i - 1]))
    <2>1. CASE i \in 1..Len(a)
        <3>1. i > 1 /\ (a[i - 1].role = "tool" \/ Opens(a[i - 1]))
            BY <1>0, <1>1, <2>1 DEF Normal
        <3> QED BY <1>0, <2>1, <3>1
    <2>2. CASE i \in Len(a) + 1..Len(a) + Len(b)
        <3>1. i - Len(a) > 1 /\ (b[i - Len(a) - 1].role = "tool" \/ Opens(b[i - Len(a) - 1]))
            BY <1>0, <1>1, <2>2 DEF Normal
        <3>2. i - 1 \in Len(a) + 1..Len(a) + Len(b) /\ i - 1 - Len(a) = i - Len(a) - 1
            BY <1>0, <2>2, <3>1
        <3> QED BY <1>0, <3>1, <3>2
    <2> QED BY <1>0, <2>1, <2>2
<1>2. ASSUME NEW i \in DOMAIN s, s[i].role # "tool", ~Opens(s[i])
      PROVE  ~Unsafe(s[i])
    <2>1. CASE i \in 1..Len(a)
        BY <1>0, <1>2, <2>1 DEF Normal
    <2>2. CASE i \in Len(a) + 1..Len(a) + Len(b)
        BY <1>0, <1>2, <2>2 DEF Normal
    <2> QED BY <1>0, <2>1, <2>2
<1>3. ASSUME NEW i \in DOMAIN s, NEW j \in DOMAIN s, IsBatch(s, i, j)
      PROVE  Answered(SubSeq(s, i, j))
    <2>0. /\ i \in 1..Len(s) /\ j \in i..Len(s) /\ Opens(s[i])
          /\ \A k \in i + 1..j : s[k].role = "tool"
          /\ j < Len(s) => s[j + 1].role # "tool"
        BY <1>3 DEF IsBatch
    <2>1. CASE i \in 1..Len(a)
        <3>1. j \in i..Len(a)
            BY <1>0, <1>b, <2>0, <2>1
        <3>2. IsBatch(a, i, j)
            BY <1>0, <2>0, <2>1, <3>1 DEF IsBatch
        <3>3. SubSeq(s, i, j) = SubSeq(a, i, j)
            BY <2>1, <3>1, SliceOfPrefix
        <3> QED BY <1>0, <2>1, <3>1, <3>2, <3>3 DEF Normal
    <2>2. CASE i \in Len(a) + 1..Len(a) + Len(b)
        <3> DEFINE f == i - Len(a)
                   l == j - Len(a)
        <3>1. f \in 1..Len(b) /\ l \in f..Len(b) /\ i = Len(a) + f /\ j = Len(a) + l
              /\ l \in 1..Len(b)
            BY <1>0, <2>0, <2>2
        <3>2. Opens(b[f])
            BY <1>0, <2>0, <2>2
        <3>3. ASSUME NEW k \in f + 1..l PROVE b[k].role = "tool"
            <4>0. Len(a) \in Nat /\ Len(b) \in Nat
                BY <1>0
            <4>1. k + Len(a) \in i + 1..j /\ k + Len(a) \in Len(a) + 1..Len(a) + Len(b)
                  /\ k + Len(a) - Len(a) = k
                BY <4>0, <3>1
            <4>2. s[k + Len(a)] = b[k]
                BY <1>0, <4>1
            <4>3. s[k + Len(a)].role = "tool"
                BY <2>0, <4>1
            <4> QED BY <4>2, <4>3
        <3>4. ASSUME l < Len(b) PROVE b[l + 1].role # "tool"
            <4>1. j + 1 \in Len(a) + 1..Len(a) + Len(b) /\ j + 1 - Len(a) = l + 1 /\ j < Len(s)
                BY <1>0, <3>1, <3>4
            <4> QED BY <1>0, <2>0, <4>1
        <3>5. IsBatch(b, f, l)
            BY <3>1, <3>2, <3>3, <3>4 DEF IsBatch
        <3>6. SubSeq(s, i, j) = SubSeq(b, f, l)
            <4> HIDE DEF f, l
            <4> QED BY <3>1, SliceOfConcat
        <3> HIDE DEF f, l
        <3> QED BY <1>0, <3>1, <3>5, <3>6 DEF Normal
    <2> QED BY <1>0, <2>1, <2>2
<1>4. ASSUME NEW i \in DOMAIN s, NEW j \in DOMAIN s,
             NEW k \in DOMAIN s[i].calls, NEW l \in DOMAIN s[j].calls,
             s[i].calls[k] = s[j].calls[l]
      PROVE  i = j
    <2>1. CASE i \in 1..Len(a) /\ j \in 1..Len(a)
        BY <1>0, <1>4, <2>1 DEF Normal
    <2>2. CASE i \in Len(a) + 1..Len(a) + Len(b) /\ j \in Len(a) + 1..Len(a) + Len(b)
        <3>1. i - Len(a) = j - Len(a)
            BY <1>0, <1>4, <2>2 DEF Normal
        <3> QED BY <1>0, <3>1
    <2>3. CASE i \in 1..Len(a) /\ j \in Len(a) + 1..Len(a) + Len(b)
        BY <1>0, <1>4, <2>3 DEF Uses
    <2>4. CASE j \in 1..Len(a) /\ i \in Len(a) + 1..Len(a) + Len(b)
        BY <1>0, <1>4, <2>4 DEF Uses
    <2> QED BY <1>0, <2>1, <2>2, <2>3, <2>4
<1> HIDE DEF s
<1>5. Normal(s)
    BY <1>1, <1>2, <1>3, <1>4 DEF Normal
<1> QED BY <1>5 DEF s

\* Where the places of a slice and of a slice of it are.
LEMMA PlacesOfSlice ==
    ASSUME NEW n \in Nat, NEW f \in 1..n, NEW l \in f..n, NEW i \in 1..l + 1 - f,
           NEW j \in i..l + 1 - f
    PROVE  /\ f + i - 1 \in 1..n /\ f + j - 1 \in f + i - 1..n /\ f + j - 1 \in 1..n
           /\ j = l + 1 - f => f + j - 1 = l
           /\ \A k \in f + i - 1 + 1..f + j - 1 :
                /\ k - f + 1 \in i + 1..j /\ k - f + 1 \in 1..l + 1 - f
                /\ f + (k - f + 1) - 1 = k
    OBVIOUS

\* A part between two places outside batches is one.
LEMMA NormalSlice ==
    ASSUME NEW s \in Seq(Messages), Normal(s), NEW f \in 1..Len(s), NEW l \in f..Len(s),
           s[f].role # "tool", l < Len(s) => s[l + 1].role # "tool"
    PROVE  Normal(SubSeq(s, f, l))
<1> DEFINE b == SubSeq(s, f, l)
<1>0. /\ Len(s) \in Nat /\ DOMAIN s = 1..Len(s)
      /\ b \in Seq(Messages) /\ Len(b) = l + 1 - f /\ DOMAIN b = 1..l + 1 - f
      /\ \A i \in 1..l + 1 - f : f + i - 1 \in 1..Len(s) /\ b[i] = s[f + i - 1]
    <2>1. /\ Len(s) \in Nat /\ DOMAIN s = 1..Len(s) /\ f \in Nat /\ l \in Nat
          /\ b \in Seq(Messages) /\ Len(b) = l + 1 - f
          /\ \A i \in 1..l + 1 - f : b[i] = s[f + i - 1]
        BY SliceAt, LenProperties
    <2> HIDE DEF b
    <2>2. DOMAIN b = 1..l + 1 - f
        BY <2>1, LenProperties
    <2>3. \A i \in 1..l + 1 - f : f + i - 1 \in 1..Len(s)
        BY <2>1
    <2> QED BY <2>1, <2>2, <2>3
<1> HIDE DEF b
<1>1. ASSUME NEW i \in DOMAIN b, b[i].role = "tool"
      PROVE  i > 1 /\ (b[i - 1].role = "tool" \/ Opens(b[i - 1]))
    <2>1. i # 1
        BY <1>0, <1>1
    <2>2. s[f + i - 2].role = "tool" \/ Opens(s[f + i - 2])
        <3> DEFINE p == f + i - 1
        <3>0. p \in DOMAIN s /\ b[i] = s[p]
            BY <1>0
        <3>1. p \in DOMAIN s /\ s[p].role = "tool" /\ p - 1 = f + i - 2
            <4>1. i \in Nat /\ f \in Nat
                BY <1>0
            <4>2. p - 1 = f + i - 2
                BY <4>1
            <4> QED BY <1>1, <3>0, <4>2
        <3> HIDE DEF p
        <3>2. s[p - 1].role = "tool" \/ Opens(s[p - 1])
            BY <3>1 DEF Normal
        <3> QED BY <3>1, <3>2
    <2>i. i \in 1..l + 1 - f
        BY <1>0
    <2>3. i - 1 \in 1..l + 1 - f /\ f + (i - 1) - 1 = f + i - 2
        BY <2>i, <2>1
    <2>4. b[i - 1] = s[f + i - 2]
        BY <1>0, <2>3
    <2> QED BY <1>0, <2>1, <2>2, <2>4
<1>2. ASSUME NEW i \in DOMAIN b, b[i].role # "tool", ~Opens(b[i])
      PROVE  ~Unsafe(b[i])
    BY <1>0, <1>2 DEF Normal
<1>3. ASSUME NEW i \in DOMAIN b, NEW j \in DOMAIN b, IsBatch(b, i, j)
      PROVE  Answered(SubSeq(b, i, j))
    <2>0. /\ i \in 1..Len(b) /\ j \in i..Len(b) /\ Opens(b[i])
          /\ \A k \in i + 1..j : b[k].role = "tool"
          /\ j < Len(b) => b[j + 1].role # "tool"
        BY <1>3 DEF IsBatch
    <2>n. Len(s) \in Nat /\ i \in 1..l + 1 - f /\ j \in i..l + 1 - f
        BY <1>0, <2>0
    <2>1. f + i - 1 \in 1..Len(s) /\ f + j - 1 \in f + i - 1..Len(s) /\ f + j - 1 \in 1..Len(s)
        BY <2>n, PlacesOfSlice
    <2>2. ASSUME NEW k \in f + i - 1 + 1..f + j - 1 PROVE s[k].role = "tool"
        <3>1. k - f + 1 \in i + 1..j /\ k - f + 1 \in 1..l + 1 - f /\ f + (k - f + 1) - 1 = k
            BY <2>n, PlacesOfSlice
        <3> QED BY <1>0, <2>0, <3>1
    <2>3. ASSUME f + j - 1 < Len(s) PROVE s[f + j - 1 + 1].role # "tool"
        <3>1. CASE j = Len(b)
            <4>1. f + j - 1 = l
                <5>1. j = l + 1 - f
                    BY <1>0, <3>1
                <5> QED BY <2>n, <5>1, PlacesOfSlice
            <4> QED BY <2>3, <4>1
        <3>2. CASE j < Len(b)
            <4>0. j < l + 1 - f
                BY <1>0, <3>2
            <4>1. j + 1 \in 1..l + 1 - f /\ f + (j + 1) - 1 = f + j - 1 + 1
                BY <2>n, <4>0
            <4> QED BY <1>0, <2>0, <3>2, <4>1
        <3> QED BY <1>0, <2>0, <3>1, <3>2
    <2>4. IsBatch(s, f + i - 1, f + j - 1)
        BY <1>0, <2>0, <2>1, <2>2, <2>3 DEF IsBatch
    <2>5. SubSeq(b, i, j) = SubSeq(s, f + i - 1, f + j - 1)
        <3>1. i \in 1..l - f + 1 /\ j \in 1..l - f + 1 /\ l \in 1..Len(s)
            BY <1>0, <2>0
        <3> QED BY <3>1, SubSeqOfSubSeq DEF b
    <2> QED BY <1>0, <2>1, <2>4, <2>5 DEF Normal
<1>4. ASSUME NEW i \in DOMAIN b, NEW j \in DOMAIN b,
             NEW k \in DOMAIN b[i].calls, NEW m \in DOMAIN b[j].calls,
             b[i].calls[k] = b[j].calls[m]
      PROVE  i = j
    <2>1. f + i - 1 = f + j - 1
        <3> DEFINE p == f + i - 1
                   q == f + j - 1
        <3>1. p \in DOMAIN s /\ q \in DOMAIN s /\ b[i] = s[p] /\ b[j] = s[q]
            BY <1>0, <1>4
        <3> HIDE DEF p, q
        <3>2. p = q
            BY <1>4, <3>1 DEF Normal
        <3> QED BY <3>2 DEF p, q
    <2> QED BY <1>0, <2>1
<1>5. Normal(b)
    BY <1>1, <1>2, <1>3, <1>4 DEF Normal
<1> QED BY <1>5 DEF b

\* Messages without protocol keep it, and use no id.
LEMMA NormalText ==
    ASSUME NEW s \in Seq(Messages), \A i \in DOMAIN s : ~Unsafe(s[i])
    PROVE  Normal(s) /\ \A id : ~Uses(s, id)
<1>1. \A i \in DOMAIN s : s[i].role # "tool" /\ ~Opens(s[i]) /\ s[i].calls = <<>>
    BY DEF Unsafe, Opens
<1>2. DOMAIN s = 1..Len(s) /\ \A i, j : ~IsBatch(s, i, j)
    BY <1>1, LenProperties DEF IsBatch
<1>3. DOMAIN <<>> = {}
    OBVIOUS
<1> QED BY <1>1, <1>2, <1>3 DEF Normal, Uses

LEMMA MessageType ==
    ASSUME NEW m \in Messages
    PROVE  /\ m.role \in Roles /\ m.calls \in Seq(Ids) /\ m.outputs \in Seq(Ids)
           /\ m.other \in BOOLEAN /\ m.size \in Nat
    BY DEF Messages

LEMMA PlainType ==
    ASSUME NEW m \in Messages
    PROVE  Plain(m) \in Messages /\ ~Unsafe(Plain(m))
<1> DEFINE role == IF m.role = "tool" THEN "user" ELSE m.role
           size == m.size + Label
<1>1. role \in Roles /\ role # "tool" /\ size \in Nat
    BY MessageType, HistoryAssumption DEF Roles
<1>2. <<>> \in Seq(Ids)
    BY EmptySeq
<1>3. Plain(m) = [m EXCEPT !.role = role, !.calls = <<>>, !.outputs = <<>>,
                           !.other = TRUE, !.size = size]
    BY DEF Plain
<1> HIDE DEF role, size
<1> QED BY <1>1, <1>2, <1>3 DEF Messages, Unsafe

\* The new id of the k-th call is the k-th new id.
LEMMA NewIdAt ==
    ASSUME NEW cs \in Seq(Ids), \A k, l \in DOMAIN cs : cs[k] = cs[l] => k = l,
           NEW new, NEW k \in DOMAIN cs
    PROVE  NewId(cs[k], cs, new) = new[k]
<1>1. (CHOOSE j \in DOMAIN cs : cs[j] = cs[k]) = k
    OBVIOUS
<1> QED BY <1>1 DEF NewId

LEMMA NewIdType ==
    ASSUME NEW cs \in Seq(Ids), NEW new \in Seq(Ids), Len(new) = Len(cs), NEW id \in Ids
    PROVE  NewId(id, cs, new) \in Ids
<1>1. DOMAIN cs = DOMAIN new
    BY LenProperties
<1>2. CASE \E k \in DOMAIN cs : cs[k] = id
    <2>1. (CHOOSE k \in DOMAIN cs : cs[k] = id) \in DOMAIN new
        BY <1>1, <1>2
    <2>2. \A k \in DOMAIN new : new[k] \in Ids
        BY ElementOfSeq, LenProperties
    <2> QED BY <1>2, <2>1, <2>2 DEF NewId
<1>3. CASE ~\E k \in DOMAIN cs : cs[k] = id
    BY <1>3 DEF NewId
<1> QED BY <1>2, <1>3

\* Pointwise images of sequences of ids.
LEMMA ImageType ==
    ASSUME NEW cs \in Seq(Ids), NEW new \in Seq(Ids), Len(new) = Len(cs), NEW t \in Seq(Ids)
    PROVE  [k \in DOMAIN t |-> NewId(t[k], cs, new)] \in Seq(Ids)
<1>1. Len(t) \in Nat /\ DOMAIN t = 1..Len(t) /\ \A k \in DOMAIN t : t[k] \in Ids
    BY ElementOfSeq, LenProperties
<1>2. \A k \in 1..Len(t) : NewId(t[k], cs, new) \in Ids
    BY <1>1, NewIdType
<1> QED BY <1>1, <1>2

LEMMA RenamedFields ==
    ASSUME NEW m \in Messages, NEW cs \in Seq(Ids), NEW new \in Seq(Ids), Len(new) = Len(cs)
    PROVE  /\ Renamed(m, cs, new) \in Messages
           /\ Renamed(m, cs, new).role = m.role /\ Renamed(m, cs, new).other = m.other
           /\ DOMAIN Renamed(m, cs, new).calls = DOMAIN m.calls
           /\ DOMAIN Renamed(m, cs, new).outputs = DOMAIN m.outputs
           /\ \A k \in DOMAIN m.calls : Renamed(m, cs, new).calls[k] = NewId(m.calls[k], cs, new)
           /\ \A k \in DOMAIN m.outputs :
                Renamed(m, cs, new).outputs[k] = NewId(m.outputs[k], cs, new)
<1>1. [k \in DOMAIN m.calls |-> NewId(m.calls[k], cs, new)] \in Seq(Ids)
    BY MessageType, ImageType
<1>2. [k \in DOMAIN m.outputs |-> NewId(m.outputs[k], cs, new)] \in Seq(Ids)
    BY MessageType, ImageType
<1> DEFINE c == [k \in DOMAIN m.calls |-> NewId(m.calls[k], cs, new)]
           o == [k \in DOMAIN m.outputs |-> NewId(m.outputs[k], cs, new)]
<1>3. Renamed(m, cs, new) = [m EXCEPT !.calls = c, !.outputs = o]
    BY DEF Renamed
<1>4. DOMAIN c = DOMAIN m.calls /\ DOMAIN o = DOMAIN m.outputs
      /\ (\A k \in DOMAIN m.calls : c[k] = NewId(m.calls[k], cs, new))
      /\ (\A k \in DOMAIN m.outputs : o[k] = NewId(m.outputs[k], cs, new))
    OBVIOUS
<1>5. c \in Seq(Ids) /\ o \in Seq(Ids)
    BY <1>1, <1>2
<1> HIDE DEF c, o
<1>6. [m EXCEPT !.calls = c, !.outputs = o] \in Messages
      /\ [m EXCEPT !.calls = c, !.outputs = o].role = m.role
      /\ [m EXCEPT !.calls = c, !.outputs = o].other = m.other
      /\ [m EXCEPT !.calls = c, !.outputs = o].calls = c
      /\ [m EXCEPT !.calls = c, !.outputs = o].outputs = o
    BY <1>5 DEF Messages
<1> QED BY <1>3, <1>4, <1>6

\* A batch, the new ids of its calls, and the batch with them.
IsAnswer(b, cs) ==
    /\ Len(b) # 0 /\ Opens(b[1]) /\ cs = b[1].calls
    /\ \A i \in 2..Len(b) : b[i].role = "tool"
AreNew(new, cs) ==
    /\ Len(new) = Len(cs)
    /\ \A k, l \in DOMAIN new : new[k] = new[l] => k = l
    /\ \A k \in DOMAIN new : new[k].name # ""
Rewritten(b, cs, new) == [i \in 1..Len(b) |-> Renamed(b[i], cs, new)]

\* A renamed batch is answered and uses the new ids and no others.
LEMMA RenamedBatch ==
    ASSUME NEW b \in Seq(Messages), NEW cs \in Seq(Ids), IsAnswer(b, cs), Answered(b),
           NEW new \in Seq(Ids), AreNew(new, cs)
    PROVE  /\ Rewritten(b, cs, new) \in Seq(Messages)
           /\ Len(Rewritten(b, cs, new)) = Len(b)
           /\ Normal(Rewritten(b, cs, new))
           /\ \A id : Uses(Rewritten(b, cs, new), id) => \E k \in DOMAIN new : new[k] = id
           /\ \A k \in DOMAIN new : Uses(Rewritten(b, cs, new), new[k])
<1> DEFINE r == Rewritten(b, cs, new)
<1>n. /\ \A k, l \in DOMAIN new : new[k] = new[l] => k = l
      /\ \A k \in DOMAIN new : new[k].name # ""
    BY DEF AreNew
<1>0. /\ Len(b) \in Nat \ {0} /\ DOMAIN b = 1..Len(b) /\ \A i \in 1..Len(b) : b[i] \in Messages
      /\ cs = b[1].calls /\ DOMAIN cs = DOMAIN new /\ cs # <<>>
    <2>1. Len(b) \in Nat \ {0} /\ DOMAIN b = 1..Len(b) /\ \A i \in 1..Len(b) : b[i] \in Messages
        BY ElementOfSeq, LenProperties DEF IsAnswer
    <2>2. DOMAIN cs = 1..Len(cs) /\ DOMAIN new = 1..Len(new) /\ Len(new) = Len(cs)
        BY LenProperties DEF AreNew
    <2> QED BY <2>1, <2>2 DEF Opens, IsAnswer
<1>1. \A i \in 1..Len(b) :
        /\ r[i] \in Messages /\ r[i].role = b[i].role /\ r[i].other = b[i].other
        /\ DOMAIN r[i].calls = DOMAIN b[i].calls /\ DOMAIN r[i].outputs = DOMAIN b[i].outputs
        /\ \A k \in DOMAIN b[i].calls : r[i].calls[k] = NewId(b[i].calls[k], cs, new)
        /\ \A k \in DOMAIN b[i].outputs : r[i].outputs[k] = NewId(b[i].outputs[k], cs, new)
    <2> SUFFICES ASSUME NEW i \in 1..Len(b)
                 PROVE  /\ r[i] \in Messages /\ r[i].role = b[i].role /\ r[i].other = b[i].other
                        /\ DOMAIN r[i].calls = DOMAIN b[i].calls
                        /\ DOMAIN r[i].outputs = DOMAIN b[i].outputs
                        /\ \A k \in DOMAIN b[i].calls : r[i].calls[k] = NewId(b[i].calls[k], cs, new)
                        /\ \A k \in DOMAIN b[i].outputs :
                             r[i].outputs[k] = NewId(b[i].outputs[k], cs, new)
        OBVIOUS
    <2>1. r[i] = Renamed(b[i], cs, new)
        BY DEF Rewritten
    <2>2. Len(new) = Len(cs) /\ b[i] \in Messages
        BY <1>0 DEF AreNew
    <2> DEFINE m == b[i]
               x == r[i]
    <2>a. m \in Messages /\ x = Renamed(m, cs, new) /\ Len(new) = Len(cs)
        BY <2>1, <2>2
    <2> HIDE DEF m, x
    <2>l. cs \in Seq(Ids) /\ new \in Seq(Ids)
        OBVIOUS
    <2>b. /\ Renamed(m, cs, new) \in Messages
          /\ Renamed(m, cs, new).role = m.role /\ Renamed(m, cs, new).other = m.other
          /\ DOMAIN Renamed(m, cs, new).calls = DOMAIN m.calls
          /\ DOMAIN Renamed(m, cs, new).outputs = DOMAIN m.outputs
          /\ \A k \in DOMAIN m.calls : Renamed(m, cs, new).calls[k] = NewId(m.calls[k], cs, new)
          /\ \A k \in DOMAIN m.outputs :
               Renamed(m, cs, new).outputs[k] = NewId(m.outputs[k], cs, new)
        BY Zenon, <2>a, <2>l, RenamedFields
    <2>c. /\ x \in Messages /\ x.role = m.role /\ x.other = m.other
          /\ DOMAIN x.calls = DOMAIN m.calls /\ DOMAIN x.outputs = DOMAIN m.outputs
          /\ \A k \in DOMAIN m.calls : x.calls[k] = NewId(m.calls[k], cs, new)
          /\ \A k \in DOMAIN m.outputs : x.outputs[k] = NewId(m.outputs[k], cs, new)
        BY Zenon, <2>a, <2>b
    <2> HIDE DEF r
    <2>3. /\ r[i] \in Messages /\ r[i].role = b[i].role /\ r[i].other = b[i].other
          /\ DOMAIN r[i].calls = DOMAIN b[i].calls /\ DOMAIN r[i].outputs = DOMAIN b[i].outputs
        BY <2>c DEF m, x
    <2>4. \A k \in DOMAIN b[i].calls : r[i].calls[k] = NewId(b[i].calls[k], cs, new)
        BY <2>c DEF m, x
    <2>5. \A k \in DOMAIN b[i].outputs : r[i].outputs[k] = NewId(b[i].outputs[k], cs, new)
        BY <2>c DEF m, x
    <2> QED BY <2>3, <2>4, <2>5
<1>2. r \in Seq(Messages) /\ Len(r) = Len(b) /\ DOMAIN r = 1..Len(b)
    <2>1. r = [i \in 1..Len(b) |-> r[i]]
        BY DEF Rewritten
    <2> HIDE DEF r
    <2>2. [i \in 1..Len(b) |-> r[i]] \in Seq(Messages)
        BY <1>0, <1>1, IsASeq
    <2>3. r \in Seq(Messages) /\ DOMAIN r = 1..Len(b)
        BY <2>1, <2>2
    <2> QED BY <1>0, <2>3, LenProperties
<1> HIDE DEF r
<1>3. /\ \A k, l \in DOMAIN cs : cs[k] = cs[l] => k = l
      /\ b[1].outputs = <<>>
      /\ \A i \in 2..Len(b) : b[i].calls = <<>> /\ ~b[i].other
    BY <1>0 DEF Answered
<1>a. ASSUME NEW i \in 2..Len(b), NEW o \in DOMAIN b[i].outputs
      PROVE  \E k \in DOMAIN cs : cs[k] = b[i].outputs[o]
    <2>1. \E k \in DOMAIN b[1].calls : b[1].calls[k] = b[i].outputs[o]
        BY DEF Answered
    <2> QED BY <1>0, <2>1
<1>b. ASSUME NEW i \in 2..Len(b), NEW o \in DOMAIN b[i].outputs,
             NEW j \in 2..Len(b), NEW p \in DOMAIN b[j].outputs,
             b[i].outputs[o] = b[j].outputs[p]
      PROVE  i = j /\ o = p
    <2> DEFINE Asked(x, u) == \E k \in DOMAIN b[1].calls : b[1].calls[k] = b[x].outputs[u]
               Once(x, u) == \A y \in 2..Len(b) : \A v \in DOMAIN b[y].outputs :
                               b[x].outputs[u] = b[y].outputs[v] => x = y /\ u = v
    <2>1. \A x \in 2..Len(b) : \A u \in DOMAIN b[x].outputs : Asked(x, u) /\ Once(x, u)
        BY DEF Answered
    <2>2. Once(i, o)
        <3> HIDE DEF Asked, Once
        <3> QED BY <2>1
    <2> QED BY <1>b, <2>2
<1>c. ASSUME NEW k \in DOMAIN cs
      PROVE  \E i \in 2..Len(b) : \E o \in DOMAIN b[i].outputs : b[i].outputs[o] = cs[k]
    <2>1. k \in DOMAIN b[1].calls /\ cs[k] = b[1].calls[k]
        BY <1>0
    <2>2. \E i \in 2..Len(b) : \E o \in DOMAIN b[i].outputs : b[i].outputs[o] = b[1].calls[k]
        BY <2>1 DEF Answered
    <2> QED BY <2>1, <2>2
<1>4. ASSUME NEW k \in DOMAIN cs PROVE NewId(cs[k], cs, new) = new[k]
    <2>1. \A l, m \in DOMAIN cs : cs[l] = cs[m] => l = m
        BY <1>3
    <2> QED BY <2>1, NewIdAt
<1>5. 1 \in 1..Len(b) /\ 2..Len(b) \subseteq 1..Len(b) /\ 1..Len(b) = {1} \cup 2..Len(b)
    BY <1>0
<1>6. DOMAIN r[1].calls = DOMAIN new /\ \A k \in DOMAIN new : r[1].calls[k] = new[k]
    BY <1>0, <1>1, <1>4, <1>5
<1>7. \A i \in 2..Len(b) : \A o \in DOMAIN r[i].outputs :
        \E k \in DOMAIN new : cs[k] = b[i].outputs[o] /\ r[i].outputs[o] = new[k]
    <2> SUFFICES ASSUME NEW i \in 2..Len(b), NEW o \in DOMAIN r[i].outputs
                 PROVE  \E k \in DOMAIN new : cs[k] = b[i].outputs[o] /\ r[i].outputs[o] = new[k]
        OBVIOUS
    <2>1. o \in DOMAIN b[i].outputs /\ r[i].outputs[o] = NewId(b[i].outputs[o], cs, new)
        BY <1>1, <1>5
    <2>2. PICK k \in DOMAIN cs : cs[k] = b[i].outputs[o]
        BY <1>a, <2>1
    <2>3. NewId(cs[k], cs, new) = new[k]
        BY <1>4
    <2> QED BY <1>0, <2>1, <2>2, <2>3
<1>8. r[1].outputs = <<>> /\ \A i \in 2..Len(b) : r[i].calls = <<>>
    <2>1. \A i \in 1..Len(b) : r[i].calls \in Seq(Ids) /\ r[i].outputs \in Seq(Ids)
        BY <1>1, MessageType
    <2>2. \A t \in Seq(Ids) : DOMAIN t = {} => t = <<>>
        <3> SUFFICES ASSUME NEW t \in Seq(Ids), DOMAIN t = {} PROVE t = <<>>
            OBVIOUS
        <3>1. DOMAIN t = 1..Len(t) /\ Len(t) \in Nat
            BY LenProperties
        <3>2. Len(t) = 0
            BY <3>1
        <3> QED BY <3>2, EmptySeq
    <2>3. DOMAIN <<>> = {}
        OBVIOUS
    <2>4. DOMAIN r[1].outputs = {}
        BY <1>1, <1>3, <1>5, <2>3
    <2>5. ASSUME NEW i \in 2..Len(b) PROVE r[i].calls = <<>>
        <3>1. b[i].calls = <<>> /\ i \in 1..Len(b)
            BY <1>3, <1>5
        <3>2. DOMAIN r[i].calls = {} /\ r[i].calls \in Seq(Ids)
            BY <1>1, <2>1, <2>3, <3>1
        <3> QED BY <2>2, <3>2
    <2> QED BY <1>5, <2>1, <2>2, <2>4, <2>5
<1>9. Answered(r)
    <2>1. \A k \in DOMAIN r[1].calls : r[1].calls[k].name # ""
        BY <1>n, <1>6
    <2>2. \A k, l \in DOMAIN r[1].calls : r[1].calls[k] = r[1].calls[l] => k = l
        BY <1>n, <1>6
    <2>3. \A i \in 2..Len(r) : r[i].calls = <<>> /\ ~r[i].other
        BY <1>1, <1>2, <1>3, <1>5, <1>8
    <2>4. ASSUME NEW i \in 2..Len(r), NEW o \in DOMAIN r[i].outputs
          PROVE  /\ \E k \in DOMAIN r[1].calls : r[1].calls[k] = r[i].outputs[o]
                 /\ \A j \in 2..Len(r) : \A p \in DOMAIN r[j].outputs :
                      r[i].outputs[o] = r[j].outputs[p] => i = j /\ o = p
        <3>1. PICK k \in DOMAIN new : cs[k] = b[i].outputs[o] /\ r[i].outputs[o] = new[k]
            BY <1>2, <1>7
        <3>2. ASSUME NEW j \in 2..Len(r), NEW p \in DOMAIN r[j].outputs,
                     r[i].outputs[o] = r[j].outputs[p]
              PROVE  i = j /\ o = p
            <4>1. PICK l \in DOMAIN new : cs[l] = b[j].outputs[p] /\ r[j].outputs[p] = new[l]
                BY <1>2, <1>7
            <4>2. k = l
                BY <1>n, <3>1, <3>2, <4>1
            <4>3. o \in DOMAIN b[i].outputs /\ p \in DOMAIN b[j].outputs
                BY <1>1, <1>2, <1>5
            <4>4. b[i].outputs[o] = b[j].outputs[p]
                BY <3>1, <4>1, <4>2
            <4> QED BY <1>2, <1>b, <4>3, <4>4
        <3> QED BY <1>6, <3>1, <3>2
    <2>5. ASSUME NEW k \in DOMAIN r[1].calls
          PROVE  \E i \in 2..Len(r) : \E o \in DOMAIN r[i].outputs : r[i].outputs[o] = r[1].calls[k]
        <3>0. PICK i \in 2..Len(b) : \E o \in DOMAIN b[i].outputs : b[i].outputs[o] = cs[k]
            BY <1>0, <1>c, <1>6
        <3>1. PICK o \in DOMAIN b[i].outputs : b[i].outputs[o] = cs[k]
            BY <3>0
        <3>2. o \in DOMAIN r[i].outputs
            BY <1>1, <1>5
        <3>3. PICK l \in DOMAIN new : cs[l] = b[i].outputs[o] /\ r[i].outputs[o] = new[l]
            BY <1>7, <3>2
        <3>4. l = k
            <4>1. l \in DOMAIN cs /\ k \in DOMAIN cs /\ cs[l] = cs[k]
                BY <1>0, <1>6, <3>1, <3>3
            <4> QED BY <1>3, <4>1
        <3> QED BY <1>2, <1>6, <3>2, <3>3, <3>4
    <2> QED BY <1>8, <2>1, <2>2, <2>3, <2>4, <2>5 DEF Answered
<1>10. Opens(r[1]) /\ \A i \in 2..Len(b) : r[i].role = "tool"
    <2>0. b[1].role = "assistant" /\ \A i \in 2..Len(b) : b[i].role = "tool"
        BY DEF IsAnswer, Opens
    <2>1. r[1].role = "assistant"
        BY <1>1, <1>5, <2>0
    <2>2. r[1].calls # <<>>
        <3>1. DOMAIN cs # {}
            <4>1. Len(cs) \in Nat \ {0} /\ DOMAIN cs = 1..Len(cs)
                BY <1>0, EmptySeq, LenProperties
            <4>2. 1 \in 1..Len(cs)
                BY <4>1
            <4> QED BY <4>1, <4>2
        <3> QED BY <1>0, <1>6, <3>1
    <2> QED BY <1>1, <1>5, <2>0, <2>1, <2>2 DEF Opens
<1>11. Normal(r)
    <2>1. ASSUME NEW i \in DOMAIN r, r[i].role = "tool"
          PROVE  i > 1 /\ (r[i - 1].role = "tool" \/ Opens(r[i - 1]))
        <3>1. i # 1
            BY <1>10, <2>1 DEF Opens
        <3>2. i - 1 = 1 \/ i - 1 \in 2..Len(b)
            BY <1>0, <1>2, <3>1
        <3> QED BY <1>0, <1>2, <1>10, <3>1, <3>2
    <2>2. ASSUME NEW i \in DOMAIN r, r[i].role # "tool", ~Opens(r[i]) PROVE ~Unsafe(r[i])
        BY <1>2, <1>5, <1>10, <2>2
    <2>3. ASSUME NEW i \in DOMAIN r, NEW j \in DOMAIN r, IsBatch(r, i, j)
          PROVE  Answered(SubSeq(r, i, j))
        <3>0. /\ i \in 1..Len(r) /\ j \in i..Len(r) /\ Opens(r[i])
              /\ j < Len(r) => r[j + 1].role # "tool"
            BY <2>3 DEF IsBatch
        <3>1. i = 1
            BY <1>2, <1>5, <1>10, <3>0 DEF Opens
        <3>2. j = Len(r)
            <4>1. j < Len(r) => j + 1 \in 2..Len(b)
                BY <1>0, <1>2, <3>0, <3>1
            <4> QED BY <1>0, <1>2, <1>10, <3>0, <4>1
        <3>3. SubSeq(r, 1, Len(r)) = r
            BY <1>2, SubSeqFull
        <3> QED BY <1>9, <3>1, <3>2, <3>3
    <2>4. ASSUME NEW i \in DOMAIN r, NEW j \in DOMAIN r,
                 NEW k \in DOMAIN r[i].calls, NEW l \in DOMAIN r[j].calls
          PROVE  i = j
        <3>1. DOMAIN <<>> = {}
            OBVIOUS
        <3> QED BY <1>2, <1>5, <1>8, <2>4, <3>1
    <2> QED BY <2>1, <2>2, <2>3, <2>4 DEF Normal
<1>12. \A id : Uses(r, id) => \E k \in DOMAIN new : new[k] = id
    <2>1. DOMAIN <<>> = {}
        OBVIOUS
    <2> QED BY <1>2, <1>5, <1>6, <1>8, <2>1 DEF Uses
<1>13. \A k \in DOMAIN new : Uses(r, new[k])
    BY <1>2, <1>5, <1>6 DEF Uses
<1> QED BY <1>2, <1>11, <1>12, <1>13 DEF r

\* Ids that are their own new ids change nothing.
LEMMA RenamedSame ==
    ASSUME NEW m \in Messages, NEW cs \in Seq(Ids), NEW new \in Seq(Ids), Len(new) = Len(cs),
           \A k \in DOMAIN cs : new[k] = cs[k]
    PROVE  Renamed(m, cs, new) = m
<1>1. \A id : NewId(id, cs, new) = id
    <2> SUFFICES ASSUME NEW id PROVE NewId(id, cs, new) = id
        OBVIOUS
    <2>1. CASE \E k \in DOMAIN cs : cs[k] = id
        <3> DEFINE k == CHOOSE k \in DOMAIN cs : cs[k] = id
        <3>1. k \in DOMAIN cs /\ cs[k] = id
            BY <2>1
        <3> QED BY <2>1, <3>1 DEF NewId
    <2>2. CASE ~\E k \in DOMAIN cs : cs[k] = id
        BY <2>2 DEF NewId
    <2> QED BY <2>1, <2>2
<1>2. [k \in DOMAIN m.calls |-> NewId(m.calls[k], cs, new)] = m.calls
    <2>1. m.calls \in Seq(Ids)
        BY MessageType
    <2>2. m.calls = [k \in DOMAIN m.calls |-> m.calls[k]]
        BY <2>1, LenProperties
    <2> QED BY <1>1, <2>2
<1>3. [k \in DOMAIN m.outputs |-> NewId(m.outputs[k], cs, new)] = m.outputs
    <2>1. m.outputs \in Seq(Ids)
        BY MessageType
    <2>2. m.outputs = [k \in DOMAIN m.outputs |-> m.outputs[k]]
        BY <2>1, LenProperties
    <2> QED BY <1>1, <2>2
<1>4. Renamed(m, cs, new) = [m EXCEPT !.calls = m.calls, !.outputs = m.outputs]
    BY <1>2, <1>3 DEF Renamed
<1> QED BY <1>4 DEF Messages

LEMMA NormalEmpty == Normal(<<>>) /\ \A id : ~Uses(<<>>, id)
<1>1. <<>> \in Seq(Messages) /\ DOMAIN <<>> = {}
    OBVIOUS
<1> QED BY <1>1, NormalText

-----------------------------------------------------------------------------
(* Where a normalisation starts and where its locals are dropped *)

\* What holds of the session and the turn when a step ends.
SessionOK ==
    /\ rows \in Seq(Messages) /\ boundary \in 0..Len(rows) /\ snapshot \in Seq(Messages)
    /\ left \in Nat /\ request \in Seq(Messages) /\ turn \in Nat
    /\ Normal(request) /\ Normal(snapshot)

\* The empty locals of history_units.
NoLocals ==
    out = <<>> /\ units = <<>> /\ seen = {} /\ stop = 0 /\ names = <<>>

LEMMA EmptyLocals ==
    ASSUME NoLocals, input \in Seq(Messages)
    PROVE  /\ out \in Seq(Messages) /\ units \in Seq(Nat \X Nat) /\ seen \subseteq Ids
           /\ stop \in Nat /\ names \in Seq(Ids)
           /\ UnitsShape /\ ScanShape /\ Closed /\ Considered = 0
<1>1. DOMAIN <<>> = {} /\ Len(<<>>) = 0 /\ Len(input) \in Nat
    BY LenProperties
<1>2. Normal(out)
    BY NormalEmpty DEF NoLocals
<1> QED BY <1>1, <1>2 DEF NoLocals, UnitsShape, ScanShape, Closed, Considered

\* What a normalisation needs to start with.
Startable ==
    /\ doing \in {"assemble", "chat", "snapshotted", "job", "tools", "snapshot", "compact"}
    /\ doing = "compact" => request = <<>> /\ Len(input) = Len(rows) - boundary
    /\ doing # "compact" => request # <<>> /\ (turn = 0 => request[Len(request)].role = "user")
    /\ doing = "assemble" => turn = 0
    /\ doing \in {"assemble", "snapshot"} => \A i \in DOMAIN Target : Target[i].calls = <<>>
    /\ doing = "snapshotted" => \A i \in DOMAIN request : request[i].calls = <<>>
    /\ doing \in {"chat", "job", "tools", "snapshotted"} =>
         /\ Len(input) = Len(Base) + IF doing = "tools" THEN 2 ELSE 0
         /\ \A i \in 1..Len(Base) : input[i] = Base[i]
         /\ doing = "tools" => input[Len(Base) + 1].role # "tool"

AtStart == SessionOK /\ NoLocals /\ input \in Seq(Messages) /\ pc = "units" /\ Startable

LEMMA Starting == AtStart => IndInv
<1> SUFFICES ASSUME SessionOK, NoLocals, input \in Seq(Messages), pc = "units", Startable
             PROVE  IndInv
    BY DEF AtStart
<1>1. TypeOK
    BY EmptyLocals DEF TypeOK, SessionOK, Startable
<1>2. UnitsShape /\ ScanShape /\ Closed
    BY EmptyLocals
<1>3. Naming /\ Choosing
    BY DEF Naming, Choosing, Startable
<1>4. Replaying
    <2>1. Len(out) = 0
        BY DEF NoLocals
    <2>2. Base \in Seq(Messages) /\ \A i \in 1..Len(Base) : ~(i <= Len(out))
        <3>1. Base \in Seq(Messages)
            BY DEF Base, SessionOK
        <3> QED BY <2>1, <3>1, LenProperties
    <2> HIDE DEF Base
    <2> QED BY <2>2 DEF Replaying, Startable
<1>5. Sendable /\ Compacting
    BY DEF Sendable, Compacting, SessionOK, Startable
<1> QED BY <1>1, <1>2, <1>3, <1>4, <1>5 DEF IndInv

LEMMA StartingNext == AtStart' => IndInv'
    BY Starting, PTL

AtEnd ==
    /\ SessionOK /\ NoLocals /\ input = <<>> /\ pc \in {"idle", "model"}
    /\ doing \in {"assemble", "chat", "snapshotted", "job", "tools", "snapshot", "compact"}
    /\ pc = "idle" \/ doing = "compact" => request = <<>>
    /\ pc = "model" => /\ doing \in {"chat", "job", "tools"}
                       /\ request # <<>>
                       /\ turn = 0 => request[Len(request)].role = "user"
    /\ doing = "assemble" => turn = 0

LEMMA Leaving == AtEnd => IndInv
<1> SUFFICES ASSUME AtEnd PROVE IndInv
    OBVIOUS
<1> USE DEF AtEnd
<1>0. input \in Seq(Messages)
    OBVIOUS
<1>1. TypeOK
    BY <1>0, EmptyLocals DEF TypeOK, SessionOK
<1>2. UnitsShape /\ ScanShape /\ Closed
    BY <1>0, EmptyLocals
<1>3. Naming /\ Choosing /\ Replaying
    BY DEF Naming, Choosing, Replaying
<1>4. Sendable /\ Compacting
    BY DEF Sendable, Compacting, SessionOK
<1> QED BY <1>1, <1>2, <1>3, <1>4 DEF IndInv

LEMMA LeavingNext == AtEnd' => IndInv'
    BY Leaving, PTL

\* The messages of the model are well-typed.
LEMMA OwnMessages ==
    /\ \A size \in Nat : User(size) \in Messages /\ ~Unsafe(User(size)) /\ User(size).role = "user"
                        /\ User(size).calls = <<>>
    /\ Reply \in Messages
<1>1. <<>> \in Seq(Ids)
    BY EmptySeq
<1> QED BY <1>1 DEF User, Reply, Messages, Roles, Unsafe

\* A session's stored rows, before any of them was normalised, satisfy the invariant.
THEOREM Initially == Init => IndInv
<1> SUFFICES ASSUME Init PROVE IndInv
    OBVIOUS
<1>1. rows \in Seq(Messages)
    BY HistoryAssumption DEF Init
<1>2. SessionOK
    BY <1>1, NormalEmpty DEF SessionOK, Init
<1> QED BY <1>2, Leaving DEF Init, NoLocals, AtEnd
-----------------------------------------------------------------------------
(* Taking a unit *)

\* What a unit must be to be put behind the others.
Takeable(b) ==
    /\ b \in Seq(Messages) /\ b # <<>> /\ Normal(b)
    /\ Len(out) + Len(b) <= Len(input)
    /\ \A id : Uses(b, id) => id \in seen /\ ~Uses(out, id)
    /\ \A k \in DOMAIN names : Uses(b, names[k])
    /\ Len(out) + Len(b) < Len(input) /\ (b[Len(b)].role = "tool" \/ Opens(b[Len(b)]))
         => input[Len(out) + Len(b) + 1].role # "tool"
    /\ doing \in {"chat", "job", "tools", "snapshotted"} =>
         \A i \in 1..Len(b) : Len(out) + i <= Len(Base) => b[i] = Base[Len(out) + i]

\* What is used in a concatenation is used in a part.
LEMMA UsesConcat ==
    ASSUME NEW a \in Seq(Messages), NEW b \in Seq(Messages), NEW id
    PROVE  Uses(a \o b, id) <=> Uses(a, id) \/ Uses(b, id)
<1>0. /\ Len(a) \in Nat /\ Len(b) \in Nat /\ DOMAIN a = 1..Len(a) /\ DOMAIN b = 1..Len(b)
      /\ DOMAIN (a \o b) = 1..Len(a) + Len(b)
      /\ \A i \in 1..Len(a) : (a \o b)[i] = a[i]
      /\ \A i \in Len(a) + 1..Len(a) + Len(b) : (a \o b)[i] = b[i - Len(a)]
    BY ConcatAt, LenProperties
<1>1. ASSUME Uses(a, id) PROVE Uses(a \o b, id)
    <2>1. PICK i \in 1..Len(a) : \E k \in DOMAIN a[i].calls : a[i].calls[k] = id
        BY <1>0, <1>1 DEF Uses
    <2>2. i \in 1..Len(a) + Len(b) /\ (a \o b)[i] = a[i]
        BY <1>0, <2>1
    <2> QED BY <1>0, <2>1, <2>2 DEF Uses
<1>2. ASSUME Uses(b, id) PROVE Uses(a \o b, id)
    <2>1. PICK i \in 1..Len(b) : \E k \in DOMAIN b[i].calls : b[i].calls[k] = id
        BY <1>0, <1>2 DEF Uses
    <2>l. Len(a) \in Nat /\ Len(b) \in Nat
        BY <1>0
    <2>2. Len(a) + i \in Len(a) + 1..Len(a) + Len(b) /\ Len(a) + i \in 1..Len(a) + Len(b)
          /\ Len(a) + i - Len(a) = i
        BY <2>l
    <2>3. (a \o b)[Len(a) + i] = b[i]
        BY <1>0, <2>2
    <2>4. Len(a) + i \in DOMAIN (a \o b)
        BY <1>0, <2>2
    <2>5. \E k \in DOMAIN (a \o b)[Len(a) + i].calls : (a \o b)[Len(a) + i].calls[k] = id
        BY <2>1, <2>3
    <2> QED BY <2>4, <2>5 DEF Uses
<1>3. ASSUME Uses(a \o b, id) PROVE Uses(a, id) \/ Uses(b, id)
    <2>1. PICK i \in 1..Len(a) + Len(b) :
            \E k \in DOMAIN (a \o b)[i].calls : (a \o b)[i].calls[k] = id
        BY <1>0, <1>3 DEF Uses
    <2>2. CASE i \in 1..Len(a)
        BY <1>0, <2>1, <2>2 DEF Uses
    <2>3. CASE i \in Len(a) + 1..Len(a) + Len(b)
        <3>1. i - Len(a) \in 1..Len(b)
            BY <1>0, <2>3
        <3> QED BY <1>0, <2>1, <2>3, <3>1 DEF Uses
    <2> QED BY <1>0, <2>1, <2>2, <2>3
<1> QED BY <1>1, <1>2, <1>3

LEMMA AppendAt ==
    ASSUME NEW S, NEW s \in Seq(S), NEW e \in S
    PROVE  /\ Append(s, e) \in Seq(S) /\ Len(s) \in Nat /\ Len(Append(s, e)) = Len(s) + 1
           /\ DOMAIN Append(s, e) = 1..Len(s) + 1 /\ Append(s, e) # <<>>
           /\ \A i \in 1..Len(s) : Append(s, e)[i] = s[i]
           /\ Append(s, e)[Len(s) + 1] = e
           /\ \A i \in 1..Len(s) : s[i] \in S
<1>1. /\ Append(s, e) \in Seq(S) /\ Len(s) \in Nat /\ Len(Append(s, e)) = Len(s) + 1
      /\ \A i \in 1..Len(s) : Append(s, e)[i] = s[i]
      /\ Append(s, e)[Len(s) + 1] = e
    BY AppendProperties, LenProperties
<1>2. DOMAIN Append(s, e) = 1..Len(s) + 1
    BY <1>1, LenProperties
<1>3. Append(s, e) # <<>>
    BY <1>1, EmptySeq
<1>4. \A i \in 1..Len(s) : s[i] \in S
    BY ElementOfSeq
<1> QED BY <1>1, <1>2, <1>3, <1>4

LEMMA Taking ==
    ASSUME IndInv, NEW b, Takeable(b), TakeUnit(b), pc \in {"units", "name"},
           pc' = "units", names' = <<>>, stop' \in Nat, seen' = seen
    PROVE  IndInv'
<1>0. /\ TypeOK /\ b \in Seq(Messages) /\ out \in Seq(Messages) /\ input \in Seq(Messages)
      /\ Len(out) \in Nat /\ Len(input) \in Nat /\ Len(b) \in Nat \ {0} /\ b[1].role # "tool"
      /\ out' = out \o b /\ input' = input /\ doing' = doing /\ Len(out) + Len(b) <= Len(input)
      /\ rows' = rows /\ boundary' = boundary /\ snapshot' = snapshot
      /\ left' = left /\ request' = request /\ turn' = turn
      /\ units' = Append(units, <<Len(out) + 1, Len(out) + Len(b)>>)
    <2>1. b \in Seq(Messages) /\ b # <<>> /\ Normal(b) /\ Len(out) + Len(b) <= Len(input)
        BY DEF Takeable
    <2>2. b[1].role # "tool" /\ Len(b) \in Nat \ {0}
        BY <2>1, NormalBegins, EmptySeq, LenProperties
    <2>3. /\ TypeOK /\ out \in Seq(Messages) /\ input \in Seq(Messages)
          /\ Len(out) \in Nat /\ Len(input) \in Nat
        BY LenProperties DEF IndInv, TypeOK
    <2> QED BY <2>1, <2>2, <2>3 DEF TakeUnit, session, turnVars, first
<1>1. /\ out' \in Seq(Messages) /\ Len(out') = Len(out) + Len(b)
      /\ DOMAIN out' = 1..Len(out) + Len(b)
      /\ \A i \in 1..Len(out) : out'[i] = out[i]
      /\ \A i \in Len(out) + 1..Len(out) + Len(b) : out'[i] = b[i - Len(out)]
    BY <1>0, ConcatAt
<1>2. /\ units \in Seq(Nat \X Nat) /\ Len(units) \in Nat /\ DOMAIN units = 1..Len(units)
      /\ units' \in Seq(Nat \X Nat) /\ Len(units') = Len(units) + 1
      /\ DOMAIN units' = 1..Len(units) + 1 /\ units' # <<>>
      /\ \A u \in 1..Len(units) : units'[u] = units[u]
      /\ units'[Len(units) + 1] = <<Len(out) + 1, Len(out) + Len(b)>>
      /\ \A u \in 1..Len(units) : units[u][1] \in Nat /\ units[u][2] \in Nat
    <2>1. <<Len(out) + 1, Len(out) + Len(b)>> \in Nat \X Nat
        BY <1>0
    <2>2. units \in Seq(Nat \X Nat) /\ DOMAIN units = 1..Len(units)
        BY <1>0, LenProperties DEF TypeOK
    <2> DEFINE S == Nat \X Nat
               e == <<Len(out) + 1, Len(out) + Len(b)>>
    <2>3. e \in S /\ units \in Seq(S) /\ units' = Append(units, e)
        BY <1>0, <2>1, <2>2
    <2> HIDE DEF S, e
    <2>4. /\ Append(units, e) \in Seq(S) /\ Len(units) \in Nat /\ Len(Append(units, e)) = Len(units) + 1
          /\ DOMAIN Append(units, e) = 1..Len(units) + 1 /\ Append(units, e) # <<>>
          /\ \A i \in 1..Len(units) : Append(units, e)[i] = units[i]
          /\ Append(units, e)[Len(units) + 1] = e
          /\ \A i \in 1..Len(units) : units[i] \in S
        BY <2>3, AppendAt
    <2>5. \A i \in 1..Len(units) : units[i][1] \in Nat /\ units[i][2] \in Nat
        BY <2>4 DEF S
    <2> QED BY <2>2, <2>3, <2>4, <2>5 DEF S, e
<1>3. TypeOK'
    BY <1>0, <1>1, <1>2, EmptySeq DEF TypeOK
<1>l. /\ Len(units) \in Nat /\ Len(units') = Len(units) + 1 /\ units' # <<>>
      /\ DOMAIN units = 1..Len(units) /\ DOMAIN units' = 1..Len(units) + 1
    BY <1>2
<1>z. Len(out) \in Nat /\ Len(b) \in Nat \ {0} /\ Len(out') = Len(out) + Len(b)
    BY <1>0, <1>1
<1>u. \A u \in 1..Len(units) : units'[u] = units[u]
    BY <1>2
<1>n. units'[Len(units) + 1][1] = Len(out) + 1 /\ units'[Len(units) + 1][2] = Len(out) + Len(b)
    BY <1>2
<1>4. Considered = Len(out)
    BY DEF IndInv, UnitsShape
<1>5. UnitsShape'
    <2>1. ASSUME NEW u \in 1..Len(units) + 1
          PROVE  /\ units'[u][1] \in 1..units'[u][2] /\ units'[u][2] <= Len(out')
                 /\ out'[units'[u][1]].role # "tool"
                 /\ IF u = 1 THEN units'[u][1] = 1 ELSE units'[u][1] = units'[u - 1][2] + 1
        <3>1. CASE u \in 1..Len(units)
            <4>1. /\ units[u][1] \in 1..units[u][2] /\ units[u][2] <= Len(out)
                  /\ out[units[u][1]].role # "tool"
                  /\ IF u = 1 THEN units[u][1] = 1 ELSE units[u][1] = units[u - 1][2] + 1
                BY <1>2, <3>1 DEF IndInv, UnitsShape
            <4>2. units[u][1] \in Nat /\ units[u][2] \in Nat
                BY <1>2, <3>1
            <4>3. units'[u] = units[u] /\ (u # 1 => units'[u - 1] = units[u - 1])
                <5>1. u # 1 => u - 1 \in 1..Len(units)
                    BY <1>l, <3>1
                <5> QED BY <1>u, <3>1, <5>1
            <4>4. units[u][1] \in 1..Len(out)
                <5>1. units[u][1] >= 1 /\ units[u][1] <= units[u][2]
                    <6>1. units[u][1] \in 1..units[u][2]
                        BY <4>1
                    <6> QED BY <4>2, <6>1
                <5>2. units[u][2] <= Len(out)
                    BY <4>1
                <5> QED BY <1>z, <4>2, <5>1, <5>2
            <4>5. units'[u][1] \in 1..units'[u][2] /\ units'[u][2] <= Len(out')
                <5>1. units[u][2] <= Len(out) /\ units[u][1] \in 1..units[u][2]
                    BY <4>1
                <5>2. units[u][2] <= Len(out')
                    BY <1>z, <4>2, <5>1
                <5> QED BY <4>3, <5>1, <5>2
            <4>6. out'[units'[u][1]].role # "tool"
                BY <1>1, <4>1, <4>3, <4>4
            <4>7. IF u = 1 THEN units'[u][1] = 1 ELSE units'[u][1] = units'[u - 1][2] + 1
                BY <4>1, <4>3
            <4> QED BY <4>5, <4>6, <4>7
        <3>2. CASE u = Len(units) + 1
            <4>1. IF u = 1 THEN Len(out) = 0 ELSE units[u - 1][2] = Len(out)
                BY <1>2, <1>4, <3>2, EmptySeq DEF Considered
            <4>2. u # 1 => units'[u - 1] = units[u - 1]
                <5>1. u # 1 => u - 1 \in 1..Len(units)
                    BY <1>l, <3>2
                <5> QED BY <1>u, <5>1
            <4>3. out'[Len(out) + 1].role # "tool"
                BY <1>0, <1>1
            <4>4. units'[u][1] = Len(out) + 1 /\ units'[u][2] = Len(out) + Len(b)
                BY <1>n, <3>2
            <4>5. IF u = 1 THEN units'[u][1] = 1 ELSE units'[u][1] = units'[u - 1][2] + 1
                <5>1. CASE u = 1
                    BY <1>z, <4>1, <4>4, <5>1
                <5>2. CASE u # 1
                    BY <1>z, <4>1, <4>2, <4>4, <5>2
                <5> QED BY <5>1, <5>2
            <4> QED BY <1>z, <4>3, <4>4, <4>5
        <3> QED BY <1>2, <3>1, <3>2
    <2>2. Considered' = Len(out')
        BY <1>1, <1>l, <1>n DEF Considered
    <2>3. pc' = "units" /\ Len(out') \in Nat
        BY <1>0, <1>1
    <2> QED BY <1>l, <2>1, <2>2, <2>3 DEF UnitsShape
<1>6. ScanShape'
    <2>0. /\ Normal(out) /\ Normal(b)
          /\ \A i \in DOMAIN out : \A k \in DOMAIN out[i].calls : out[i].calls[k] \in seen
          /\ \A id \in seen : Uses(out, id) \/ \E k \in DOMAIN names : names[k] = id
          /\ \A id : Uses(b, id) => id \in seen /\ ~Uses(out, id)
          /\ \A k \in DOMAIN names : Uses(b, names[k])
        BY DEF IndInv, ScanShape, Takeable
    <2>1. Normal(out')
        <3>1. \A i \in DOMAIN out : \A k \in DOMAIN out[i].calls : ~Uses(b, out[i].calls[k])
            BY <2>0 DEF Uses
        <3> QED BY <1>0, <2>0, <3>1, NormalConcat
    <2>2. \A id : Uses(out', id) <=> Uses(out, id) \/ Uses(b, id)
        BY <1>0, UsesConcat
    <2>u. \A id : Uses(out, id) => id \in seen
        BY <2>0 DEF Uses
    <2>3. \A id : Uses(out', id) => id \in seen
        BY <2>0, <2>2, <2>u
    <2>4. \A i \in DOMAIN out' : \A k \in DOMAIN out'[i].calls : out'[i].calls[k] \in seen'
        BY <2>3 DEF Uses
    <2>5. \A id \in seen' : Uses(out', id)
        BY <2>0, <2>2
    <2> QED BY <1>0, <1>1, <2>1, <2>4, <2>5 DEF ScanShape, Uses
<1>7. Naming' /\ Choosing' /\ Sendable' /\ Compacting'
    BY <1>0 DEF IndInv, Naming, Choosing, Target, Sendable, Compacting
<1>8. Replaying'
    <2>1. ASSUME doing \in {"chat", "job", "tools", "snapshotted"}
          PROVE  /\ Len(input') = Len(Base') + IF doing' = "tools" THEN 2 ELSE 0
                 /\ \A i \in 1..Len(Base') : input'[i] = Base'[i] /\ (i <= Len(out') => out'[i] = Base'[i])
                 /\ doing' = "tools" => input'[Len(Base') + 1].role # "tool"
        <3>0. Base' = Base
            BY <1>0 DEF Base
        <3>1. /\ Len(input) = Len(Base) + IF doing = "tools" THEN 2 ELSE 0
              /\ \A i \in 1..Len(Base) : input[i] = Base[i] /\ (i <= Len(out) => out[i] = Base[i])
              /\ doing = "tools" => input[Len(Base) + 1].role # "tool"
            BY <2>1 DEF IndInv, Replaying
        <3>2. \A i \in 1..Len(b) : Len(out) + i <= Len(Base) => b[i] = Base[Len(out) + i]
            BY <2>1 DEF Takeable
        <3>3. Len(Base) \in Nat
            BY <1>0, LenProperties DEF Base, TypeOK
        <3>4. ASSUME NEW i \in 1..Len(Base), i <= Len(out') PROVE out'[i] = Base[i]
            <4>1. CASE i <= Len(out)
                BY <1>0, <1>1, <3>1, <3>3, <4>1
            <4>2. CASE i > Len(out)
                <5>1. i - Len(out) \in 1..Len(b) /\ Len(out) + (i - Len(out)) = i
                      /\ i \in Len(out) + 1..Len(out) + Len(b)
                    BY <1>0, <1>1, <3>3, <3>4, <4>2
                <5>2. b[i - Len(out)] = Base[i]
                    BY <3>2, <3>3, <5>1
                <5>3. out'[i] = b[i - Len(out)]
                    BY <1>1, <5>1
                <5> QED BY <5>2, <5>3
            <4>3. i \in Nat
                BY <3>3
            <4> QED BY <1>z, <4>1, <4>2, <4>3
        <3> QED BY <1>0, <3>0, <3>1, <3>4
    <2> QED BY <1>0, <2>1 DEF Replaying
<1>9. Closed'
    <2>1. out'[Len(out')] = b[Len(b)]
        <3>1. Len(out) + Len(b) \in Len(out) + 1..Len(out) + Len(b)
              /\ Len(out) + Len(b) - Len(out) = Len(b)
            BY <1>z
        <3>2. out'[Len(out) + Len(b)] = b[Len(out) + Len(b) - Len(out)]
            BY <1>1, <3>1
        <3> QED BY <1>z, <3>1, <3>2
    <2>2. first' = Len(out) + Len(b) + 1 /\ input' = input
        BY <1>0, <1>1 DEF first
    <2> QED BY <1>z, <2>1, <2>2 DEF Closed, Takeable
<1> QED BY <1>3, <1>5, <1>6, <1>7, <1>8, <1>9 DEF IndInv

\* Where the scan stands.
LEMMA Scanning ==
    ASSUME IndInv
    PROVE  /\ out \in Seq(Messages) /\ input \in Seq(Messages)
           /\ Len(out) \in Nat /\ Len(input) \in Nat /\ first = Len(out) + 1
           /\ Base \in Seq(Messages) /\ Len(Base) \in Nat /\ Normal(Base)
           /\ DOMAIN Base = 1..Len(Base) /\ DOMAIN input = 1..Len(input)
           /\ stop \in Nat /\ Len(out) <= Len(input)
           /\ \A i \in 1..Len(input) : input[i] \in Messages
<1>1. /\ out \in Seq(Messages) /\ input \in Seq(Messages) /\ Base \in Seq(Messages)
      /\ stop \in Nat /\ Len(out) <= Len(input)
    BY DEF IndInv, TypeOK, Base, ScanShape
<1>2. Normal(Base) /\ first = Len(out) + 1
    BY DEF IndInv, Sendable, Base, first
<1>3. /\ Len(out) \in Nat /\ Len(input) \in Nat /\ Len(Base) \in Nat
      /\ DOMAIN Base = 1..Len(Base) /\ DOMAIN input = 1..Len(input)
      /\ \A i \in 1..Len(input) : input[i] \in Messages
    BY <1>1, ElementOfSeq, LenProperties
<1> QED BY <1>1, <1>2, <1>3

\* What was sent before is there again, and perhaps one exchange more.
Replays == doing \in {"chat", "job", "tools", "snapshotted"}
LEMMA Replayed ==
    ASSUME IndInv, pc \in {"units", "name"}, Replays
    PROVE  /\ Len(Base) <= Len(input)
           /\ \A i \in 1..Len(Base) : input[i] = Base[i] /\ (i <= Len(out) => out[i] = Base[i])
           /\ Len(Base) < Len(input) => input[Len(Base) + 1].role # "tool"
<1>1. /\ Len(input) = Len(Base) + IF doing = "tools" THEN 2 ELSE 0
      /\ \A i \in 1..Len(Base) : input[i] = Base[i] /\ (i <= Len(out) => out[i] = Base[i])
      /\ doing = "tools" => input[Len(Base) + 1].role # "tool"
    BY DEF IndInv, Replaying, Replays
<1>2. doing = "tools" => Len(input) = Len(Base) + 2
    BY <1>1
<1>3. doing # "tools" => Len(input) = Len(Base) + 0
    BY <1>1
<1>4. Len(Base) <= Len(input) /\ (Len(Base) < Len(input) => doing = "tools")
    <2>1. Len(input) \in Nat /\ Len(Base) \in Nat
        BY Scanning
    <2>2. CASE doing = "tools"
        BY <1>2, <2>1, <2>2
    <2>3. CASE doing # "tools"
        BY <1>3, <2>1, <2>3
    <2> QED BY <2>2, <2>3
<1>5. Len(Base) < Len(input) => input[Len(Base) + 1].role # "tool"
    BY <1>1, <1>4
<1> QED BY <1>1, <1>4, <1>5

\* One message is a sequence that keeps the protocol if it holds none.
LEMMA OneMessage ==
    ASSUME NEW m \in Messages, ~Unsafe(m)
    PROVE  <<m>> \in Seq(Messages) /\ Len(<<m>>) = 1 /\ <<m>>[1] = m /\ <<m>> # <<>>
           /\ Normal(<<m>>) /\ \A id : ~Uses(<<m>>, id)
<1> DEFINE b == <<m>>
<1>1. b \in Seq(Messages) /\ Len(b) = 1 /\ b[1] = m /\ b # <<>> /\ DOMAIN b = 1..1
    OBVIOUS
<1> HIDE DEF b
<1>2. \A i \in DOMAIN b : ~Unsafe(b[i])
    <2>1. \A i \in 1..1 : i = 1
        OBVIOUS
    <2> QED BY <1>1, <2>1
<1>3. Normal(b) /\ \A id : ~Uses(b, id)
    BY <1>1, <1>2, NormalText
<1> QED BY <1>1, <1>3 DEF b

LEMMA TakesMessage == IndInv /\ TakeMessage => IndInv'
<1> SUFFICES ASSUME IndInv, TakeMessage PROVE IndInv'
    OBVIOUS
<1> DEFINE m == input[first]
           n == IF Unsafe(m) THEN Plain(m) ELSE m
           b == <<n>>
<1>0. /\ pc = "units" /\ Len(out) < Len(input) /\ ~Opens(m) /\ TakeUnit(b)
      /\ pc' = pc /\ seen' = seen /\ stop' = stop /\ names' = names
    BY DEF TakeMessage
<1>z. Len(out) \in Nat /\ Len(input) \in Nat /\ Len(Base) \in Nat
      /\ first = Len(out) + 1 /\ Len(out) < Len(input)
    BY <1>0, Scanning
<1>1. m \in Messages /\ first \in 1..Len(input)
    <2>1. first \in 1..Len(input)
        BY <1>z
    <2> QED BY <1>0, <2>1, Scanning
<1>2. n \in Messages /\ ~Unsafe(n)
    BY <1>1, PlainType
<1>3. names = <<>> /\ stop \in Nat /\ DOMAIN names = {}
    BY <1>0, Scanning DEF IndInv, ScanShape
<1>4. ASSUME doing \in {"chat", "job", "tools", "snapshotted"}, first <= Len(Base)
      PROVE  n = Base[first]
    <2>0. /\ Normal(Base) /\ DOMAIN Base = 1..Len(Base)
          /\ \A i \in 1..Len(Base) : input[i] = Base[i] /\ (i <= Len(out) => out[i] = Base[i])
        BY <1>0, <1>4, Scanning, Replayed DEF Replays
    <2>1. m = Base[first] /\ first \in DOMAIN Base
        <3>1. first \in 1..Len(Base)
            BY <1>z, <1>4
        <3> QED BY <2>0, <3>1
    <2>2. m.role # "tool"
        <3>1. CASE first = 1
            <4>1. m.role = "tool" => first > 1
                BY <2>0, <2>1 DEF Normal
            <4> QED BY <3>1, <4>1
        <3>2. CASE first # 1
            <4>1. SUFFICES ASSUME m.role = "tool" PROVE FALSE
                OBVIOUS
            <4>2. Base[first - 1].role = "tool" \/ Opens(Base[first - 1])
                BY <2>0, <2>1, <4>1 DEF Normal
            <4>3. first - 1 = Len(out) /\ Len(out) \in 1..Len(Base) /\ Len(out) <= Len(out)
                BY <1>z, <1>4, <3>2
            <4>4. out[Len(out)] = Base[Len(out)]
                BY <2>0, <4>3
            <4>5. out # <<>>
                BY <4>3, EmptySeq
            <4> QED BY <1>0, <4>1, <4>2, <4>3, <4>4, <4>5 DEF IndInv, Closed
        <3> QED BY <3>1, <3>2
    <2>3. ~Unsafe(m)
        BY <1>0, <2>0, <2>1, <2>2 DEF Normal
    <2> QED BY <2>1, <2>3
<1>5. Takeable(b)
    <2> HIDE DEF m, n
    <2>1. b \in Seq(Messages) /\ Len(b) = 1 /\ b[1] = n /\ b # <<>> /\ Normal(b)
          /\ \A id : ~Uses(b, id)
        BY <1>2, OneMessage
    <2> HIDE DEF b
    <2>2. Len(out) + Len(b) <= Len(input)
        BY <1>z, <2>1
    <2>3. n.role # "tool" /\ ~Opens(n)
        BY <1>2 DEF Unsafe, Opens
    <2>4. ASSUME doing \in {"chat", "job", "tools", "snapshotted"},
                 NEW i \in 1..Len(b), Len(out) + i <= Len(Base)
          PROVE  b[i] = Base[Len(out) + i]
        <3>1. i = 1 /\ Len(out) + i = first
            BY <1>z, <2>1
        <3> QED BY <1>4, <2>1, <2>4, <3>1
    <2> QED BY <1>3, <2>1, <2>2, <2>3, <2>4 DEF Takeable
<1> HIDE DEF b
<1> QED BY <1>0, <1>3, <1>5, Taking
\* A batch that begins among the messages sent before was sent before.
LEMMA BatchWithin ==
    ASSUME IndInv, pc \in {"units", "name"}, Replays, first <= Len(Base),
           NEW last, IsBatch(input, first, last)
    PROVE  first \in 1..Len(Base) /\ last \in first..Len(Base)
           /\ Answered(SubSeq(input, first, last))
<1>0. /\ input \in Seq(Messages) /\ Base \in Seq(Messages) /\ Normal(Base)
      /\ Len(input) \in Nat /\ Len(Base) \in Nat /\ DOMAIN Base = 1..Len(Base)
      /\ Len(out) \in Nat /\ first = Len(out) + 1
    BY Scanning
<1>1. /\ Len(Base) <= Len(input)
      /\ \A i \in 1..Len(Base) : input[i] = Base[i]
      /\ Len(Base) < Len(input) => input[Len(Base) + 1].role # "tool"
    BY Replayed
<1>2. /\ first \in 1..Len(input) /\ last \in first..Len(input) /\ Opens(input[first])
      /\ \A i \in first + 1..last : input[i].role = "tool"
      /\ last < Len(input) => input[last + 1].role # "tool"
    BY DEF IsBatch
<1>3. first \in 1..Len(Base)
    BY <1>0, <1>2
<1>4. last \in first..Len(Base)
    <2>1. ASSUME last > Len(Base) PROVE FALSE
        <3>1. Len(Base) + 1 \in first + 1..last /\ Len(Base) < Len(input)
            BY <1>0, <1>2, <1>3, <2>1
        <3> QED BY <1>1, <1>2, <3>1
    <2> QED BY <1>0, <1>2, <2>1
<1>5. IsBatch(Base, first, last)
    <2>1. Opens(Base[first])
        BY <1>1, <1>2, <1>3
    <2>2. ASSUME NEW i \in first + 1..last PROVE Base[i].role = "tool"
        <3>1. i \in 1..Len(Base)
            BY <1>0, <1>3, <1>4
        <3> QED BY <1>1, <1>2, <3>1
    <2>3. ASSUME last < Len(Base) PROVE Base[last + 1].role # "tool"
        <3>1. last + 1 \in 1..Len(Base) /\ last < Len(input)
            BY <1>0, <1>1, <1>3, <1>4, <2>3
        <3> QED BY <1>1, <1>2, <3>1
    <2> QED BY <1>3, <1>4, <2>1, <2>2, <2>3 DEF IsBatch
<1>6. SubSeq(input, first, last) = SubSeq(Base, first, last)
    <2>1. \A k \in first..last : input[k] = Base[k]
        <3> SUFFICES ASSUME NEW k \in first..last PROVE input[k] = Base[k]
            OBVIOUS
        <3>1. k \in 1..Len(Base)
            BY <1>0, <1>3, <1>4
        <3> QED BY <1>1, <3>1
    <2>2. last <= Len(Base) /\ last <= Len(input)
        BY <1>0, <1>2, <1>3, <1>4
    <2> QED BY <1>0, <1>2, <2>1, <2>2, SameSlice
<1>7. first \in DOMAIN Base /\ last \in DOMAIN Base
    BY <1>0, <1>3, <1>4
<1>8. Answered(SubSeq(Base, first, last))
    BY <1>0, <1>5, <1>7 DEF Normal
<1> QED BY <1>3, <1>4, <1>6, <1>8

LEMMA TakesBroken == IndInv /\ TakeBroken => IndInv'
<1> SUFFICES ASSUME IndInv, TakeBroken PROVE IndInv'
    OBVIOUS
<1>1. PICK last \in first..Len(input) :
        /\ IsBatch(input, first, last) /\ ~Answered(SubSeq(input, first, last))
        /\ TakeUnit([i \in 1..last + 1 - first |-> Plain(input[first + i - 1])])
    BY DEF TakeBroken
<1>2. pc = "units" /\ pc' = "units" /\ seen' = seen /\ stop' = stop /\ names' = names
    BY DEF TakeBroken
<1> DEFINE b == [i \in 1..last + 1 - first |-> Plain(input[first + i - 1])]
<1>0. /\ Len(out) \in Nat /\ Len(input) \in Nat /\ Len(Base) \in Nat /\ first = Len(out) + 1
      /\ last \in Nat /\ last >= first /\ last <= Len(input) /\ first \in 1..Len(input)
    <2>1. Len(out) \in Nat /\ Len(input) \in Nat /\ Len(Base) \in Nat /\ first = Len(out) + 1
        BY Scanning
    <2> QED BY <1>1, <2>1
<1>3. names = <<>> /\ stop \in Nat /\ DOMAIN names = {}
    BY <1>2, Scanning DEF IndInv, ScanShape
<1>4. \A i \in 1..last + 1 - first : b[i] \in Messages /\ ~Unsafe(b[i])
    <2> SUFFICES ASSUME NEW i \in 1..last + 1 - first
                 PROVE  Plain(input[first + i - 1]) \in Messages
                        /\ ~Unsafe(Plain(input[first + i - 1]))
        OBVIOUS
    <2>1. first + i - 1 \in 1..Len(input)
        BY <1>0
    <2>2. input[first + i - 1] \in Messages
        BY <2>1, Scanning
    <2> QED BY <2>2, PlainType
<1>5. b \in Seq(Messages) /\ Len(b) = last + 1 - first /\ Len(b) \in Nat \ {0}
      /\ DOMAIN b = 1..Len(b) /\ b # <<>>
    <2>1. last + 1 - first \in Nat \ {0}
        BY <1>0
    <2>2. b = [i \in 1..last + 1 - first |-> b[i]]
        OBVIOUS
    <2> HIDE DEF b
    <2>3. b \in Seq(Messages) /\ DOMAIN b = 1..last + 1 - first
        BY <1>4, <2>1, <2>2, IsASeq
    <2>4. Len(b) = last + 1 - first
        BY <2>1, <2>3, LenProperties
    <2> QED BY <2>1, <2>3, <2>4, EmptySeq
<1>6. TakeUnit(b)
    BY <1>1
<1> HIDE DEF b
<1>7. Takeable(b)
    <2>1. Normal(b) /\ \A id : ~Uses(b, id)
        BY <1>4, <1>5, NormalText
    <2>2. Len(out) + Len(b) <= Len(input)
        BY <1>0, <1>5
    <2>3. b[Len(b)].role # "tool" /\ ~Opens(b[Len(b)])
        <3>1. Len(b) \in 1..last + 1 - first
            BY <1>5
        <3> QED BY <1>4, <3>1 DEF Unsafe, Opens
    <2>4. ASSUME Replays, NEW i \in 1..Len(b), Len(out) + i <= Len(Base)
          PROVE  b[i] = Base[Len(out) + i]
        <3>1. first <= Len(Base)
            BY <1>0, <1>5, <2>4
        <3> QED BY <1>1, <1>2, <2>4, <3>1, BatchWithin
    <2> QED BY <1>3, <1>5, <2>1, <2>2, <2>3, <2>4 DEF Takeable, Replays
<1> QED BY <1>2, <1>3, <1>6, <1>7, Taking

LEMMA TakesBatch == IndInv /\ TakeBatch => IndInv'
<1> SUFFICES ASSUME IndInv, TakeBatch PROVE IndInv'
    OBVIOUS
<1> DEFINE b == SubSeq(input, first, stop)
           r == Rewritten(b, calls, names)
<1>1. /\ pc = "name" /\ pc' = "units" /\ stop' = 0 /\ names' = <<>> /\ seen' = seen
      /\ Len(names) = Len(calls)
      /\ TakeUnit([i \in 1..stop + 1 - first |-> Renamed(input[first + i - 1], calls, names)])
    BY DEF TakeBatch
<1>2. /\ IsBatch(input, first, stop) /\ Answered(b)
      /\ \A k, l \in DOMAIN names : names[k] = names[l] => k = l
      /\ \A k \in DOMAIN names : names[k].name # ""
      /\ \A k \in DOMAIN names : names[k] \in seen /\ ~Uses(out, names[k])
    BY <1>1 DEF IndInv, Naming
<1>3. /\ first \in 1..Len(input) /\ stop \in first..Len(input) /\ Opens(input[first])
      /\ \A i \in first + 1..stop : input[i].role = "tool"
      /\ stop < Len(input) => input[stop + 1].role # "tool"
    BY <1>2 DEF IsBatch
<1>0. /\ Len(out) \in Nat /\ Len(input) \in Nat /\ Len(Base) \in Nat /\ first = Len(out) + 1
      /\ stop \in Nat /\ stop >= first /\ stop <= Len(input)
    <2>1. Len(out) \in Nat /\ Len(input) \in Nat /\ Len(Base) \in Nat /\ first = Len(out) + 1
          /\ stop \in Nat
        BY Scanning
    <2> QED BY <1>3, <2>1
<1>4. input[first] \in Messages /\ calls \in Seq(Ids) /\ names \in Seq(Ids)
    <2>1. input[first] \in Messages /\ names \in Seq(Ids)
        BY <1>3, Scanning DEF IndInv, TypeOK
    <2> QED BY <2>1, MessageType DEF calls
<1>5. /\ b \in Seq(Messages) /\ Len(b) = stop + 1 - first /\ Len(b) \in Nat \ {0}
      /\ \A i \in 1..stop + 1 - first : b[i] = input[first + i - 1]
    <2>1. /\ b \in Seq(Messages) /\ Len(b) = stop + 1 - first
          /\ \A i \in 1..stop + 1 - first : b[i] = input[first + i - 1]
        BY <1>3, Scanning, SliceAt
    <2> HIDE DEF b
    <2> QED BY <1>0, <2>1
<1>6. IsAnswer(b, calls)
    <2> HIDE DEF b
    <2>1. b[1] = input[first]
        <3>1. 1 \in 1..stop + 1 - first /\ first + 1 - 1 = first
            BY <1>0
        <3> QED BY <1>5, <3>1
    <2>2. ASSUME NEW i \in 2..Len(b) PROVE b[i].role = "tool"
        <3>1. i \in 1..stop + 1 - first /\ first + i - 1 \in first + 1..stop
            BY <1>0, <1>5
        <3> QED BY <1>3, <1>5, <3>1
    <2> QED BY <1>3, <1>5, <2>1, <2>2 DEF IsAnswer, calls
<1>7. AreNew(names, calls)
    BY <1>1, <1>2 DEF AreNew
<1>8. r = [i \in 1..stop + 1 - first |-> Renamed(input[first + i - 1], calls, names)]
    <2> HIDE DEF b
    <2> QED BY <1>5 DEF Rewritten
<1>9. /\ r \in Seq(Messages) /\ Len(r) = stop + 1 - first /\ Normal(r)
      /\ \A id : Uses(r, id) => \E k \in DOMAIN names : names[k] = id
      /\ \A k \in DOMAIN names : Uses(r, names[k])
    <2> HIDE DEF b
    <2> QED BY <1>2, <1>4, <1>5, <1>6, <1>7, RenamedBatch
<1>10. \A i \in 1..stop + 1 - first : r[i] = Renamed(input[first + i - 1], calls, names)
    BY <1>8
<1>11. TakeUnit(r)
    BY <1>1, <1>8
<1> HIDE DEF b, r
<1>12. Takeable(r)
    <2>1. r # <<>> /\ Len(out) + Len(r) = stop
        BY <1>0, <1>9, EmptySeq
    <2>2. \A id : Uses(r, id) => id \in seen /\ ~Uses(out, id)
        <3> SUFFICES ASSUME NEW id, Uses(r, id) PROVE id \in seen /\ ~Uses(out, id)
            OBVIOUS
        <3>1. PICK k \in DOMAIN names : names[k] = id
            BY <1>9
        <3>2. names[k] \in seen /\ ~Uses(out, names[k])
            BY <1>2
        <3> QED BY <3>1, <3>2
    <2>3. ASSUME Replays, NEW i \in 1..Len(r), Len(out) + i <= Len(Base)
          PROVE  r[i] = Base[Len(out) + i]
        <3>1. i \in 1..stop + 1 - first /\ first <= Len(Base) /\ first + i - 1 = Len(out) + i
              /\ Len(out) + i \in 1..Len(Base) /\ Len(out) + i \in 1..Len(input)
            BY <1>0, <1>9, <2>1, <2>3
        <3>2. \A k \in DOMAIN names : names[k] = calls[k]
            BY <1>1, <2>3, <3>1 DEF IndInv, Replaying, Replays
        <3>3. DOMAIN calls = DOMAIN names
            BY <1>1, <1>4, LenProperties
        <3>4. input[Len(out) + i] \in Messages /\ input[Len(out) + i] = Base[Len(out) + i]
            BY <1>1, <2>3, <3>1, Scanning, Replayed
        <3>5. Renamed(input[Len(out) + i], calls, names) = input[Len(out) + i]
            BY <1>1, <1>4, <3>2, <3>3, <3>4, RenamedSame
        <3> QED BY <1>10, <3>1, <3>4, <3>5
    <2>4. Len(out) + Len(r) <= Len(input)
        BY <1>0, <2>1
    <2>5. Len(out) + Len(r) < Len(input) => input[Len(out) + Len(r) + 1].role # "tool"
        BY <1>3, <2>1
    <2> QED BY <1>9, <2>1, <2>2, <2>3, <2>4, <2>5 DEF Takeable, Replays
<1>13. stop' \in Nat
    BY <1>1
<1> QED BY <1>1, <1>11, <1>12, <1>13, Taking
-----------------------------------------------------------------------------
(* Naming the calls of a batch *)

\* In the scan only these change while calls are named.
Unmoved ==
    /\ UNCHANGED <<rows, boundary, snapshot, doing, input, out, units, left, request, turn>>
    /\ pc \in {"units", "name"} /\ pc' = "name"

LEMMA StillThere ==
    ASSUME IndInv, Unmoved
    PROVE  /\ UnitsShape' /\ Choosing' /\ Closed' /\ Sendable' /\ Compacting'
           /\ first' = first /\ calls' = calls /\ Base' = Base
<1>1. UnitsShape'
    BY DEF IndInv, Unmoved, UnitsShape, Considered
<1>2. Choosing'
    BY DEF IndInv, Unmoved, Choosing, Target
<1>3. Closed' /\ Sendable' /\ Compacting'
    BY DEF IndInv, Unmoved, Closed, first, Sendable, Compacting
<1>4. first' = first /\ calls' = calls /\ Base' = Base
    BY DEF Unmoved, first, calls, Base
<1> QED BY <1>1, <1>2, <1>3, <1>4

LEMMA OpensBatch == IndInv /\ OpenBatch => IndInv'
<1> SUFFICES ASSUME IndInv, OpenBatch PROVE IndInv'
    OBVIOUS
<1>1. PICK last \in first..Len(input) :
        IsBatch(input, first, last) /\ Answered(SubSeq(input, first, last)) /\ stop' = last
    BY DEF OpenBatch
<1>2. /\ pc = "units" /\ pc' = "name" /\ names' = <<>> /\ seen' = seen /\ Unmoved
      /\ input' = input /\ out' = out
    BY DEF OpenBatch, Unmoved, session, turnVars
<1>3. /\ UnitsShape' /\ Choosing' /\ Closed' /\ Sendable' /\ Compacting'
      /\ first' = first /\ calls' = calls /\ Base' = Base
    BY <1>2, StillThere
<1>4. last \in Nat
    BY <1>1, Scanning
<1>5. TypeOK'
    BY <1>1, <1>2, <1>4, EmptySeq DEF IndInv, TypeOK, Unmoved
<1>6. names = <<>> /\ DOMAIN <<>> = {} /\ Len(<<>>) = 0
    BY <1>2 DEF IndInv, ScanShape
<1>7. ScanShape'
    BY <1>2, <1>6 DEF IndInv, ScanShape, Uses
<1>8. Naming'
    <2>1. calls \in Seq(Ids)
        <3>1. first \in 1..Len(input)
            BY <1>1 DEF IsBatch
        <3> QED BY <3>1, Scanning, MessageType DEF calls
    <2>2. Len(calls) \in Nat
        BY <2>1, LenProperties
    <2> QED BY <1>1, <1>2, <1>3, <1>6, <2>2 DEF Naming
<1>9. Replaying'
    BY <1>2, <1>3, <1>6 DEF IndInv, Replaying, Unmoved
<1> QED BY <1>3, <1>5, <1>7, <1>8, <1>9 DEF IndInv

\* What is known of the batch being named.
LEMMA InBatch ==
    ASSUME IndInv, pc = "name"
    PROVE  /\ first \in 1..Len(input) /\ calls \in Seq(Ids) /\ names \in Seq(Ids)
           /\ DOMAIN calls = 1..Len(calls) /\ DOMAIN names = 1..Len(names)
           /\ Len(calls) \in Nat /\ Len(names) \in Nat /\ Len(names) <= Len(calls)
           /\ \A k \in 1..Len(calls) : calls[k] \in Ids /\ calls[k].name # ""
           /\ \A k, l \in 1..Len(calls) : calls[k] = calls[l] => k = l
<1> DEFINE b == SubSeq(input, first, stop)
<1>1. /\ IsBatch(input, first, stop) /\ Answered(b) /\ Len(names) <= Len(calls)
    BY DEF IndInv, Naming
<1>2. first \in 1..Len(input) /\ stop \in first..Len(input)
    BY <1>1 DEF IsBatch
<1>3. input[first] \in Messages /\ first = Len(out) + 1 /\ Len(out) \in Nat /\ Len(input) \in Nat
    BY <1>2, Scanning
<1>4. calls \in Seq(Ids) /\ names \in Seq(Ids)
    BY <1>3, MessageType DEF calls, IndInv, TypeOK
<1>5. /\ DOMAIN calls = 1..Len(calls) /\ DOMAIN names = 1..Len(names)
      /\ Len(calls) \in Nat /\ Len(names) \in Nat
      /\ \A k \in 1..Len(calls) : calls[k] \in Ids
    BY <1>4, ElementOfSeq, LenProperties
<1>6. b[1].calls = calls
    <2>1. 1 \in 1..stop + 1 - first /\ first + 1 - 1 = first
        BY <1>2, <1>3
    <2>2. b[1] = input[first + 1 - 1]
        BY <1>2, <2>1, Scanning, SliceAt
    <2> QED BY <2>1, <2>2 DEF calls
<1> HIDE DEF b
<1>7. /\ \A k \in DOMAIN calls : calls[k].name # ""
      /\ \A k, l \in DOMAIN calls : calls[k] = calls[l] => k = l
    BY <1>1, <1>6 DEF Answered
<1> QED BY <1>1, <1>2, <1>4, <1>5, <1>7

\* An id the next call may have.
Free(id) ==
    /\ id \in Ids /\ id \notin seen /\ id.name # ""
    /\ Replays /\ first <= Len(Base) => id = calls[Len(names) + 1]

LEMMA OneMore ==
    ASSUME NEW n \in Nat, NEW m \in Nat
    PROVE  1..n + 1 = 1..n \cup {n + 1} /\ (n < m => n + 1 <= m)
    OBVIOUS

\* A new id goes behind the others.
LEMMA Names1 ==
    ASSUME IndInv, pc = "name", Len(names) < Len(calls), Unmoved, stop' = stop,
           NEW id, Free(id), Name(id)
    PROVE  IndInv'
<1>f. /\ id \in Ids /\ id \notin seen /\ id.name # ""
      /\ Replays /\ first <= Len(Base) => id = calls[Len(names) + 1]
    BY DEF Free
<1>0. /\ names' = Append(names, id) /\ seen' = seen \cup {id} /\ pc' = "name"
      /\ input' = input /\ out' = out /\ doing' = doing
    BY DEF Name, Unmoved
<1>1. /\ names' \in Seq(Ids) /\ Len(names) \in Nat /\ Len(names') = Len(names) + 1
      /\ DOMAIN names' = 1..Len(names) + 1 /\ DOMAIN names = 1..Len(names)
      /\ \A k \in 1..Len(names) : names'[k] = names[k]
      /\ names'[Len(names) + 1] = id
    <2>1. names \in Seq(Ids) /\ DOMAIN names = 1..Len(names)
        BY InBatch
    <2>2. id \in Ids /\ names' = Append(names, id)
        BY <1>f, <1>0
    <2>3. /\ Append(names, id) \in Seq(Ids) /\ Len(names) \in Nat
          /\ Len(Append(names, id)) = Len(names) + 1
          /\ DOMAIN Append(names, id) = 1..Len(names) + 1
          /\ \A k \in 1..Len(names) : Append(names, id)[k] = names[k]
          /\ Append(names, id)[Len(names) + 1] = id
        BY <2>1, <2>2, AppendAt
    <2> QED BY <2>1, <2>2, <2>3
<1>z. Len(names) \in Nat /\ Len(calls) \in Nat /\ Len(names) < Len(calls)
    BY InBatch
<1>k. DOMAIN names' = DOMAIN names \cup {Len(names) + 1}
    <2>1. 1..Len(names) + 1 = 1..Len(names) \cup {Len(names) + 1}
        BY <1>z, OneMore
    <2> QED BY <1>1, <2>1
<1>d. DOMAIN names = 1..Len(names)
    BY <1>1
<1>2. /\ UnitsShape' /\ Choosing' /\ Closed' /\ Sendable' /\ Compacting'
      /\ first' = first /\ calls' = calls /\ Base' = Base
    BY StillThere
<1>3. TypeOK'
    BY <1>f, <1>0, <1>1 DEF IndInv, TypeOK, Unmoved
<1>4. ScanShape'
    <2>1. /\ Len(out) <= Len(input) /\ Normal(out)
          /\ \A i \in DOMAIN out : \A k \in DOMAIN out[i].calls : out[i].calls[k] \in seen
          /\ \A d \in seen : Uses(out, d) \/ \E k \in DOMAIN names : names[k] = d
        BY DEF IndInv, ScanShape
    <2>2. \A d \in seen' : Uses(out, d) \/ \E k \in DOMAIN names' : names'[k] = d
        <3> SUFFICES ASSUME NEW d \in seen'
                     PROVE  Uses(out, d) \/ \E k \in DOMAIN names' : names'[k] = d
            OBVIOUS
        <3>1. CASE d = id
            <4>1. Len(names) + 1 \in DOMAIN names'
                BY <1>k
            <4> QED BY <1>1, <3>1, <4>1
        <3>2. CASE d \in seen /\ ~Uses(out, d)
            <4>1. PICK k \in DOMAIN names : names[k] = d
                BY <2>1, <3>2
            <4>2. k \in DOMAIN names' /\ names'[k] = d
                BY <1>1, <1>d, <1>k, <4>1
            <4> QED BY <4>2
        <3> QED BY <1>0, <3>1, <3>2
    <2>3. Uses(out, id)' <=> Uses(out, id)
        BY <1>0 DEF Uses
    <2>4. \A d : Uses(out', d) <=> Uses(out, d)
        BY <1>0
    <2> QED BY <1>0, <2>1, <2>2, <2>4 DEF ScanShape
<1>5. Naming'
    <2>0. /\ IsBatch(input, first, stop) /\ Answered(SubSeq(input, first, stop))
          /\ \A k, l \in 1..Len(names) : names[k] = names[l] => k = l
          /\ \A k \in 1..Len(names) :
               names[k].name # "" /\ names[k] \in seen /\ ~Uses(out, names[k])
        BY <1>1 DEF IndInv, Naming
    <2>1. Len(names') <= Len(calls)
        BY <1>1, <1>z, OneMore
    <2>2. ~Uses(out, id)
        BY <1>f DEF IndInv, ScanShape, Uses
    <2>3. ASSUME NEW k \in DOMAIN names'
          PROVE  names'[k].name # "" /\ names'[k] \in seen' /\ ~Uses(out, names'[k])
        <3>1. CASE k = Len(names) + 1
            BY <1>f, <1>0, <1>1, <2>2, <3>1
        <3>2. CASE k \in 1..Len(names)
            BY <1>0, <1>1, <2>0, <3>2
        <3> QED BY <1>d, <1>k, <3>1, <3>2
    <2>4. ASSUME NEW k \in DOMAIN names', NEW l \in DOMAIN names', names'[k] = names'[l]
          PROVE  k = l
        <3>1. CASE k \in 1..Len(names) /\ l \in 1..Len(names)
            BY <1>1, <2>0, <2>4, <3>1
        <3>2. CASE k = Len(names) + 1 /\ l = Len(names) + 1
            BY <3>2
        <3>3. CASE k = Len(names) + 1 /\ l \in 1..Len(names)
            BY <1>f, <1>1, <2>0, <2>4, <3>3
        <3>4. CASE l = Len(names) + 1 /\ k \in 1..Len(names)
            BY <1>f, <1>1, <2>0, <2>4, <3>4
        <3> QED BY <1>d, <1>k, <3>1, <3>2, <3>3, <3>4
    <2>5. SubSeq(input, first, stop)' = SubSeq(input, first, stop)
        BY <1>0, <1>2
    <2> QED BY <1>0, <1>2, <2>0, <2>1, <2>3, <2>4 DEF Naming
<1>6. Replaying'
    <2>1. ASSUME Replays, first <= Len(Base), NEW k \in DOMAIN names'
          PROVE  names'[k] = calls[k]
        <3>0. k \in DOMAIN names'
            BY <2>1
        <3>1. CASE k = Len(names) + 1
            BY <1>f, <1>1, <2>1, <3>1
        <3>2. CASE k \in 1..Len(names)
            <4>1. names[k] = calls[k]
                BY <1>1, <2>1, <3>2 DEF IndInv, Replaying, Replays
            <4> QED BY <1>1, <3>2, <4>1
        <3> QED BY <1>d, <1>k, <3>0, <3>1, <3>2
    <2>2. ASSUME Replays
          PROVE  /\ Len(input) = Len(Base) + IF doing = "tools" THEN 2 ELSE 0
                 /\ \A i \in 1..Len(Base) : input[i] = Base[i] /\ (i <= Len(out) => out[i] = Base[i])
                 /\ doing = "tools" => input[Len(Base) + 1].role # "tool"
        BY <2>2 DEF IndInv, Replaying, Replays
    <2> QED BY <1>0, <1>2, <2>1, <2>2 DEF Replaying, Replays
<1> QED BY <1>2, <1>3, <1>4, <1>5, <1>6 DEF IndInv

LEMMA KeepsId == IndInv /\ KeepId => IndInv'
<1> SUFFICES ASSUME IndInv, KeepId PROVE IndInv'
    OBVIOUS
<1> DEFINE id == calls[Len(names) + 1]
<1>1. pc = "name" /\ Len(names) < Len(calls) /\ id \notin seen /\ Name(id) /\ stop' = stop
      /\ Unmoved
    BY DEF KeepId, Unmoved, session, turnVars
<1>2. id \in Ids /\ id.name # ""
    <2>0. Len(names) \in Nat /\ Len(calls) \in Nat
        BY <1>1, InBatch
    <2>1. Len(names) + 1 \in 1..Len(calls)
        BY <1>1, <2>0
    <2> QED BY <1>1, <2>1, InBatch
<1>3. Free(id)
    BY <1>1, <1>2 DEF Free
<1> QED BY <1>1, <1>3, Names1

LEMMA ChangesId == IndInv /\ ChangeId => IndInv'
<1> SUFFICES ASSUME IndInv, ChangeId PROVE IndInv'
    OBVIOUS
<1> DEFINE next == Len(names) + 1
           new(n) == Candidate(first, next, n)
<1>1. pc = "name" /\ Len(names) < Len(calls) /\ calls[next] \in seen /\ stop' = stop /\ Unmoved
    BY DEF ChangeId, Unmoved, session, turnVars
<1>2. PICK n \in 0..Cardinality(seen) : new(n) \notin seen /\ Name(new(n))
    BY DEF ChangeId
<1>0. next \in Nat /\ first \in Nat /\ next \in 1..Len(calls) /\ Len(names) \in Nat
    <2>1. first \in 1..Len(input) /\ Len(names) \in Nat /\ Len(calls) \in Nat
        BY <1>1, InBatch
    <2> QED BY <1>1, <2>1
<1>3. new(n) \in Ids /\ new(n).name # ""
    <2>1. n \in Nat
        BY <1>2
    <2> QED BY <1>0, <2>1 DEF Candidate, Ids
<1>4. ASSUME Replays, first <= Len(Base) PROVE FALSE
    <2>1. \A k \in DOMAIN names : names[k] = calls[k]
        BY <1>1, <1>4 DEF IndInv, Replaying, Replays
    <2>2. ~\E k \in DOMAIN names : names[k] = calls[next]
        <3> SUFFICES ASSUME NEW k \in DOMAIN names, names[k] = calls[next] PROVE FALSE
            OBVIOUS
        <3>0. DOMAIN names = 1..Len(names) /\ Len(calls) \in Nat
            BY <1>1, InBatch
        <3>1. k \in 1..Len(calls) /\ k # next
            BY <1>0, <1>1, <3>0
        <3> QED BY <1>0, <1>1, <2>1, <3>1, InBatch
    <2>3. Uses(out, calls[next])
        BY <1>1, <2>2 DEF IndInv, ScanShape
    <2>4. PICK i \in DOMAIN out : \E k \in DOMAIN out[i].calls : out[i].calls[k] = calls[next]
        BY <2>3 DEF Uses
    <2>5. /\ i \in 1..Len(Base) /\ i # first /\ i <= Len(out)
          /\ first \in 1..Len(Base) /\ DOMAIN Base = 1..Len(Base) /\ Normal(Base)
        <3>1. i \in 1..Len(out)
            BY Scanning, LenProperties
        <3> QED BY <1>4, <3>1, Scanning
    <2>6. out[i] = Base[i] /\ input[first] = Base[first]
        BY <1>1, <1>4, <2>5, Replayed
    <2>7. next \in DOMAIN Base[first].calls /\ Base[first].calls[next] = calls[next]
        BY <1>0, <1>1, <2>6, InBatch DEF calls
    <2> QED BY <2>4, <2>5, <2>6, <2>7 DEF Normal
<1>5. Free(new(n))
    BY <1>2, <1>3, <1>4 DEF Free
<1> HIDE DEF new
<1> QED BY <1>1, <1>2, <1>5, Names1
-----------------------------------------------------------------------------
(* Where normalisations start *)

\* The rows after the boundary.
LEMMA Tail1 ==
    ASSUME NEW S, NEW s \in Seq(S), NEW k \in 0..Len(s)
    PROVE  SubSeq(s, k + 1, Len(s)) \in Seq(S) /\ Len(SubSeq(s, k + 1, Len(s))) = Len(s) - k
<1>0. Len(s) \in Nat
    BY LenProperties
<1>1. CASE k = Len(s)
    <2>1. SubSeq(s, k + 1, Len(s)) = <<>>
        BY <1>0, <1>1, SubSeqEmpty
    <2> QED BY <1>0, <1>1, <2>1, EmptySeq
<1>2. CASE k # Len(s)
    <2>1. k + 1 \in 1..Len(s) /\ Len(s) \in k + 1..Len(s)
        BY <1>0, <1>2
    <2>2. SubSeq(s, k + 1, Len(s)) \in Seq(S)
          /\ Len(SubSeq(s, k + 1, Len(s))) = Len(s) + 1 - (k + 1)
        BY <2>1, SliceAt
    <2> QED BY <1>0, <2>2
<1> QED BY <1>1, <1>2

LEMMA Typed ==
    ASSUME IndInv
    PROVE  /\ rows \in Seq(Messages) /\ boundary \in 0..Len(rows) /\ snapshot \in Seq(Messages)
           /\ Len(rows) \in Nat /\ left \in Nat /\ request \in Seq(Messages) /\ turn \in Nat
           /\ Normal(request) /\ Normal(snapshot) /\ SessionOK /\ Len(request) \in Nat
           /\ \A i \in 1..Len(request) : request[i] \in Messages
<1>1. /\ rows \in Seq(Messages) /\ boundary \in 0..Len(rows) /\ snapshot \in Seq(Messages)
      /\ left \in Nat /\ request \in Seq(Messages) /\ turn \in Nat
      /\ Normal(request) /\ Normal(snapshot)
    BY DEF IndInv, TypeOK, Sendable
<1>2. /\ Len(rows) \in Nat /\ Len(request) \in Nat
      /\ \A i \in 1..Len(request) : request[i] \in Messages
    BY <1>1, ElementOfSeq, LenProperties
<1> QED BY <1>1, <1>2 DEF SessionOK

\* More rows leave the boundary inside them.
LEMMA MoreRows ==
    ASSUME IndInv, NEW more \in Seq(Messages)
    PROVE  rows \o more \in Seq(Messages) /\ boundary \in 0..Len(rows \o more)
<1>1. rows \o more \in Seq(Messages) /\ Len(rows \o more) = Len(rows) + Len(more)
    BY Typed, ConcatAt
<1>2. boundary \in 0..Len(rows) /\ Len(rows) \in Nat /\ Len(more) \in Nat
    BY Typed, LenProperties
<1> QED BY <1>1, <1>2

LEMMA OneMoreRow ==
    ASSUME IndInv, NEW m \in Messages
    PROVE  Append(rows, m) \in Seq(Messages) /\ boundary \in 0..Len(Append(rows, m))
<1>1. Append(rows, m) \in Seq(Messages) /\ Len(Append(rows, m)) = Len(rows) + 1
    BY Typed, AppendAt
<1>2. boundary \in 0..Len(rows) /\ Len(rows) \in Nat
    BY Typed
<1> QED BY <1>1, <1>2

\* A prompt alone.
LEMMA Prompt ==
    ASSUME NEW size \in Sizes
    PROVE  /\ <<User(size)>> \in Seq(Messages) /\ <<User(size)>> # <<>>
           /\ Normal(<<User(size)>>) /\ Len(<<User(size)>>) = 1
           /\ <<User(size)>>[Len(<<User(size)>>)].role = "user"
           /\ \A i \in DOMAIN <<User(size)>> : <<User(size)>>[i].calls = <<>>
<1>1. User(size) \in Messages /\ ~Unsafe(User(size)) /\ User(size).role = "user"
      /\ User(size).calls = <<>>
    BY HistoryAssumption, OwnMessages
<1> DEFINE m == User(size)
           b == <<m>>
<1> HIDE DEF m
<1>2. b \in Seq(Messages) /\ Len(b) = 1 /\ b[1] = m /\ b # <<>> /\ Normal(b)
    BY <1>1, OneMessage DEF m
<1>3. DOMAIN b = {1}
    OBVIOUS
<1> HIDE DEF b
<1>4. b[Len(b)].role = "user" /\ \A i \in DOMAIN b : b[i].calls = <<>>
    BY <1>1, <1>2, <1>3 DEF m
<1> QED BY <1>2, <1>4 DEF b, m

LEMMA Normalises ==
    ASSUME NEW purpose, NEW messages \in Seq(Messages), Normalise(purpose, messages)
    PROVE  pc' = "units" /\ doing' = purpose /\ input' = messages /\ NoLocals'
           /\ input' \in Seq(Messages)
    BY DEF Normalise, NoLocals

LEMMA Receives == IndInv /\ Receive => IndInv'
<1> SUFFICES ASSUME IndInv, Receive PROVE IndInv'
    OBVIOUS
<1>1. PICK size \in Sizes : Fixed + size <= Usable /\ left' = Usable - Fixed - size
                            /\ request' = <<User(size)>>
    BY DEF Receive
<1>2. Normalise("assemble", SubSeq(rows, boundary + 1, Len(rows))) /\ turn' = 0
      /\ rows' = rows /\ boundary' = boundary /\ snapshot' = snapshot
    BY DEF Receive, session
<1>3. SubSeq(rows, boundary + 1, Len(rows)) \in Seq(Messages)
    BY Typed, Tail1
<1>4. pc' = "units" /\ doing' = "assemble" /\ NoLocals' /\ input' \in Seq(Messages)
    BY <1>2, <1>3, Normalises
<1>5. left' \in Nat
    <2>1. size \in Nat /\ Fixed \in Nat /\ Usable \in Int
        BY HistoryAssumption DEF Usable
    <2> QED BY <1>1, <2>1
<1>6. /\ request' \in Seq(Messages) /\ request' # <<>> /\ Normal(request')
      /\ request'[Len(request')].role = "user"
      /\ \A i \in DOMAIN request' : request'[i].calls = <<>>
    BY <1>1, Prompt
<1>7. SessionOK'
    BY <1>2, <1>5, <1>6, Typed DEF SessionOK
<1>8. Startable'
    BY <1>2, <1>4, <1>6 DEF Startable, Target
<1> QED BY <1>4, <1>7, <1>8, StartingNext DEF AtStart

LEMMA RunsJob == IndInv /\ RunJob => IndInv'
<1> SUFFICES ASSUME IndInv, RunJob PROVE IndInv'
    OBVIOUS
<1>1. PICK size \in Sizes : request' = <<User(size)>>
    BY DEF RunJob
<1>2. Normalise("snapshotted", snapshot) /\ turn' = 0
      /\ rows' = rows /\ boundary' = boundary /\ snapshot' = snapshot /\ left' = left
    BY DEF RunJob, session
<1>4. pc' = "units" /\ doing' = "snapshotted" /\ NoLocals' /\ input' \in Seq(Messages)
      /\ input' = snapshot
    BY <1>2, Typed, Normalises
<1>6. /\ request' \in Seq(Messages) /\ request' # <<>> /\ Normal(request')
      /\ request'[Len(request')].role = "user"
      /\ \A i \in DOMAIN request' : request'[i].calls = <<>>
    BY <1>1, Prompt
<1>7. SessionOK'
    BY <1>2, <1>6, Typed DEF SessionOK
<1>8. Base' = input' /\ Len(input') \in Nat
    BY <1>2, <1>4, LenProperties DEF Base
<1>9. Startable'
    BY <1>2, <1>4, <1>6, <1>8 DEF Startable
<1> QED BY <1>4, <1>7, <1>9, StartingNext DEF AtStart

LEMMA Schedules == IndInv /\ ModelSchedules => IndInv'
<1> SUFFICES ASSUME IndInv, ModelSchedules PROVE IndInv'
    OBVIOUS
<1>1. /\ pc = "model" /\ snapshot' = <<>> /\ Normalise("snapshot", rows)
      /\ rows' = rows /\ boundary' = boundary
      /\ left' = left /\ request' = request /\ turn' = turn
    BY DEF ModelSchedules, turnVars
<1>2. pc' = "units" /\ doing' = "snapshot" /\ NoLocals' /\ input' \in Seq(Messages)
    BY <1>1, Typed, Normalises
<1>3. request # <<>> /\ (turn = 0 => request[Len(request)].role = "user")
    BY <1>1 DEF IndInv, Sendable
<1>4. SessionOK'
    BY <1>1, Typed, NormalEmpty, EmptySeq DEF SessionOK
<1>5. DOMAIN Target' = {}
    BY <1>1, <1>2 DEF Target
<1>6. Startable'
    BY <1>1, <1>2, <1>3, <1>5 DEF Startable
<1> QED BY <1>2, <1>4, <1>6, StartingNext DEF AtStart

LEMMA Compacts == IndInv /\ Compact => IndInv'
<1> SUFFICES ASSUME IndInv, Compact PROVE IndInv'
    OBVIOUS
<1>1. /\ pc = "idle" /\ Normalise("compact", SubSeq(rows, boundary + 1, Len(rows)))
      /\ rows' = rows /\ boundary' = boundary /\ snapshot' = snapshot
      /\ left' = left /\ request' = request /\ turn' = turn
    BY DEF Compact, session, turnVars
<1>2. SubSeq(rows, boundary + 1, Len(rows)) \in Seq(Messages)
      /\ Len(SubSeq(rows, boundary + 1, Len(rows))) = Len(rows) - boundary
    BY Typed, Tail1
<1>3. pc' = "units" /\ doing' = "compact" /\ NoLocals' /\ input' \in Seq(Messages)
      /\ Len(input') = Len(rows) - boundary
    BY <1>1, <1>2, Normalises
<1>4. request = <<>>
    BY <1>1 DEF IndInv, Sendable
<1>5. SessionOK'
    BY <1>1, Typed DEF SessionOK
<1>6. Startable'
    BY <1>1, <1>3, <1>4 DEF Startable
<1> QED BY <1>3, <1>5, <1>6, StartingNext DEF AtStart

\* What run_agent appends after tools.
LEMMA Exchanges ==
    ASSUME NEW batch \in Batches
    PROVE  LET e == Exchange([k \in DOMAIN batch |-> Given(batch[k])])
           IN  e \in Seq(Messages) /\ Len(e) = 2 /\ e[1].role = "assistant"
<1> DEFINE ids == [k \in DOMAIN batch |-> Given(batch[k])]
<1>1. batch \in Seq(Names)
    BY HistoryAssumption
<1>2. Len(batch) \in Nat /\ DOMAIN batch = 1..Len(batch) /\ \A k \in 1..Len(batch) : batch[k] \in Names
    BY <1>1, ElementOfSeq, LenProperties
<1>3. \A name \in Names : Given(name) \in Ids
    BY DEF Given, Ids
<1>4. ids \in Seq(Ids)
    <2>1. \A k \in 1..Len(batch) : Given(batch[k]) \in Ids
        BY <1>2, <1>3
    <2>2. ids = [k \in 1..Len(batch) |-> Given(batch[k])]
        BY <1>2
    <2> QED BY <1>2, <2>1, <2>2, IsASeq
<1> HIDE DEF ids
<1>5. <<>> \in Seq(Ids)
    BY EmptySeq
<1> DEFINE a == [role |-> "assistant", calls |-> ids, outputs |-> <<>>, other |-> FALSE, size |-> 1]
           t == [role |-> "tool", calls |-> <<>>, outputs |-> ids, other |-> FALSE, size |-> 1]
<1>6. a \in Messages /\ t \in Messages /\ a.role = "assistant"
    BY <1>4, <1>5 DEF Messages, Roles
<1>7. Exchange(ids) = <<a, t>>
    BY DEF Exchange
<1> HIDE DEF a, t
<1>8. <<a, t>> \in Seq(Messages) /\ Len(<<a, t>>) = 2 /\ <<a, t>>[1] = a
    BY <1>6
<1> QED BY <1>6, <1>7, <1>8 DEF ids

LEMMA CallsTools ==
    ASSUME IndInv, CallTools, pc \in {"model", "choose"}, doing # "compact"
    PROVE  IndInv'
<1>1. PICK batch \in Batches :
        Normalise("tools", request \o Exchange([k \in DOMAIN batch |-> Given(batch[k])]))
    BY DEF CallTools
<1>2. /\ rows' = rows /\ boundary' = boundary /\ snapshot' = snapshot
      /\ left' = left /\ request' = request /\ turn' = turn
    BY DEF CallTools, session, turnVars
<1> DEFINE e == Exchange([k \in DOMAIN batch |-> Given(batch[k])])
<1>3. e \in Seq(Messages) /\ Len(e) = 2 /\ e[1].role = "assistant"
    BY Exchanges
<1> HIDE DEF e
<1>4. /\ request \o e \in Seq(Messages) /\ Len(request \o e) = Len(request) + 2
      /\ \A i \in 1..Len(request) : (request \o e)[i] = request[i]
      /\ (request \o e)[Len(request) + 1] = e[1]
    <2>1. Len(request) \in Nat
        BY Typed
    <2>2. /\ request \o e \in Seq(Messages) /\ Len(request \o e) = Len(request) + 2
          /\ \A i \in 1..Len(request) : (request \o e)[i] = request[i]
          /\ \A i \in Len(request) + 1..Len(request) + 2 : (request \o e)[i] = e[i - Len(request)]
        <3>1. request \in Seq(Messages)
            BY Typed
        <3>2. /\ request \o e \in Seq(Messages) /\ Len(request \o e) = Len(request) + Len(e)
              /\ \A i \in 1..Len(request) : (request \o e)[i] = request[i]
              /\ \A i \in Len(request) + 1..Len(request) + Len(e) :
                   (request \o e)[i] = e[i - Len(request)]
            BY <1>3, <3>1, ConcatAt
        <3> QED BY <1>3, <3>2
    <2>3. Len(request) + 1 \in Len(request) + 1..Len(request) + 2
          /\ Len(request) + 1 - Len(request) = 1
        BY <2>1
    <2> QED BY <2>2, <2>3
<1>5. pc' = "units" /\ doing' = "tools" /\ NoLocals' /\ input' \in Seq(Messages)
      /\ input' = request \o e
    BY <1>1, <1>4, Normalises DEF e
<1>6. request # <<>> /\ (turn = 0 => request[Len(request)].role = "user")
    BY DEF IndInv, Sendable
<1>7. SessionOK'
    BY <1>2, Typed DEF SessionOK
<1>8. Base' = request
    BY <1>2, <1>5 DEF Base
<1>9. Startable'
    BY <1>2, <1>3, <1>4, <1>5, <1>6, <1>8 DEF Startable
<1> QED BY <1>5, <1>7, <1>9, StartingNext DEF AtStart
LEMMA Assembles == IndInv /\ Assembled => IndInv'
<1> SUFFICES ASSUME IndInv, Assembled PROVE IndInv'
    OBVIOUS
<1>1. /\ pc = "choose" /\ doing = "assemble"
      /\ rows' = Append(rows, request[Len(request)]) /\ Normalise("chat", request)
      /\ boundary' = boundary /\ snapshot' = snapshot
      /\ left' = left /\ request' = request /\ turn' = turn
    BY DEF Assembled, turnVars
<1>2. request # <<>> /\ (turn = 0 => request[Len(request)].role = "user")
    BY <1>1 DEF IndInv, Sendable
<1>3. request[Len(request)] \in Messages
    <2>1. Len(request) \in 1..Len(request)
        BY <1>2, Typed, EmptySeq
    <2> QED BY <2>1, Typed
<1>4. pc' = "units" /\ doing' = "chat" /\ NoLocals' /\ input' \in Seq(Messages)
      /\ input' = request
    BY <1>1, Typed, Normalises
<1>5. SessionOK'
    BY <1>1, <1>3, Typed, OneMoreRow DEF SessionOK
<1>6. Base' = request /\ Len(request) \in Nat
    BY <1>1, <1>4, Typed DEF Base
<1>7. Startable'
    BY <1>1, <1>2, <1>4, <1>6 DEF Startable
<1> QED BY <1>4, <1>5, <1>7, StartingNext DEF AtStart

LEMMA CallsToolsNow == IndInv /\ (ModelCallsTools \/ SnapshotTaken) => IndInv'
<1>1. ASSUME IndInv, ModelCallsTools PROVE IndInv'
    <2>1. pc = "model" /\ CallTools
        BY <1>1 DEF ModelCallsTools
    <2>2. doing # "compact"
        BY <1>1, <2>1 DEF IndInv, Sendable
    <2> QED BY <1>1, <2>1, <2>2, CallsTools
<1>2. ASSUME IndInv, SnapshotTaken PROVE IndInv'
    <2>1. pc = "choose" /\ doing = "snapshot" /\ CallTools
        BY <1>2 DEF SnapshotTaken
    <2> QED BY <1>2, <2>1, CallsTools
<1> QED BY <1>1, <1>2

\* At the end of a scan everything sent before came out unchanged.
LEMMA TakenAll ==
    ASSUME IndInv, AllTaken, Replays
    PROVE  /\ \A i \in 1..Len(Base) : out[i] = Base[i]
           /\ Len(out) = Len(Base) + IF doing = "tools" THEN 2 ELSE 0
           /\ doing # "tools" => out = Base
<1>1. pc = "units" /\ Len(out) = Len(input)
    BY DEF AllTaken
<1>2. /\ Len(out) = Len(Base) + IF doing = "tools" THEN 2 ELSE 0
      /\ \A i \in 1..Len(Base) : i <= Len(out) => out[i] = Base[i]
    BY <1>1 DEF IndInv, Replaying, Replays
<1>3. Len(Base) <= Len(out) /\ Len(Base) \in Nat /\ Len(out) \in Nat
    BY <1>1, Replayed, Scanning
<1>4. \A i \in 1..Len(Base) : out[i] = Base[i]
    <2> SUFFICES ASSUME NEW i \in 1..Len(Base) PROVE out[i] = Base[i]
        OBVIOUS
    <2>1. i <= Len(out)
        BY <1>3
    <2> QED BY <1>2, <2>1
<1>5. doing # "tools" => out = Base
    <2> SUFFICES ASSUME doing # "tools" PROVE out = Base
        OBVIOUS
    <2>1. Len(out) = Len(Base) + 0
        BY <1>2
    <2>2. Len(out) = Len(Base)
        BY <1>3, <2>1
    <2>3. out \in Seq(Messages) /\ Base \in Seq(Messages)
        BY Scanning
    <2> QED BY <1>4, <2>2, <2>3, SeqEqual
<1> QED BY <1>2, <1>4, <1>5

LEMMA AssemblesJob == IndInv /\ JobAssembled => IndInv'
<1> SUFFICES ASSUME IndInv, JobAssembled PROVE IndInv'
    OBVIOUS
<1>1. /\ AllTaken /\ doing = "snapshotted"
      /\ rows' = rows \o request /\ request' = out \o request /\ Normalise("job", out \o request)
      /\ boundary' = boundary /\ snapshot' = snapshot /\ left' = left /\ turn' = turn
    BY DEF JobAssembled
<1>2. /\ request # <<>> /\ (turn = 0 => request[Len(request)].role = "user")
      /\ pc = "units" /\ \A i \in DOMAIN request : request[i].calls = <<>>
    BY <1>1 DEF IndInv, Sendable, Choosing, AllTaken
<1>3. /\ out \in Seq(Messages) /\ Normal(out) /\ request \in Seq(Messages) /\ Normal(request)
      /\ Len(out) \in Nat /\ Len(request) \in Nat \ {0}
    BY <1>2, Scanning, Typed, EmptySeq DEF IndInv, ScanShape
<1>4. Normal(out \o request)
    <2>1. \A id : ~Uses(request, id)
        <3>1. DOMAIN <<>> = {}
            OBVIOUS
        <3> QED BY <1>2, <3>1 DEF Uses
    <2> QED BY <1>3, <2>1, NormalConcat
<1>5. /\ out \o request \in Seq(Messages) /\ out \o request # <<>>
      /\ Len(out \o request) \in Nat
      /\ (out \o request)[Len(out \o request)] = request[Len(request)]
    <2>1. /\ out \o request \in Seq(Messages) /\ Len(out \o request) = Len(out) + Len(request)
          /\ \A i \in Len(out) + 1..Len(out) + Len(request) :
               (out \o request)[i] = request[i - Len(out)]
        BY <1>3, ConcatAt
    <2>2. /\ Len(out) + Len(request) \in Len(out) + 1..Len(out) + Len(request)
          /\ Len(out) + Len(request) - Len(out) = Len(request)
          /\ Len(out) + Len(request) \in Nat \ {0}
        BY <1>3
    <2>3. (out \o request)[Len(out) + Len(request)] = request[Len(out) + Len(request) - Len(out)]
        BY <2>1, <2>2
    <2> QED BY <2>1, <2>2, <2>3, EmptySeq
<1>6. pc' = "units" /\ doing' = "job" /\ NoLocals' /\ input' \in Seq(Messages)
      /\ input' = request'
    BY <1>1, <1>5, Normalises
<1>7. SessionOK'
    BY <1>1, <1>3, <1>4, <1>5, Typed, MoreRows DEF SessionOK
<1>8. Base' = request'
    BY <1>6 DEF Base
<1>9. Startable'
    BY <1>1, <1>2, <1>5, <1>6, <1>8 DEF Startable
<1> QED BY <1>6, <1>7, <1>9, StartingNext DEF AtStart

-----------------------------------------------------------------------------
(* Where they end *)

LEMMA Leaves ==
    ASSUME NEW next, Leave(next)
    PROVE  pc' = next /\ doing' = doing /\ NoLocals' /\ input' = <<>>
    BY DEF Leave, NoLocals

LEMMA Sends == IndInv /\ Send => IndInv'
<1> SUFFICES ASSUME IndInv, Send PROVE IndInv'
    OBVIOUS
<1>1. /\ AllTaken /\ doing \in {"chat", "job"} /\ request' = out /\ Leave("model")
      /\ rows' = rows /\ boundary' = boundary /\ snapshot' = snapshot
      /\ left' = left /\ turn' = turn
    BY DEF Send, session
<1>2. pc' = "model" /\ doing' = doing /\ NoLocals' /\ input' = <<>>
    BY <1>1, Leaves
<1>3. out = request
    BY <1>1, TakenAll DEF Replays, Base
<1>4. request # <<>> /\ (turn = 0 => request[Len(request)].role = "user")
    BY <1>1 DEF IndInv, Sendable, AllTaken
<1>5. SessionOK'
    BY <1>1, <1>3, Typed DEF SessionOK
<1> QED BY <1>1, <1>2, <1>3, <1>4, <1>5, LeavingNext DEF AtEnd

LEMMA EndsTurn == IndInv /\ ModelEnds => IndInv'
<1> SUFFICES ASSUME IndInv, ModelEnds PROVE IndInv'
    OBVIOUS
<1>1. /\ pc = "model" /\ request' = <<>> /\ Leave("idle")
      /\ rows' = rows \/ rows' = Append(rows, Reply)
      /\ boundary' = boundary /\ snapshot' = snapshot /\ left' = left /\ turn' = turn
    BY DEF ModelEnds
<1>2. pc' = "idle" /\ doing' = doing /\ NoLocals' /\ input' = <<>>
    BY <1>1, Leaves
<1>3. doing \in {"chat", "job", "tools"}
    BY <1>1 DEF IndInv, Sendable
<1>4. rows' \in Seq(Messages) /\ boundary' \in 0..Len(rows')
    BY <1>1, Typed, OneMoreRow, OwnMessages
<1>5. SessionOK'
    BY <1>1, <1>4, Typed, NormalEmpty, EmptySeq DEF SessionOK
<1> QED BY <1>1, <1>2, <1>3, <1>5, LeavingNext DEF AtEnd

LEMMA EndsExchange == IndInv /\ Exchanged => IndInv'
<1> SUFFICES ASSUME IndInv, Exchanged PROVE IndInv'
    OBVIOUS
<1> DEFINE exchange == <<out[Len(out) - 1], out[Len(out)]>>
<1>1. /\ AllTaken /\ doing = "tools" /\ turn' = turn + 1
      /\ rows' = rows \o exchange \/ rows' = rows \o Append(exchange, Reply)
      /\ \/ request' = out /\ Leave("model")
         \/ request' = <<>> /\ Leave("idle")
      /\ boundary' = boundary /\ snapshot' = snapshot /\ left' = left
    BY DEF Exchanged
<1>2. pc' \in {"idle", "model"} /\ doing' = doing /\ NoLocals' /\ input' = <<>>
      /\ (pc' = "idle" => request' = <<>>) /\ (pc' = "model" => request' = out)
    BY <1>1, Leaves
<1>3. out \in Seq(Messages) /\ Normal(out) /\ Len(out) \in Nat
    BY Scanning DEF IndInv, ScanShape
<1>4. Len(out) >= 2
    <2>1. Len(out) = Len(Base) + 2
        BY <1>1, TakenAll DEF Replays
    <2> QED BY <2>1, Scanning
<1>5. exchange \in Seq(Messages) /\ Append(exchange, Reply) \in Seq(Messages)
    <2>1. Len(out) - 1 \in 1..Len(out) /\ Len(out) \in 1..Len(out)
        BY <1>3, <1>4
    <2>2. out[Len(out) - 1] \in Messages /\ out[Len(out)] \in Messages
        BY <1>3, <2>1, ElementOfSeq
    <2>3. exchange \in Seq(Messages)
        BY <2>2
    <2> HIDE DEF exchange
    <2> QED BY <2>3, OwnMessages, AppendProperties
<1>6. rows' \in Seq(Messages) /\ boundary' \in 0..Len(rows')
    <2> HIDE DEF exchange
    <2> QED BY <1>1, <1>5, MoreRows
<1>7. request' \in Seq(Messages) /\ Normal(request')
    BY <1>2, <1>3, NormalEmpty, EmptySeq
<1>8. turn' \in Nat /\ turn' # 0
    BY <1>1, Typed
<1>9. SessionOK'
    BY <1>1, <1>6, <1>7, <1>8, Typed DEF SessionOK
<1>10. out # <<>>
    BY <1>3, <1>4, EmptySeq
<1> QED BY <1>1, <1>2, <1>8, <1>9, <1>10, LeavingNext DEF AtEnd

LEMMA EndsCompaction == IndInv /\ Compacted => IndInv'
<1> SUFFICES ASSUME IndInv, Compacted PROVE IndInv'
    OBVIOUS
<1>1. /\ AllTaken /\ doing = "compact" /\ Leave("idle")
      /\ rows' = rows /\ snapshot' = snapshot
      /\ left' = left /\ request' = request /\ turn' = turn
    BY DEF Compacted, turnVars
<1>2. PICK cut \in {0} \cup {units[u][2] : u \in DOMAIN units} : boundary' = boundary + cut
    BY DEF Compacted
<1>3. pc' = "idle" /\ doing' = doing /\ NoLocals' /\ input' = <<>>
    BY <1>1, Leaves
<1>4. Len(out) = Len(rows) - boundary /\ request = <<>>
    BY <1>1 DEF IndInv, Compacting, AllTaken, Sendable
<1>5. cut \in 0..Len(out)
    <2>1. \A u \in DOMAIN units : units[u][2] \in 0..Len(out)
        <3> SUFFICES ASSUME NEW u \in DOMAIN units PROVE units[u][2] \in 0..Len(out)
            OBVIOUS
        <3>1. units \in Seq(Nat \X Nat)
            BY DEF IndInv, TypeOK
        <3>2. u \in 1..Len(units)
            BY <3>1, LenProperties
        <3>3. units[u] \in Nat \X Nat
            BY <3>1, <3>2, ElementOfSeq
        <3>4. units[u][2] \in Nat
            BY <3>3
        <3>5. units[u][2] <= Len(out)
            BY DEF IndInv, UnitsShape
        <3> QED BY <3>4, <3>5, Scanning
    <2>2. Len(out) \in Nat
        BY Scanning
    <2> QED BY <1>2, <2>1, <2>2
<1>6. boundary' \in 0..Len(rows')
    BY <1>1, <1>2, <1>4, <1>5, Typed
<1>7. SessionOK'
    BY <1>1, <1>6, Typed DEF SessionOK
<1> QED BY <1>1, <1>3, <1>4, <1>7, LeavingNext DEF AtEnd

LEMMA Refuses == IndInv /\ Refuse => IndInv'
<1> SUFFICES ASSUME IndInv, Refuse PROVE IndInv'
    OBVIOUS
<1>1. PICK size \in Sizes : rows' = rows \o <<User(size), Reply>>
    BY DEF Refuse
<1>2. /\ pc = "idle" /\ pc' = pc /\ boundary' = boundary /\ snapshot' = snapshot /\ doing' = doing
      /\ input' = input /\ out' = out /\ units' = units /\ seen' = seen
      /\ stop' = stop /\ names' = names
      /\ left' = left /\ request' = request /\ turn' = turn
    BY DEF Refuse, scan, turnVars
<1>3. rows' \in Seq(Messages) /\ boundary' \in 0..Len(rows')
    <2>1. User(size) \in Messages /\ Reply \in Messages
        BY HistoryAssumption, OwnMessages
    <2>2. <<User(size), Reply>> \in Seq(Messages)
        BY <2>1
    <2> QED BY <1>1, <1>2, <2>2, MoreRows
<1>4. TypeOK'
    BY <1>2, <1>3 DEF IndInv, TypeOK
<1>5. UnitsShape' /\ ScanShape' /\ Naming' /\ Choosing' /\ Replaying' /\ Closed'
    BY <1>2 DEF IndInv, UnitsShape, Considered, ScanShape, Uses, Naming, Choosing, Replaying,
                Closed, first
<1>6. Sendable' /\ Compacting'
    BY <1>2 DEF IndInv, Sendable, Compacting
<1> QED BY <1>4, <1>5, <1>6 DEF IndInv
-----------------------------------------------------------------------------
(* Choosing units, the newest first *)

LEMMA Chooses == IndInv /\ Choose => IndInv'
<1> SUFFICES ASSUME IndInv, Choose PROVE IndInv'
    OBVIOUS
<1>1. /\ pc = "units" /\ doing \in {"assemble", "snapshot"} /\ pc' = "choose" /\ doing' = doing
      /\ rows' = rows /\ boundary' = boundary /\ snapshot' = snapshot
      /\ input' = input /\ out' = out /\ units' = units /\ seen' = seen
      /\ stop' = stop /\ names' = names
      /\ left' = left /\ request' = request /\ turn' = turn
    BY DEF Choose, AllTaken, session, scan, turnVars
<1>2. TypeOK'
    BY <1>1 DEF IndInv, TypeOK
<1>3. UnitsShape'
    BY <1>1 DEF IndInv, UnitsShape, Considered
<1>4. ScanShape'
    BY <1>1 DEF IndInv, ScanShape, Uses
<1>5. Choosing'
    <2>1. Target' = Target
        BY <1>1 DEF Target
    <2>2. \A id : ~Uses(Target, id)
        <3>1. \A i \in DOMAIN Target : Target[i].calls = <<>>
            BY <1>1 DEF IndInv, Choosing
        <3>2. DOMAIN <<>> = {}
            OBVIOUS
        <3> QED BY <3>1, <3>2 DEF Uses
    <2>3. \A id : ~Uses(Target', id)
        BY <2>1, <2>2 DEF Uses
    <2> QED BY <1>1, <2>3 DEF Choosing
<1>6. Naming' /\ Replaying' /\ Closed' /\ Sendable' /\ Compacting'
    BY <1>1 DEF IndInv, Naming, Replaying, Closed, first, Sendable, Compacting
<1> QED BY <1>2, <1>3, <1>4, <1>5, <1>6 DEF IndInv

\* The newest unit that is left: rows From to Considered.
From == units[Len(units)][1]

LEMMA LastUnit ==
    ASSUME IndInv, pc = "choose", units # <<>>
    PROVE  /\ Len(out) \in Nat /\ DOMAIN out = 1..Len(out) /\ out \in Seq(Messages) /\ Normal(out)
           /\ From \in 1..Len(out) /\ Considered \in From..Len(out)
           /\ Chosen = SubSeq(out, From, Considered)
           /\ out[From].role # "tool"
           /\ Considered < Len(out) => out[Considered + 1].role # "tool"
<1>1. units \in Seq(Nat \X Nat) /\ out \in Seq(Messages) /\ Normal(out) /\ Len(out) \in Nat
      /\ DOMAIN out = 1..Len(out)
    BY Scanning, LenProperties DEF IndInv, TypeOK, ScanShape
<1>2. Len(units) \in DOMAIN units
    <2>1. Len(units) \in Nat \ {0} /\ DOMAIN units = 1..Len(units)
        BY <1>1, EmptySeq, LenProperties
    <2> QED BY <2>1
<1>3. units[Len(units)] \in Nat \X Nat
    BY <1>1, <1>2, ElementOfSeq, LenProperties
<1>4. From \in Nat /\ Considered \in Nat
    BY <1>3 DEF From, Considered
<1>5. From \in 1..Considered /\ Considered <= Len(out) /\ out[From].role # "tool"
    BY <1>2 DEF IndInv, UnitsShape, From, Considered
<1>6. From \in 1..Len(out) /\ Considered \in From..Len(out)
    BY <1>1, <1>4, <1>5
<1>7. Chosen = SubSeq(out, From, Considered)
    BY DEF Chosen, From, Considered
<1>8. Considered < Len(out) => out[Considered + 1].role # "tool"
    BY DEF IndInv, UnitsShape
<1> QED BY <1>1, <1>5, <1>6, <1>7, <1>8

\* It keeps the protocol, and shares no id with what was chosen before or
\* with the units that are still left.
LEMMA ChosenUnit ==
    ASSUME IndInv, pc = "choose", units # <<>>
    PROVE  /\ Chosen \in Seq(Messages) /\ Normal(Chosen)
           /\ \A i \in DOMAIN Chosen : \A k \in DOMAIN Chosen[i].calls :
                ~Uses(Target, Chosen[i].calls[k])
           /\ \A i \in 1..From - 1 : \A k \in DOMAIN out[i].calls :
                ~Uses(Target, out[i].calls[k]) /\ ~Uses(Chosen, out[i].calls[k])
<1>1. /\ Len(out) \in Nat /\ DOMAIN out = 1..Len(out) /\ out \in Seq(Messages) /\ Normal(out)
      /\ From \in 1..Len(out) /\ Considered \in From..Len(out)
      /\ Chosen = SubSeq(out, From, Considered)
      /\ out[From].role # "tool"
      /\ Considered < Len(out) => out[Considered + 1].role # "tool"
    BY LastUnit
<1>z. Considered \in Nat /\ From \in Nat /\ From >= 1 /\ Considered >= From
      /\ Considered <= Len(out)
    BY <1>1
<1>2. /\ Chosen \in Seq(Messages) /\ DOMAIN Chosen = 1..Considered + 1 - From
      /\ \A i \in 1..Considered + 1 - From : Chosen[i] = out[From + i - 1]
    BY <1>1, SliceAt
<1>3. Normal(Chosen)
    BY <1>1, NormalSlice
<1>4. \A i \in 1..Considered : \A k \in DOMAIN out[i].calls : ~Uses(Target, out[i].calls[k])
    BY DEF IndInv, Choosing
<1>5. ASSUME NEW i \in DOMAIN Chosen, NEW k \in DOMAIN Chosen[i].calls
      PROVE  ~Uses(Target, Chosen[i].calls[k])
    <2>1. i \in 1..Considered + 1 - From
        BY <1>2
    <2>2. From + i - 1 \in 1..Considered
        BY <1>z, <2>1
    <2> QED BY <1>2, <1>4, <2>1, <2>2
<1>6. ASSUME NEW i \in 1..From - 1, NEW k \in DOMAIN out[i].calls
      PROVE  ~Uses(Target, out[i].calls[k]) /\ ~Uses(Chosen, out[i].calls[k])
    <2>1. i \in 1..Considered /\ i \in DOMAIN out
        BY <1>1, <1>z
    <2>2. ASSUME NEW j \in DOMAIN Chosen, NEW l \in DOMAIN Chosen[j].calls,
                 Chosen[j].calls[l] = out[i].calls[k]
          PROVE  FALSE
        <3>1. j \in 1..Considered + 1 - From
            BY <1>2
        <3>2. From + j - 1 \in 1..Len(out) /\ From + j - 1 # i
            BY <1>z, <3>1
        <3>3. Chosen[j] = out[From + j - 1]
            BY <1>2, <3>1
        <3> DEFINE p == From + j - 1
        <3>4. p \in DOMAIN out /\ p # i /\ l \in DOMAIN out[p].calls
              /\ out[p].calls[l] = out[i].calls[k]
            BY <1>1, <2>2, <3>2, <3>3
        <3> HIDE DEF p
        <3> QED BY <1>1, <2>1, <3>4 DEF Normal
    <2> QED BY <1>4, <2>1, <2>2 DEF Uses
<1> QED BY <1>2, <1>3, <1>5, <1>6

\* Without it the units are adjacent intervals as before.
LEMMA FewerUnits ==
    ASSUME IndInv, pc = "choose", units # <<>>, NextUnit
    PROVE  /\ units' \in Seq(Nat \X Nat) /\ Considered' = From - 1
           /\ UnitsShape' /\ ScanShape' /\ Closed'
<1> DEFINE n == Len(units)
<1>1. /\ units' = SubSeq(units, 1, n - 1) /\ out' = out /\ pc' = pc /\ input' = input
      /\ seen' = seen /\ names' = names
    BY DEF NextUnit
<1>2. /\ Len(out) \in Nat /\ From \in 1..Len(out) /\ Considered \in From..Len(out)
      /\ out[From].role # "tool"
    BY LastUnit
<1>3. units \in Seq(Nat \X Nat) /\ n \in Nat \ {0} /\ DOMAIN units = 1..n
    <2>1. units \in Seq(Nat \X Nat)
        BY DEF IndInv, TypeOK
    <2> QED BY <2>1, EmptySeq, LenProperties
<1>4. /\ units' \in Seq(Nat \X Nat) /\ Len(units') = n - 1 /\ DOMAIN units' = 1..n - 1
      /\ \A u \in 1..n - 1 : units'[u] = units[u]
    <2>1. CASE n = 1
        <3>1. units' = <<>>
            BY <1>1, <2>1, SubSeqEmpty
        <3>2. DOMAIN <<>> = {} /\ Len(<<>>) = 0 /\ 1..0 = {}
            OBVIOUS
        <3> QED BY <2>1, <3>1, <3>2, EmptySeq
    <2>2. CASE n # 1
        <3>1. 1 \in 1..n /\ n - 1 \in 1..n /\ (n - 1) + 1 - 1 = n - 1
            BY <1>3, <2>2
        <3>2. /\ units' \in Seq(Nat \X Nat) /\ Len(units') = (n - 1) + 1 - 1
              /\ DOMAIN units' = 1..(n - 1) + 1 - 1
              /\ \A u \in 1..(n - 1) + 1 - 1 : units'[u] = units[1 + u - 1]
            <4> DEFINE S == Nat \X Nat
            <4>1. units \in Seq(S)
                BY <1>3
            <4> HIDE DEF S
            <4>2. n - 1 \in 1..n
                BY <3>1
            <4>3. /\ SubSeq(units, 1, n - 1) \in Seq(S) /\ Len(SubSeq(units, 1, n - 1)) = (n - 1) + 1 - 1
                  /\ DOMAIN SubSeq(units, 1, n - 1) = 1..(n - 1) + 1 - 1
                  /\ \A u \in 1..(n - 1) + 1 - 1 : SubSeq(units, 1, n - 1)[u] = units[1 + u - 1]
                BY <3>1, <4>1, <4>2, SliceAt
            <4> QED BY <1>1, <4>3 DEF S
        <3>3. \A u \in 1..n - 1 : 1 + u - 1 = u
            BY <1>3
        <3> QED BY <3>1, <3>2, <3>3
    <2> QED BY <2>1, <2>2
<1>l. n \in Nat \ {0} /\ Len(units') = n - 1 /\ DOMAIN units' = 1..n - 1
    BY <1>3, <1>4
<1>u. \A u \in 1..n - 1 : units'[u] = units[u]
    BY <1>4
<1>5. /\ \A u \in 1..n :
           /\ units[u][1] \in 1..units[u][2] /\ units[u][2] <= Len(out)
           /\ out[units[u][1]].role # "tool"
           /\ IF u = 1 THEN units[u][1] = 1 ELSE units[u][1] = units[u - 1][2] + 1
    BY <1>3 DEF IndInv, UnitsShape
<1>6. Considered' = From - 1
    <2>1. CASE n = 1
        <3>1. units' = <<>>
            <4>1. Len(units') = 0
                BY <1>l, <2>1
            <4> QED BY <1>4, <4>1, EmptySeq
        <3>2. From = 1
            <4>1. 1 \in 1..n
                BY <2>1
            <4>2. units[1][1] = 1
                BY <1>5, <4>1
            <4> QED BY <2>1, <4>2 DEF From
        <3> QED BY <3>1, <3>2 DEF Considered
    <2>2. CASE n # 1
        <3>1. n - 1 \in 1..n - 1 /\ n \in 1..n
            BY <1>l, <2>2
        <3>2. units' # <<>>
            <4>1. Len(units') # 0
                BY <1>l, <2>2
            <4> QED BY <4>1, EmptySeq
        <3>3. Considered' = units'[n - 1][2]
            BY <1>l, <3>2 DEF Considered
        <3>4. units'[n - 1] = units[n - 1]
            BY <1>u, <3>1
        <3>5. From = units[n - 1][2] + 1
            BY <1>5, <2>2, <3>1 DEF From
        <3>6. units[n - 1][2] \in Nat
            <4>1. n - 1 \in 1..n
                BY <3>1, <1>l
            <4>2. units[n - 1] \in Nat \X Nat
                BY <1>3, <4>1, ElementOfSeq
            <4> QED BY <4>2
        <3> QED BY <3>3, <3>4, <3>5, <3>6
    <2> QED BY <2>1, <2>2
<1>7. UnitsShape'
    <2>1. ASSUME NEW u \in 1..n - 1
          PROVE  /\ units'[u][1] \in 1..units'[u][2] /\ units'[u][2] <= Len(out)
                 /\ out[units'[u][1]].role # "tool"
                 /\ IF u = 1 THEN units'[u][1] = 1 ELSE units'[u][1] = units'[u - 1][2] + 1
        <3>1. u \in 1..n /\ units'[u] = units[u]
            BY <1>l, <1>u
        <3>2. u # 1 => units'[u - 1] = units[u - 1]
            <4>1. u # 1 => u - 1 \in 1..n - 1
                BY <1>l
            <4> QED BY <1>u, <4>1
        <3>3. /\ units[u][1] \in 1..units[u][2] /\ units[u][2] <= Len(out)
              /\ out[units[u][1]].role # "tool"
              /\ IF u = 1 THEN units[u][1] = 1 ELSE units[u][1] = units[u - 1][2] + 1
            BY <1>5, <3>1
        <3> QED BY <3>1, <3>2, <3>3
    <2>2. Considered' <= Len(out) /\ Considered' + 1 = From
        BY <1>2, <1>6
    <2>3. Considered' < Len(out) => out[Considered' + 1].role # "tool"
        BY <1>2, <2>2
    <2>4. pc' \notin {"units", "name"}
        BY <1>1
    <2> HIDE DEF n
    <2> QED BY <1>1, <1>l, <2>1, <2>2, <2>3, <2>4 DEF UnitsShape
<1>8. ScanShape'
    BY <1>1 DEF IndInv, ScanShape, Uses
<1>9. Closed'
    BY <1>1 DEF IndInv, Closed, first
<1> QED BY <1>4, <1>6, <1>7, <1>8, <1>9

\* Whether the unit is chosen or not, the rest stays sound.
LEMMA Considering ==
    ASSUME IndInv, pc = "choose", units # <<>>, NextUnit, SessionOK',
           Target' = Target \/ Target' = Chosen \o Target,
           request' # <<>>, turn = 0 => request'[Len(request')].role = "user"
    PROVE  IndInv'
<1>1. /\ rows' = rows /\ boundary' = boundary /\ pc' = "choose" /\ doing' = doing
      /\ input' = input /\ out' = out /\ seen' = seen /\ stop' = stop /\ names' = names
      /\ turn' = turn
    BY DEF NextUnit
<1>2. doing \in {"assemble", "snapshot"}
    BY DEF IndInv, Choosing
<1>3. /\ units' \in Seq(Nat \X Nat) /\ Considered' = From - 1
      /\ UnitsShape' /\ ScanShape' /\ Closed'
    BY FewerUnits
<1>4. TypeOK'
    BY <1>1, <1>3 DEF IndInv, TypeOK, SessionOK
<1>5. Choosing'
    <2>0. Target \in Seq(Messages) /\ Chosen \in Seq(Messages)
        BY Typed, ChosenUnit DEF Target
    <2>1. ASSUME NEW i \in 1..From - 1, NEW k \in DOMAIN out[i].calls
          PROVE  ~Uses(Target', out[i].calls[k])
        <3>1. ~Uses(Target, out[i].calls[k]) /\ ~Uses(Chosen, out[i].calls[k])
            BY ChosenUnit
        <3>2. ~Uses(Chosen \o Target, out[i].calls[k])
            BY <2>0, <3>1, UsesConcat
        <3>3. CASE Target' = Target
            BY <3>1, <3>3
        <3>4. CASE Target' = Chosen \o Target
            BY <3>2, <3>4
        <3> QED BY <3>3, <3>4
    <2> QED BY <1>1, <1>2, <1>3, <2>1 DEF Choosing, Uses
<1>6. Naming' /\ Replaying' /\ Compacting'
    BY <1>1 DEF Naming, Replaying, Compacting
<1>7. Sendable'
    <2>1. doing = "assemble" => turn = 0
        BY DEF IndInv, Sendable
    <2> QED BY <1>1, <1>2, <2>1 DEF Sendable, SessionOK
<1> QED BY <1>3, <1>4, <1>5, <1>6, <1>7 DEF IndInv

\* What is put before a request leaves its prompt at its end.
LEMMA StillEnds ==
    ASSUME NEW a \in Seq(Messages), NEW b \in Seq(Messages), b # <<>>
    PROVE  a \o b \in Seq(Messages) /\ a \o b # <<>> /\ (a \o b)[Len(a \o b)] = b[Len(b)]
<1>1. Len(a) \in Nat /\ Len(b) \in Nat \ {0}
    BY EmptySeq, LenProperties
<1>2. /\ a \o b \in Seq(Messages) /\ Len(a \o b) = Len(a) + Len(b)
      /\ \A i \in Len(a) + 1..Len(a) + Len(b) : (a \o b)[i] = b[i - Len(a)]
    BY ConcatAt
<1>3. Len(a) + Len(b) \in Len(a) + 1..Len(a) + Len(b) /\ Len(a) + Len(b) - Len(a) = Len(b)
      /\ Len(a) + Len(b) # 0
    BY <1>1
<1>4. (a \o b)[Len(a) + Len(b)] = b[Len(a) + Len(b) - Len(a)]
    BY <1>2, <1>3
<1> QED BY <1>2, <1>3, <1>4, EmptySeq

LEMMA ConsidersUnit == IndInv /\ (KeepUnit \/ SkipUnit \/ SnapshotUnit) => IndInv'
<1>0. ASSUME IndInv, pc = "choose", units # <<>>
      PROVE  /\ Target \in Seq(Messages) /\ Chosen \o Target \in Seq(Messages)
             /\ Normal(Chosen \o Target)
    <2>1. Target \in Seq(Messages) /\ Normal(Target)
        BY <1>0, Typed DEF Target
    <2>2. Chosen \in Seq(Messages) /\ Normal(Chosen)
          /\ \A i \in DOMAIN Chosen : \A k \in DOMAIN Chosen[i].calls :
                ~Uses(Target, Chosen[i].calls[k])
        BY <1>0, ChosenUnit
    <2> QED BY <2>1, <2>2, NormalConcat, ConcatAt
<1>s. ASSUME IndInv, pc = "choose", doing \in {"assemble", "snapshot"}
      PROVE  request # <<>> /\ (turn = 0 => request[Len(request)].role = "user")
    BY <1>s DEF IndInv, Sendable
<1>1. ASSUME IndInv, KeepUnit PROVE IndInv'
    <2>1. /\ pc = "choose" /\ doing = "assemble" /\ units # <<>> /\ NextUnit
          /\ request' = Chosen \o request /\ snapshot' = snapshot
          /\ rows' = rows /\ boundary' = boundary /\ turn' = turn /\ doing' = doing
        BY <1>1 DEF KeepUnit, NextUnit
    <2>2. PICK cost \in 0..left : left' = left - cost
        BY <1>1 DEF KeepUnit
    <2>3. left' \in Nat
        BY <1>1, <2>2, Typed
    <2>4. Target = request /\ Target' = request'
        BY <2>1 DEF Target
    <2>5. request' \in Seq(Messages) /\ Normal(request')
        BY <1>0, <1>1, <2>1, <2>4
    <2>6. SessionOK'
        BY <1>1, <2>1, <2>3, <2>5, Typed DEF SessionOK
    <2>7. request' # <<>> /\ (turn = 0 => request'[Len(request')].role = "user")
        <3>1. request \in Seq(Messages) /\ Chosen \in Seq(Messages)
            BY <1>1, <2>1, Typed, ChosenUnit
        <3> QED BY <1>s, <1>1, <2>1, <3>1, StillEnds
    <2> QED BY <1>1, <2>1, <2>4, <2>6, <2>7, Considering
<1>2. ASSUME IndInv, SkipUnit PROVE IndInv'
    <2>1. /\ pc = "choose" /\ doing = "assemble" /\ units # <<>> /\ NextUnit
          /\ request' = request /\ snapshot' = snapshot /\ left' = left
          /\ rows' = rows /\ boundary' = boundary /\ turn' = turn /\ doing' = doing
        BY <1>2 DEF SkipUnit, NextUnit
    <2>2. Target' = Target
        BY <2>1 DEF Target
    <2>3. SessionOK'
        BY <1>2, <2>1, Typed DEF SessionOK
    <2>4. request' # <<>> /\ (turn = 0 => request'[Len(request')].role = "user")
        BY <1>s, <1>2, <2>1
    <2> QED BY <1>2, <2>1, <2>2, <2>3, <2>4, Considering
<1>3. ASSUME IndInv, SnapshotUnit PROVE IndInv'
    <2>1. /\ pc = "choose" /\ doing = "snapshot" /\ units # <<>> /\ NextUnit
          /\ snapshot' = Chosen \o snapshot /\ left' = left /\ request' = request
          /\ rows' = rows /\ boundary' = boundary /\ turn' = turn /\ doing' = doing
        BY <1>3 DEF SnapshotUnit, NextUnit
    <2>2. Target = snapshot /\ Target' = snapshot'
        BY <2>1 DEF Target
    <2>3. snapshot' \in Seq(Messages) /\ Normal(snapshot')
        BY <1>0, <1>3, <2>1, <2>2
    <2>4. SessionOK'
        BY <1>3, <2>1, <2>3, Typed DEF SessionOK
    <2>5. request' # <<>> /\ (turn = 0 => request'[Len(request')].role = "user")
        BY <1>s, <1>3, <2>1
    <2> QED BY <1>3, <2>1, <2>2, <2>4, <2>5, Considering
<1> QED BY <1>1, <1>2, <1>3

-----------------------------------------------------------------------------
(* The theorems *)

\* Every step keeps the invariant.
THEOREM Stepwise == IndInv /\ [Next]_vars => IndInv'
<1> SUFFICES ASSUME IndInv, [Next]_vars PROVE IndInv'
    OBVIOUS
<1>1. CASE TakeMessage \/ TakeBroken \/ OpenBatch \/ KeepId \/ ChangeId \/ TakeBatch
    BY <1>1, TakesMessage, TakesBroken, OpensBatch, KeepsId, ChangesId, TakesBatch
<1>2. CASE Refuse \/ Receive \/ Choose \/ KeepUnit \/ SkipUnit \/ Assembled
    BY <1>2, Refuses, Receives, Chooses, ConsidersUnit, Assembles
<1>3. CASE RunJob \/ JobAssembled \/ Send \/ ModelEnds \/ ModelCallsTools \/ ModelSchedules
    BY <1>3, RunsJob, AssemblesJob, Sends, EndsTurn, CallsToolsNow, Schedules
<1>4. CASE SnapshotUnit \/ SnapshotTaken \/ Exchanged \/ Compact \/ Compacted
    BY <1>4, ConsidersUnit, CallsToolsNow, EndsExchange, Compacts, EndsCompaction
<1>5. CASE UNCHANGED vars
    <2>1. /\ pc' = pc /\ boundary' = boundary /\ snapshot' = snapshot /\ doing' = doing
          /\ input' = input /\ out' = out /\ units' = units /\ seen' = seen
          /\ stop' = stop /\ names' = names /\ rows' = rows
          /\ left' = left /\ request' = request /\ turn' = turn
        BY <1>5 DEF vars, scan
    <2>2. TypeOK' /\ UnitsShape' /\ ScanShape'
        BY <2>1 DEF IndInv, TypeOK, UnitsShape, Considered, ScanShape, Uses
    <2>3. Naming'
        BY <2>1 DEF IndInv, Naming, Uses, IsBatch, first, calls
    <2>4. Choosing'
        <3>1. Considered' = Considered /\ Target' = Target
            BY <2>1 DEF Considered, Target
        <3> QED BY <2>1, <3>1 DEF IndInv, Choosing, Uses
    <2>6. Replaying'
        <3>1. Base' = Base /\ first' = first /\ calls' = calls
            BY <2>1 DEF Base, first, calls
        <3> QED BY <2>1, <3>1 DEF IndInv, Replaying
    <2>5. Closed' /\ Sendable' /\ Compacting'
        BY <2>1 DEF IndInv, Closed, first, Sendable, Compacting
    <2> QED BY <2>2, <2>3, <2>4, <2>5, <2>6 DEF IndInv
<1> QED BY <1>1, <1>2, <1>3, <1>4, <1>5 DEF Next

\* The invariant holds at every time, for every history and every choice of
\* constants.
THEOREM Invariance == Spec => []IndInv
    BY Initially, Stepwise, PTL DEF Spec

\* Every request to the model keeps the protocol of providers.
THEOREM RequestsKeepProtocol == Spec => []RequestsAreSound
<1>1. IndInv => RequestsAreSound
    <2> SUFFICES ASSUME IndInv PROVE RequestsAreSound
        OBVIOUS
    <2>1. ASSUME pc = "model"
          PROVE  Normal(request) /\ (turn = 0 => request # <<>> /\ request[Len(request)].role = "user")
        <3>1. doing # "compact"
            BY <2>1 DEF IndInv, Sendable
        <3> QED BY <2>1, <3>1 DEF IndInv, Sendable
    <2> QED BY <2>1 DEF RequestsAreSound
<1> QED BY <1>1, Invariance, PTL

LEMMA SendsUnchanged == IndInv /\ [Next]_vars => [Resent]_vars
<1> SUFFICES ASSUME IndInv, Next PROVE Resent
    OBVIOUS
<1>r. Len(request) \in Nat /\ request \in Seq(Messages) /\ SubSeq(request, 1, Len(request)) = request
    BY Typed, SubSeqFull
<1>1. ASSUME pc = "units", pc' = "model"
      PROVE  /\ Len(request') = Len(request) + IF doing = "tools" THEN 2 ELSE 0
             /\ SubSeq(request', 1, Len(request)) = request
    <2>1. Send \/ Exchanged
        BY <1>1 DEF Next, TakeMessage, TakeBroken, OpenBatch, KeepId, ChangeId, TakeBatch, Refuse,
                    Receive, Choose, KeepUnit, SkipUnit, Assembled, RunJob, JobAssembled, ModelEnds,
                    ModelCallsTools, ModelSchedules, SnapshotUnit, SnapshotTaken, Compact, Compacted,
                    NextUnit, Normalise, Leave
    <2>2. AllTaken /\ doing \in {"chat", "job", "tools"} /\ request' = out
        BY <1>1, <2>1 DEF Send, Exchanged, Leave
    <2>3. Base = request /\ Replays
        BY <2>2 DEF Base, Replays
    <2>4. /\ \A i \in 1..Len(request) : out[i] = request[i]
          /\ Len(out) = Len(request) + IF doing = "tools" THEN 2 ELSE 0
        BY <2>2, <2>3, TakenAll
    <2>5. SubSeq(out, 1, Len(request)) = request
        <3>1. CASE request = <<>>
            <4>1. Len(request) = 0
                BY <3>1
            <4>2. SubSeq(out, 1, 0) = <<>>
                BY SubSeqEmpty
            <4> QED BY <3>1, <4>1, <4>2
        <3>2. CASE request # <<>>
            <4>1. Len(request) \in Nat \ {0} /\ 1 \in 1..Len(request)
                  /\ Len(request) \in 1..Len(request)
                BY <1>r, <3>2, EmptySeq
            <4>2. Len(request) <= Len(out) /\ out \in Seq(Messages)
                BY <2>2, <2>3, Replayed, Scanning DEF AllTaken
            <4>3. SubSeq(request, 1, Len(request)) = SubSeq(out, 1, Len(request))
                BY <1>r, <2>4, <4>1, <4>2, SameSlice
            <4> QED BY <1>r, <4>3
        <3> QED BY <3>1, <3>2
    <2> QED BY <2>2, <2>4, <2>5
<1>2. ASSUME doing = "snapshotted", doing' = "job" PROVE request' = snapshot \o request
    <2>1. JobAssembled
        BY <1>2 DEF Next, TakeMessage, TakeBroken, OpenBatch, KeepId, ChangeId, TakeBatch, Refuse,
                    Receive, Choose, KeepUnit, SkipUnit, Assembled, RunJob, Send, Exchanged, ModelEnds,
                    ModelCallsTools, ModelSchedules, SnapshotUnit, SnapshotTaken, Compact, Compacted,
                    NextUnit, Normalise, Leave, TakeUnit, CallTools, scan
    <2>2. AllTaken /\ request' = out \o request /\ Base = snapshot /\ Replays
        BY <1>2, <2>1 DEF JobAssembled, Base, Replays
    <2> QED BY <1>2, <2>2, TakenAll
<1> QED BY <1>1, <1>2 DEF Resent

\* What was sent is sent again unchanged, and a job's snapshot as it was
\* recorded.
THEOREM ResendsAreStable == Spec => RequestsAreResent
    BY Invariance, SendsUnchanged, PTL DEF Spec, RequestsAreResent

-----------------------------------------------------------------------------
(* Estimates: what Cost's recursion computes, by induction on its domain *)

\* The library's induction theorems take a predicate; these take the set of the
\* numbers that have it.
LEMMA LeastNatural ==
    ASSUME NEW T, T \subseteq Nat, T # {}
    PROVE  \E x \in T : \A y \in T : x <= y
<1> DEFINE R == OpToRel(<, Nat)
<1>1. IsWellFoundedOn(R, Nat)
    BY Zenon, NatLessThanWellFounded
<1>2. \A x, y \in Nat : x < y => <<x, y>> \in R
    BY DEF OpToRel
<1> HIDE DEF R
<1>3. PICK x \in T : \A y \in T : ~ (<<y, x>> \in R)
    BY <1>1, WFMin
<1>4. ASSUME NEW y \in T PROVE x <= y
    <2>1. x \in Nat /\ y \in Nat
        OBVIOUS
    <2>2. ~(y < x)
        BY <1>2, <1>3, <2>1
    <2> QED BY <2>1, <2>2
<1> QED BY <1>3, <1>4

LEMMA InductiveSet ==
    ASSUME NEW S, 0 \in S, \A n \in Nat : n \in S => n + 1 \in S
    PROVE  Nat \subseteq S
<1> SUFFICES ASSUME NEW k \in Nat, k \notin S PROVE FALSE
    OBVIOUS
<1> DEFINE T == {n \in Nat : n \notin S}
<1>1. PICK x \in T : \A y \in T : x <= y
    <2>1. T \subseteq Nat /\ T # {}
        OBVIOUS
    <2> HIDE DEF T
    <2> QED BY <2>1, LeastNatural
<1>2. x \in Nat /\ x # 0 /\ x \notin S
    OBVIOUS
<1>3. x - 1 \in Nat /\ x - 1 \in S
    <2>1. x - 1 \in Nat /\ ~(x <= x - 1)
        BY <1>2
    <2> QED BY <1>1, <2>1
<1>4. x - 1 + 1 \in S
    BY <1>3
<1> QED BY <1>2, <1>4

\* f sums the first n sizes of s.
Sums(f, s, n) == f = [m \in 0..n |-> IF m = 0 THEN 0 ELSE f[m - 1] + s[m].size]

LEMMA SumsExist == \A s : \A n \in Nat : \E f : Sums(f, s, n)
<1> SUFFICES ASSUME NEW s PROVE \A n \in Nat : \E f : Sums(f, s, n)
    OBVIOUS
<1> DEFINE S == {n \in Nat : \E f : Sums(f, s, n)}
<1>1. 0 \in S
    <2>1. Sums([m \in 0..0 |-> 0], s, 0)
        BY DEF Sums
    <2> QED BY <2>1
<1>2. ASSUME NEW n \in Nat, n \in S PROVE n + 1 \in S
    <2>1. PICK f : Sums(f, s, n)
        BY <1>2
    <2> DEFINE g == [m \in 0..n + 1 |-> IF m <= n THEN f[m] ELSE f[n] + s[n + 1].size]
    <2>2. ASSUME NEW m \in 0..n + 1
          PROVE  g[m] = IF m = 0 THEN 0 ELSE g[m - 1] + s[m].size
        <3>1. CASE m \in 0..n
            <4>1. g[m] = f[m] /\ (m # 0 => g[m - 1] = f[m - 1])
                BY <3>1
            <4>2. f[m] = IF m = 0 THEN 0 ELSE f[m - 1] + s[m].size
                BY <2>1, <3>1 DEF Sums
            <4> QED BY <4>1, <4>2
        <3>2. CASE m = n + 1
            <4>1. g[m] = f[n] + s[m].size /\ g[m - 1] = f[n] /\ m # 0
                BY <3>2
            <4> QED BY <4>1
        <3> QED BY <3>1, <3>2
    <2>3. Sums(g, s, n + 1)
        <3>1. g = [m \in 0..n + 1 |-> g[m]]
            OBVIOUS
        <3> HIDE DEF g
        <3> QED BY <2>2, <3>1 DEF Sums
    <2> QED BY <2>3
<1> HIDE DEF S
<1>3. Nat \subseteq S
    BY <1>1, <1>2, InductiveSet
<1> QED BY <1>3 DEF S

LEMMA CostIsSum ==
    ASSUME NEW s \in Seq(Messages)
    PROVE  \E f : Sums(f, s, Len(s)) /\ Cost(s) = f[Len(s)]
<1> DEFINE f == CHOOSE g : Sums(g, s, Len(s))
<1>1. Sums(f, s, Len(s))
    <2>1. \E g : Sums(g, s, Len(s))
        BY SumsExist, LenProperties
    <2> QED BY <2>1
<1>2. Cost(s) = f[Len(s)]
    BY DEF Cost, Sums
<1> QED BY <1>1, <1>2

LEMMA SizeAt ==
    ASSUME NEW s \in Seq(Messages), NEW i \in 1..Len(s)
    PROVE  s[i].size \in Nat
<1>1. s[i] \in Messages
    BY ElementOfSeq
<1> QED BY <1>1 DEF Messages

LEMMA SumsAt ==
    ASSUME NEW s, NEW n \in Nat, NEW f, Sums(f, s, n)
    PROVE  f[0] = 0 /\ \A m \in 1..n : f[m] = f[m - 1] + s[m].size
    BY DEF Sums

LEMMA SumsNext ==
    ASSUME NEW s, NEW n \in Nat, NEW f, Sums(f, s, n), NEW m \in Nat, m + 1 <= n
    PROVE  f[m + 1] = f[m] + s[m + 1].size
<1>1. m + 1 \in 1..n /\ m + 1 - 1 = m
    OBVIOUS
<1> QED BY <1>1, SumsAt

\* A sum of sizes is a natural number.
LEMMA SumsType ==
    ASSUME NEW s \in Seq(Messages), NEW f, Sums(f, s, Len(s))
    PROVE  \A n \in 0..Len(s) : f[n] \in Nat
<1> DEFINE S == {n \in Nat : n <= Len(s) => f[n] \in Nat}
<1>0. Len(s) \in Nat /\ \A i \in 1..Len(s) : s[i].size \in Nat
    BY SizeAt, LenProperties
<1>1. 0 \in S
    BY <1>0, SumsAt
<1>2. ASSUME NEW n \in Nat, n \in S PROVE n + 1 \in S
    <2>1. ASSUME n + 1 <= Len(s) PROVE f[n + 1] \in Nat
        <3>1. n + 1 \in 1..Len(s) /\ n <= Len(s) /\ n + 1 - 1 = n
            BY <1>0, <2>1
        <3>2. f[n + 1] = f[n] + s[n + 1].size
            BY <1>0, <3>1, SumsAt
        <3>3. f[n] \in Nat /\ s[n + 1].size \in Nat
            BY <1>0, <1>2, <3>1
        <3> QED BY <3>2, <3>3
    <2> QED BY <2>1
<1> HIDE DEF S
<1>3. Nat \subseteq S
    BY <1>1, <1>2, InductiveSet
<1> QED BY <1>0, <1>3 DEF S

LEMMA CostType == \A s \in Seq(Messages) : Cost(s) \in Nat
<1> SUFFICES ASSUME NEW s \in Seq(Messages) PROVE Cost(s) \in Nat
    OBVIOUS
<1>1. PICK f : Sums(f, s, Len(s)) /\ Cost(s) = f[Len(s)]
    BY CostIsSum
<1> QED BY <1>1, SumsType, LenProperties

\* The estimate of two parts is the sum of theirs.
LEMMA CostConcat ==
    ASSUME NEW a \in Seq(Messages), NEW b \in Seq(Messages)
    PROVE  Cost(a \o b) = Cost(a) + Cost(b)
<1> DEFINE s == a \o b
<1>0. /\ Len(a) \in Nat /\ Len(b) \in Nat /\ s \in Seq(Messages) /\ Len(s) = Len(a) + Len(b)
      /\ \A i \in 1..Len(a) : s[i] = a[i]
      /\ \A i \in Len(a) + 1..Len(a) + Len(b) : s[i] = b[i - Len(a)]
    BY ConcatProperties, LenProperties
<1> HIDE DEF s
<1>a. PICK fa : Sums(fa, a, Len(a)) /\ Cost(a) = fa[Len(a)]
    BY CostIsSum
<1>b. PICK fb : Sums(fb, b, Len(b)) /\ Cost(b) = fb[Len(b)]
    BY CostIsSum
<1>c. PICK f : Sums(f, s, Len(s)) /\ Cost(s) = f[Len(s)]
    BY <1>0, CostIsSum
<1>1. \A n \in 0..Len(a) : f[n] = fa[n]
    <2> DEFINE S == {n \in Nat : n <= Len(a) => f[n] = fa[n]}
    <2>1. 0 \in S
        BY <1>0, <1>a, <1>c, SumsAt
    <2>2. ASSUME NEW n \in Nat, n \in S PROVE n + 1 \in S
        <3>1. ASSUME n + 1 <= Len(a) PROVE f[n + 1] = fa[n + 1]
            <4>1. n + 1 \in 1..Len(a) /\ n + 1 \in 1..Len(s) /\ n <= Len(a) /\ n + 1 - 1 = n
                BY <1>0, <3>1
            <4>2. f[n + 1] = f[n] + s[n + 1].size /\ fa[n + 1] = fa[n] + a[n + 1].size
                <5>0. n + 1 <= Len(s) /\ Len(s) \in Nat /\ Len(a) \in Nat
                    BY <1>0, <4>1
                <5>1. f[n + 1] = f[n] + s[n + 1].size
                    BY <1>c, <5>0, SumsNext
                <5>2. fa[n + 1] = fa[n] + a[n + 1].size
                    BY <1>a, <3>1, <5>0, SumsNext
                <5> QED BY <5>1, <5>2
            <4>3. a[n + 1] = s[n + 1] /\ f[n] = fa[n]
                BY <1>0, <2>2, <4>1
            <4> QED BY <4>2, <4>3
        <3> QED BY <3>1
    <2> HIDE DEF S
    <2>3. Nat \subseteq S
        BY <2>1, <2>2, InductiveSet
    <2> QED BY <1>0, <2>3 DEF S
<1>2. \A n \in 0..Len(b) : f[Len(a) + n] = fa[Len(a)] + fb[n]
    <2> DEFINE S == {n \in Nat : n <= Len(b) => f[Len(a) + n] = fa[Len(a)] + fb[n]}
    <2>0. fa[Len(a)] \in Nat /\ \A n \in 0..Len(b) : fb[n] \in Nat
        <3>1. Len(a) \in 0..Len(a) /\ \A n \in 0..Len(a) : fa[n] \in Nat
            BY <1>a, SumsType, LenProperties
        <3>2. \A n \in 0..Len(b) : fb[n] \in Nat
            BY <1>b, SumsType
        <3> QED BY <3>1, <3>2
    <2>1. 0 \in S
        <3>1. fb[0] = 0
            BY <1>0, <1>b, SumsAt
        <3>2. Len(a) \in 0..Len(a) /\ Len(a) + 0 = Len(a)
            BY <1>0
        <3>3. f[Len(a) + 0] = fa[Len(a)]
            BY <1>1, <3>2
        <3>4. f[Len(a) + 0] = fa[Len(a)] + fb[0]
            BY <2>0, <3>1, <3>3
        <3> QED BY <3>4
    <2>2. ASSUME NEW n \in Nat, n \in S PROVE n + 1 \in S
        <3>1. ASSUME n + 1 <= Len(b) PROVE f[Len(a) + (n + 1)] = fa[Len(a)] + fb[n + 1]
            <4>1. /\ n + 1 \in 1..Len(b) /\ Len(a) + (n + 1) \in 1..Len(s) /\ n \in 0..Len(b)
                  /\ n + 1 - 1 = n /\ Len(a) + (n + 1) - 1 = Len(a) + n
                  /\ Len(a) + (n + 1) \in Len(a) + 1..Len(a) + Len(b)
                  /\ Len(a) + (n + 1) - Len(a) = n + 1
                BY <1>0, <3>1
            <4>2. fb[n + 1] = fb[n] + b[n + 1].size
                BY <1>0, <1>b, <4>1, SumsAt
            <4>3. f[Len(a) + (n + 1)] = f[Len(a) + n] + s[Len(a) + (n + 1)].size
                BY <1>0, <1>c, <4>1, SumsAt
            <4>4. s[Len(a) + (n + 1)] = b[n + 1]
                BY <1>0, <4>1
            <4>5. f[Len(a) + n] = fa[Len(a)] + fb[n]
                BY <2>2, <4>1
            <4>6. b[n + 1].size \in Nat /\ fb[n] \in Nat
                BY <2>0, <4>1, SizeAt
            <4>7. fa[Len(a)] \in Nat
                BY <2>0
            <4> QED BY <4>2, <4>3, <4>4, <4>5, <4>6, <4>7
        <3> QED BY <3>1
    <2> HIDE DEF S
    <2>3. Nat \subseteq S
        BY <2>1, <2>2, InductiveSet
    <2> QED BY <1>0, <2>3 DEF S
<1>3. f[Len(s)] = fa[Len(a)] + fb[Len(b)]
    BY <1>0, <1>2
<1> QED BY <1>a, <1>b, <1>c, <1>3 DEF s

\* The estimate of one message.
LEMMA CostOfOne == \A m \in Messages : Cost(<<m>>) = m.size
<1> SUFFICES ASSUME NEW m \in Messages PROVE Cost(<<m>>) = m.size
    OBVIOUS
<1>1. <<m>> \in Seq(Messages) /\ Len(<<m>>) = 1 /\ <<m>>[1] = m /\ m.size \in Nat
    BY DEF Messages
<1>2. PICK f : Sums(f, <<m>>, 1) /\ Cost(<<m>>) = f[1]
    BY <1>1, CostIsSum
<1>3. f[0] = 0 /\ f[1] = f[1 - 1] + <<m>>[1].size
    BY <1>2, SumsAt
<1> QED BY <1>1, <1>2, <1>3

-----------------------------------------------------------------------------
(* The budget *)

LEMMA BudgetStarts == Init => Budgeted
    BY DEF Init, Budgeted

\* Of the actions only these leave a chat turn's first request in work.
LEMMA BudgetSteps == IndInv /\ Budgeted /\ [Next]_vars => Budgeted'
<1> SUFFICES ASSUME IndInv, Budgeted, [Next]_vars PROVE Budgeted'
    OBVIOUS
<1>c. Cost(request) \in Nat /\ left \in Nat /\ Fixed \in Nat /\ Usable \in Int
    <2>1. Cost(request) \in Nat /\ left \in Nat
        BY CostType, Typed
    <2> QED BY <2>1, HistoryAssumption DEF Usable
<1>u. \A next : Leave(next) => pc' = next /\ doing' = doing
    BY Leaves
<1>s. ASSUME request' = request, left' = left, doing' = doing, pc # "idle" \/ pc' = "idle"
      PROVE  Budgeted'
    BY <1>s DEF Budgeted, Usable
<1>1. CASE TakeMessage \/ TakeBroken \/ OpenBatch \/ KeepId \/ ChangeId \/ TakeBatch
           \/ SkipUnit \/ Choose
    BY <1>1, <1>s DEF TakeMessage, TakeBroken, OpenBatch, KeepId, ChangeId, TakeBatch, TakeUnit,
       SkipUnit, NextUnit, Choose, turnVars, AllTaken
<1>2. CASE Receive
    <2>1. PICK size \in Sizes : left' = Usable - Fixed - size /\ request' = <<User(size)>>
        BY <1>2 DEF Receive
    <2>2. size \in Nat /\ User(size) \in Messages /\ User(size).size = size
        BY HistoryAssumption, OwnMessages DEF User
    <2>3. Cost(request') = size
        BY <2>1, <2>2, CostOfOne
    <2> QED BY <1>c, <2>1, <2>2, <2>3 DEF Budgeted, Usable
<1>3. CASE KeepUnit
    <2>1. /\ pc = "choose" /\ doing = "assemble" /\ units # <<>>
          /\ request' = Chosen \o request
        BY <1>3 DEF KeepUnit
    <2>2. PICK cost \in 0..left : cost = Cost(Chosen) /\ left' = left - cost
        BY <1>3 DEF KeepUnit
    <2>3. Cost(Chosen \o request) = Cost(Chosen) + Cost(request)
        BY <2>1, ChosenUnit, Typed, CostConcat
    <2>4. Cost(request') = cost + Cost(request)
        BY <2>1, <2>2, <2>3
    <2>5. Fixed + Cost(request) + left = Usable
        BY <2>1 DEF Budgeted
    <2>6. cost \in Nat
        BY <1>c, <2>2
    <2>7. Fixed + Cost(request') + left' = Usable
        BY <1>c, <2>2, <2>4, <2>5, <2>6
    <2> QED BY <2>7 DEF Budgeted, Usable
<1>4. CASE Assembled
    <2>1. request' = request /\ left' = left /\ pc = "choose" /\ doing = "assemble"
        BY <1>4 DEF Assembled, turnVars
    <2> QED BY <2>1 DEF Budgeted, Usable
<1>5. CASE Send
    <2>1. AllTaken /\ doing \in {"chat", "job"} /\ request' = out /\ left' = left /\ doing' = doing
        BY <1>5, <1>u DEF Send
    <2>2. request' = request /\ pc = "units"
        BY <2>1, TakenAll DEF Replays, Base, AllTaken
    <2> QED BY <2>1, <2>2, <1>s
<1>6. CASE RunJob \/ JobAssembled \/ ModelCallsTools \/ ModelSchedules \/ SnapshotTaken
           \/ Compact
    <2>1. doing' \notin {"assemble", "chat"}
        <3>1. CASE RunJob
            BY <3>1 DEF RunJob, Normalise
        <3>2. CASE JobAssembled
            BY <3>2 DEF JobAssembled, Normalise
        <3>3. CASE ModelCallsTools \/ SnapshotTaken
            <4>1. CallTools
                BY <3>3 DEF ModelCallsTools, SnapshotTaken
            <4> QED BY <4>1 DEF CallTools, Normalise
        <3>4. CASE ModelSchedules \/ Compact
            BY <3>4 DEF ModelSchedules, Compact, Normalise
        <3> QED BY <1>6, <3>1, <3>2, <3>3, <3>4
    <2> QED BY <2>1 DEF Budgeted
<1>7. CASE ModelEnds \/ SnapshotUnit \/ Exchanged \/ Compacted \/ Refuse
    <2>1. doing' \notin {"assemble", "chat"} \/ pc' = "idle"
        <3>1. CASE ModelEnds \/ Compacted
            BY <3>1, <1>u DEF ModelEnds, Compacted
        <3>2. CASE SnapshotUnit \/ Refuse
            BY <3>2 DEF SnapshotUnit, NextUnit, Refuse
        <3>3. CASE Exchanged
            BY <3>3, <1>u DEF Exchanged
        <3> QED BY <1>7, <3>1, <3>2, <3>3
    <2> QED BY <2>1 DEF Budgeted
<1>8. CASE UNCHANGED vars
    BY <1>8, <1>s DEF vars, Budgeted, Usable
<1> QED BY <1>1, <1>2, <1>3, <1>4, <1>5, <1>6, <1>7, <1>8 DEF Next

\* The first request of every chat turn fits the budget, the labels of rendered
\* rows included, whatever the rows and however many units were passed over.
THEOREM RequestsFit == Spec => []WithinBudget
<1>1. IndInv /\ Budgeted => WithinBudget
    <2> SUFFICES ASSUME IndInv, Budgeted, pc = "model", doing = "chat"
                 PROVE  Fixed + Cost(request) <= Usable
        BY DEF WithinBudget
    <2>1. Cost(request) \in Nat /\ left \in Nat
        BY CostType, Typed
    <2>2. Fixed + Cost(request) + left = Usable
        BY DEF Budgeted
    <2> QED BY <2>1, <2>2, HistoryAssumption
<1>2. Spec => []Budgeted
    BY Invariance, BudgetStarts, BudgetSteps, PTL DEF Spec
<1> QED BY <1>1, <1>2, Invariance, PTL
=============================================================================
