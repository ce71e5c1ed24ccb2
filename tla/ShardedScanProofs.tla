------------------------- MODULE ShardedScanProofs --------------------------
(***************************************************************************)
(* Proofs about ShardedScan, for any shards, any keys and any page sizes:  *)
(* a walk returns every wanted key once, in order, in pages that are not   *)
(* too long.                                                               *)
(***************************************************************************)
EXTENDS ShardedScan, WellFoundedInduction, SequenceTheorems, TLAPS

-----------------------------------------------------------------------------
(***************************************************************************)
(* Induction over the natural numbers, for a set of them.                  *)
(***************************************************************************)
LessOnNat == {ss \in Nat \X Nat : ss[1] < ss[2]}

\* A set with 0 and all successors holds every natural number.
LEMMA SetInduction ==
  ASSUME NEW S, 0 \in S, \A n \in Nat : n \in S => n + 1 \in S
  PROVE  \A n \in Nat : n \in S
<1> DEFINE T == Nat \ S
<1>1. SUFFICES ASSUME T # {} PROVE FALSE
  OBVIOUS
<1>2. IsWellFoundedOn(LessOnNat, Nat)
  BY NatLessThanWellFounded, Zenon DEF OpToRel, LessOnNat
<1>3. \E x \in T : \A y \in T : ~(<<y, x>> \in LessOnNat)
  BY <1>1, <1>2, WFMin, Zenon
<1>4. \A x, y \in Nat : <<y, x>> \in LessOnNat <=> y < x
  BY DEF LessOnNat
<1>5. PICK x \in T : \A y \in T : ~(y < x)
  BY <1>3, <1>4, Zenon
<1>6. x # 0 /\ x - 1 \in Nat /\ x - 1 \in S
  BY <1>5
<1> QED
  BY <1>6

-----------------------------------------------------------------------------
(***************************************************************************)
(* FlattenSeq.                                                             *)
(***************************************************************************)
\* f[i] is the first i sequences of ss, one after the other.
Flattens(f, ss, K) ==
  /\ f \in [0..Len(ss) -> Seq(K)] /\ f[0] = <<>>
  /\ \A i \in 1..Len(ss) : f[i] = f[i - 1] \o ss[i]

\* There is such an f.
LEMMA FlattenExists ==
  ASSUME NEW K, NEW ss \in Seq(Seq(K))
  PROVE  \E f : Flattens(f, ss, K)
<1> DEFINE N == Len(ss)
           Def(f, n) == f[0] = <<>> /\ \A i \in 1..n : f[i] = f[i - 1] \o ss[i]
           S == {n \in Nat : n <= N => \E f \in [0..n -> Seq(K)] : Def(f, n)}
<1>0. N \in Nat /\ \A i \in 1..N : ss[i] \in Seq(K)
  OBVIOUS
<1>1. 0 \in S
  <2> DEFINE f == [k \in 0..0 |-> <<>>]
  <2>1. f \in [0..0 -> Seq(K)] /\ Def(f, 0)
    OBVIOUS
  <2> QED
    BY <2>1, Zenon
<1>2. ASSUME NEW n \in Nat, n \in S PROVE n + 1 \in S
  <2>0. SUFFICES ASSUME n + 1 <= N PROVE \E g \in [0..(n + 1) -> Seq(K)] : Def(g, n + 1)
    <3> HIDE DEF Def
    <3> QED
      OBVIOUS
  <2>1. PICK f \in [0..n -> Seq(K)] : Def(f, n)
    <3>1. n <= N
      BY <1>0, <2>0
    <3> HIDE DEF Def
    <3> QED
      BY <1>2, <3>1
  <2> DEFINE x == f[n] \o ss[n + 1]
             g == [k \in 0..(n + 1) |-> IF k = n + 1 THEN x ELSE f[k]]
  <2>2. x \in Seq(K)
    <3>0. n + 1 \in 1..N /\ n \in 0..n
      BY <1>0, <2>0, SMTT(30)
    <3>1. f[n] \in Seq(K) /\ ss[n + 1] \in Seq(K)
      BY <1>0, <3>0, Zenon
    <3> QED
      BY <3>1
  <2>3. g \in [0..(n + 1) -> Seq(K)]
    <3> HIDE DEF x
    <3> QED
      BY <2>2
  <2>4. g[0] = <<>> /\ g[n] = f[n] /\ g[n + 1] = x
    <3> HIDE DEF x
    <3> QED
      BY <2>1
  <2>5. \A i \in 1..n : g[i] = f[i] /\ g[i - 1] = f[i - 1]
    <3> HIDE DEF x
    <3> QED
      OBVIOUS
  <2> HIDE DEF g
  <2>6. ASSUME NEW i \in 1..(n + 1) PROVE g[i] = g[i - 1] \o ss[i]
    <3>1. CASE i = n + 1
      <4>1. i - 1 = n
        BY <3>1
      <4> QED
        BY <2>4, <3>1, <4>1, Zenon
    <3>2. CASE i \in 1..n
      BY <2>1, <2>5, <3>2, Zenon
    <3>3. i = n + 1 \/ i \in 1..n
      OBVIOUS
    <3> QED
      BY <3>1, <3>2, <3>3, Zenon
  <2> QED
    BY <2>3, <2>4, <2>6, Zenon
<1>3. N \in S
  <2> HIDE DEF S
  <2> QED
    BY <1>0, <1>1, <1>2, SetInduction, Zenon
<1>4. PICK f \in [0..N -> Seq(K)] : Def(f, N)
  <2> HIDE DEF Def
  <2> QED
    BY <1>0, <1>3, SMTT(30)
<1> QED
  BY <1>4, Zenon DEF Flattens

\* There is only one: the first n values depend on the first n sequences only.
SameStart(n, f, ss, g, tt, K) ==
  /\ Flattens(f, ss, K) /\ Flattens(g, tt, K)
  /\ Len(ss) \in Nat /\ Len(tt) \in Nat /\ n \in Nat /\ n <= Len(ss) /\ n <= Len(tt)
  /\ \A i \in 1..n : ss[i] = tt[i]

LEMMA FlattenAgree ==
  ASSUME NEW K, NEW f, NEW ss, NEW g, NEW tt, NEW n
  PROVE  SameStart(n, f, ss, g, tt, K) => f[n] = g[n]
<1>s. SUFFICES ASSUME SameStart(n, f, ss, g, tt, K) PROVE  f[n] = g[n]
  OBVIOUS
<1>0. /\ Flattens(f, ss, K) /\ Flattens(g, tt, K)
      /\ Len(ss) \in Nat /\ Len(tt) \in Nat /\ n \in Nat
      /\ n <= Len(ss) /\ n <= Len(tt)
      /\ \A i \in 1..n : ss[i] = tt[i]
  BY <1>s, Zenon DEF SameStart
<1> DEFINE S == {k \in Nat : k <= n => f[k] = g[k]}
<1>1. 0 \in S
  BY <1>0 DEF Flattens
<1>2. ASSUME NEW k \in Nat, k \in S PROVE k + 1 \in S
  <2> SUFFICES ASSUME k + 1 <= n PROVE f[k + 1] = g[k + 1]
    OBVIOUS
  <2>1. k <= n /\ k + 1 \in 1..n /\ k + 1 \in 1..Len(ss) /\ k + 1 \in 1..Len(tt) /\ (k + 1) - 1 = k
    BY <1>0, SMTT(30)
  <2>2. f[k] = g[k]
    BY <1>2, <2>1, Zenon
  <2>3. /\ f[k + 1] = f[(k + 1) - 1] \o ss[k + 1]
        /\ g[k + 1] = g[(k + 1) - 1] \o tt[k + 1]
        /\ ss[k + 1] = tt[k + 1]
    BY <1>0, <2>1, Zenon DEF Flattens
  <2> QED
    BY <2>1, <2>2, <2>3, Zenon
<1>3. n \in S
  <2> HIDE DEF S
  <2> QED
    BY <1>0, <1>1, <1>2, SetInduction, Zenon
<1>4. n <= n
  BY <1>0
<1> QED
  BY <1>3, <1>4, Zenon

\* FlattenSeq is the last value.
LEMMA FlattenIs ==
  ASSUME NEW K, NEW ss \in Seq(Seq(K)), NEW f, Flattens(f, ss, K)
  PROVE  FlattenSeq(ss) = f[Len(ss)] /\ FlattenSeq(ss) \in Seq(K)
<1> DEFINE N == Len(ss)
           D(e) == [i \in 1..N |-> IF i = 1 THEN ss[i] ELSE e[i - 1] \o ss[i]]
           v == CHOOSE e : e = D(e)
<1>0. N \in Nat /\ f[N] \in Seq(K)
  BY DEF Flattens
<1>1. CASE N = 0
  <2>1. FlattenSeq(ss) = ss
    BY <1>1 DEF FlattenSeq
  <2>2. ss = <<>>
    BY <1>1, SMTT(30)
  <2> QED
    BY <1>1, <2>1, <2>2, SMTT(30) DEF Flattens
<1>2. CASE N # 0
  <2>1. FlattenSeq(ss) = v[N]
    BY <1>2, Zenon DEF FlattenSeq
  <2> DEFINE e == [i \in 1..N |-> f[i]]
  <2>2. e = D(e)
    <3>1. \A i \in 1..N : i # 1 => i - 1 \in 1..N /\ e[i - 1] = f[i - 1]
      OBVIOUS
    <3>2. \A i \in 1..N : f[i] = IF i = 1 THEN ss[i] ELSE f[i - 1] \o ss[i]
      <4>1. \A i \in 1..N : f[i] = f[i - 1] \o ss[i]
        BY Zenon DEF Flattens
      <4>2. ASSUME NEW i \in 1..N, i = 1 PROVE f[i - 1] \o ss[i] = ss[i]
        <5>1. i - 1 = 0 /\ f[0] = <<>> /\ ss[i] \in Seq(K)
          BY <4>2 DEF Flattens
        <5> QED
          BY <5>1, ConcatEmptySeq, Zenon
      <4> QED
        BY <4>1, <4>2, Zenon
    <3> QED
      BY <3>1, <3>2, Zenon
  <2>3. v = D(v)
    <3> HIDE DEF e
    <3> QED
      BY <2>2, Zenon
  <2> HIDE DEF v
  <2>4. \A i \in 1..N : v[i] = IF i = 1 THEN ss[i] ELSE v[i - 1] \o ss[i]
    BY <2>3, Zenon
  <2> DEFINE S == {k \in Nat : k + 1 <= N => v[k + 1] = f[k + 1]}
  <2>5. 0 \in S
    <3>1. 1 \in 1..N /\ 1 - 1 = 0
      BY <1>0, <1>2, SMTT(30)
    <3>2. ss[1] \in Seq(K)
      BY <3>1
    <3>3. f[1] = ss[1]
      <4>1. f[1] = f[1 - 1] \o ss[1] /\ f[0] = <<>>
        BY <3>1, Zenon DEF Flattens
      <4> QED
        BY <3>1, <3>2, <4>1, ConcatEmptySeq, Zenon
    <3>4. v[1] = ss[1]
      BY <2>4, <3>1, Zenon
    <3> QED
      BY <3>3, <3>4, SMTT(30)
  <2>6. ASSUME NEW k \in Nat, k \in S PROVE k + 1 \in S
    <3> SUFFICES ASSUME (k + 1) + 1 <= N PROVE v[(k + 1) + 1] = f[(k + 1) + 1]
      OBVIOUS
    <3> DEFINE m == (k + 1) + 1
    <3>1. m \in 1..N /\ m # 1 /\ m - 1 = k + 1 /\ k + 1 <= N
      BY <1>0
    <3>2. v[m] = v[m - 1] \o ss[m]
      BY <2>4, <3>1, Zenon
    <3>3. f[m] = f[m - 1] \o ss[m]
      <4> HIDE DEF m
      <4> QED
        BY <3>1, Zenon DEF Flattens
    <3>4. v[k + 1] = f[k + 1]
      BY <2>6, <3>1, Zenon
    <3> QED
      BY <3>1, <3>2, <3>3, <3>4, Zenon
  <2>7. \A k \in Nat : k \in S
    <3> HIDE DEF S
    <3> QED
      BY <2>5, <2>6, SetInduction, Zenon
  <2>8. v[N] = f[N]
    <3>1. N - 1 \in Nat /\ (N - 1) + 1 = N
      BY <1>0, <1>2, SMTT(30)
    <3>2. N - 1 \in S
      BY <2>7, <3>1, Zenon
    <3> QED
      BY <3>1, <3>2, SMTT(30)
  <2> QED
    BY <1>0, <2>1, <2>8, Zenon
<1> QED
  BY <1>1, <1>2, Zenon

\* Concatenation is associative.
Associates(a, b, c) == (a \o b) \o c = a \o (b \o c)

LEMMA JoinJoin ==
  \A K : \A a, b, c \in Seq(K) : Associates(a, b, c)
<1> TAKE K
<1> TAKE a, b, c \in Seq(K)
<1> QED
  BY ConcatAssociative, SMTT(30) DEF Associates

\* What FlattenSeq makes of two sequences, one after the other.
LEMMA FlattenJoin ==
  ASSUME NEW K, NEW ss, NEW tt
  PROVE  ss \in Seq(Seq(K)) /\ tt \in Seq(Seq(K))
         => /\ FlattenSeq(ss) \in Seq(K) /\ FlattenSeq(tt) \in Seq(K)
            /\ FlattenSeq(ss \o tt) = FlattenSeq(ss) \o FlattenSeq(tt)
<1>0. SUFFICES ASSUME ss \in Seq(Seq(K)) /\ tt \in Seq(Seq(K))
               PROVE  /\ FlattenSeq(ss) \in Seq(K) /\ FlattenSeq(tt) \in Seq(K)
                      /\ FlattenSeq(ss \o tt) = FlattenSeq(ss) \o FlattenSeq(tt)
  OBVIOUS
<1> DEFINE uu == ss \o tt
           M == Len(ss)
           N == Len(tt)
<1>1. /\ M \in Nat /\ N \in Nat /\ uu \in Seq(Seq(K)) /\ Len(uu) = M + N
      /\ \A i \in 1..M : uu[i] = ss[i]
      /\ \A i \in 1..N : uu[M + i] = tt[i]
      /\ \A i \in 1..N : tt[i] \in Seq(K)
  <2>1. \A i \in 1..N : tt[i] \in Seq(K)
    BY <1>0
  <2>2. M \in Nat /\ N \in Nat
    BY <1>0, SMTT(30)
  <2>3. /\ uu \in Seq(Seq(K)) /\ Len(uu) = M + N
        /\ \A i \in 1..(M + N) : uu[i] = IF i <= M THEN ss[i] ELSE tt[i - M]
    BY <1>0, ConcatProperties, Zenon
  <2> HIDE DEF uu, M, N
  <2>4. \A i \in 1..M : uu[i] = ss[i]
    BY <2>2, <2>3, SMTT(30)
  <2>5. ASSUME NEW i \in 1..N PROVE uu[M + i] = tt[i]
    <3>1. M + i \in 1..(M + N) /\ ~(M + i <= M) /\ (M + i) - M = i
      BY <2>2, SMTT(30)
    <3> QED
      BY <2>3, <3>1, Zenon
  <2> QED
    BY <2>1, <2>2, <2>3, <2>4, <2>5, Zenon
<1> HIDE DEF uu
<1>2. PICK f : Flattens(f, uu, K)
  BY <1>1, FlattenExists, Zenon
<1>3. PICK g : Flattens(g, ss, K)
  BY <1>0, FlattenExists, Zenon
<1>4. PICK h : Flattens(h, tt, K)
  BY <1>0, FlattenExists, Zenon
<1>5. /\ FlattenSeq(uu) = f[M + N]
      /\ FlattenSeq(ss) = g[M] /\ FlattenSeq(ss) \in Seq(K)
      /\ FlattenSeq(tt) = h[N] /\ FlattenSeq(tt) \in Seq(K)
  <2>1. FlattenSeq(uu) = f[Len(uu)]
    BY <1>1, <1>2, FlattenIs, Zenon
  <2>2. FlattenSeq(ss) = g[M] /\ FlattenSeq(ss) \in Seq(K)
    BY <1>0, <1>3, FlattenIs, Zenon
  <2>3. FlattenSeq(tt) = h[N] /\ FlattenSeq(tt) \in Seq(K)
    BY <1>0, <1>4, FlattenIs, Zenon
  <2> QED
    BY <1>1, <2>1, <2>2, <2>3, Zenon
<1> HIDE DEF M, N
<1>6. f[M] = g[M]
  <2>1. /\ Len(uu) \in Nat /\ Len(ss) \in Nat /\ M <= Len(uu) /\ M <= Len(ss) /\ M \in Nat
    BY <1>1, SMTT(30) DEF M
  <2>2. \A i \in 1..M : uu[i] = ss[i]
    BY <1>1, Zenon
  <2>3. SameStart(M, f, uu, g, ss, K)
    BY <1>2, <1>3, <2>1, <2>2, Zenon DEF SameStart
  <2> QED
    BY <2>3, FlattenAgree, SMTT(30)
<1> DEFINE S == {k \in Nat : k <= N => f[M + k] = g[M] \o h[k]}
<1>7. 0 \in S
  <2>1. h[0] = <<>> /\ g[M] \in Seq(K)
    BY <1>4, <1>5, Zenon DEF Flattens
  <2>2. g[M] \o <<>> = g[M]
    BY <2>1, ConcatEmptySeq, Zenon
  <2>3. M + 0 = M
    BY <1>1, SMTT(30)
  <2> QED
    BY <1>6, <2>1, <2>2, <2>3, Zenon
<1>8. ASSUME NEW k \in Nat, k \in S PROVE k + 1 \in S
  <2>0. SUFFICES ASSUME k + 1 <= N PROVE f[M + (k + 1)] = g[M] \o h[k + 1]
    <3>1. k + 1 \in Nat
      OBVIOUS
    <3> QED
      BY <3>1, Zenon
  <2>1. /\ k <= N /\ k + 1 \in 1..N /\ (k + 1) - 1 = k /\ k \in 0..N
        /\ M + (k + 1) \in 1..(M + N) /\ (M + (k + 1)) - 1 = M + k
    BY <1>1, <2>0, SMTT(30)
  <2>2. f[M + k] = g[M] \o h[k]
    BY <1>8, <2>1, Zenon
  <2>3. f[M + (k + 1)] = f[M + k] \o uu[M + (k + 1)]
    <3>1. \A i \in 1..(M + N) : f[i] = f[i - 1] \o uu[i]
      BY <1>1, <1>2, Zenon DEF Flattens
    <3> QED
      BY <2>1, <3>1, Zenon
  <2>4. uu[M + (k + 1)] = tt[k + 1] /\ tt[k + 1] \in Seq(K)
    BY <1>1, <2>1, Zenon
  <2>5. h[k + 1] = h[k] \o tt[k + 1] /\ h[k] \in Seq(K)
    <3>1. /\ \A i \in 1..N : h[i] = h[i - 1] \o tt[i]
          /\ h \in [0..N -> Seq(K)]
      BY <1>4, Zenon DEF Flattens, N
    <3> QED
      BY <2>1, <3>1, Zenon
  <2>6. g[M] \in Seq(K)
    BY <1>5, Zenon
  <2>7. (g[M] \o h[k]) \o tt[k + 1] = g[M] \o (h[k] \o tt[k + 1])
    <3>1. Associates(g[M], h[k], tt[k + 1])
      BY <2>4, <2>5, <2>6, JoinJoin, Zenon
    <3> QED
      BY <3>1, Zenon DEF Associates
  <2> QED
    BY <2>2, <2>3, <2>4, <2>5, <2>7, Zenon
<1>9. N \in S
  <2> HIDE DEF S
  <2> QED
    BY <1>1, <1>7, <1>8, SetInduction, Zenon
<1>10. f[M + N] = g[M] \o h[N]
  <2>1. N <= N
    BY <1>1, SMTT(30)
  <2> QED
    BY <1>9, <2>1, Zenon
<1> QED
  BY <1>5, <1>10 DEF uu

\* What FlattenSeq makes of a single sequence, and of none.
LEMMA FlattenOne ==
  ASSUME NEW K, NEW x \in Seq(K)
  PROVE  FlattenSeq(<<x>>) = x /\ FlattenSeq(<<>>) = <<>>
<1>1. <<x>> \in Seq(Seq(K)) /\ Len(<<x>>) = 1 /\ <<x>>[1] = x
  OBVIOUS
<1>2. PICK f : Flattens(f, <<x>>, K)
  BY <1>1, FlattenExists, Zenon
<1>3. FlattenSeq(<<x>>) = f[1]
  BY <1>1, <1>2, FlattenIs, Zenon
<1>4. f[1] = f[1 - 1] \o <<x>>[1] /\ f[0] = <<>>
  <2>1. 1 \in 1..Len(<<x>>)
    BY <1>1, SMTT(30)
  <2> QED
    BY <1>2, <2>1, Zenon DEF Flattens
<1>5. f[1] = <<>> \o x
  <2>1. 1 - 1 = 0
    OBVIOUS
  <2> QED
    BY <1>1, <1>4, <2>1, Zenon
<1>6. <<>> \o x = x
  BY ConcatEmptySeq, Zenon
<1>7. FlattenSeq(<<>>) = <<>>
  BY DEF FlattenSeq
<1> QED
  BY <1>3, <1>5, <1>6, <1>7, Zenon

-----------------------------------------------------------------------------
(***************************************************************************)
(* The invariant.                                                          *)
(***************************************************************************)
\* The keys of the first i shards.
Before(i) == FlattenSeq(SubSeq(Content, 1, i))

\* The keys before the cursor c of shard i.
Walked(i, c) == Before(i) \o SubSeq(ShardKeys(i), 1, c)

Place(i, c) == i \in 0..(NumShards - 1) /\ c \in 0..Len(ShardKeys(i))

\* The caller has seen the wanted keys before the cursor it holds.
Resumable ==
  \E i \in 0..(NumShards - 1) : \E c \in 0..Len(ShardKeys(i)) :
    /\ parseScanCursor(cursor) = Parsed(i, c)
    /\ seen = OnlyWanted(Walked(i, c))

\* The caller holds a cursor of the first shard, from a page of count 0, with
\* which it cannot go on.
Stray ==
  /\ IsPrefix(seen, Expected) /\ page.count = 0
  /\ ~parseScanCursor(cursor).ok

\* The page in progress continues what the caller has seen.
InPage ==
  /\ count \in Nat /\ keys \in Seq(Keys) /\ Len(keys) <= count
  /\ Place(shardIndex, shardCursor)
  /\ seen \o keys = OnlyWanted(Walked(shardIndex, shardCursor))

ScanInv ==
  /\ pc \in {"idle", "loop", "zero", "done"} /\ seen \in Seq(Keys)
  /\ page \in [len : Nat, count : Nat] /\ page.len <= page.count
  /\ pc \in {"idle", "zero"} => Resumable \/ Stray
  /\ pc = "loop" => Resumable /\ InPage
  /\ pc = "zero" => count = 0 /\ shardIndex = 0 /\ shardCursor = 0
  /\ pc = "done" => /\ cursor = Initial /\ IsPrefix(seen, Expected)
                    /\ page.count > 0 => seen = Expected

-----------------------------------------------------------------------------
(***************************************************************************)
(* The keys before a cursor.                                               *)
(***************************************************************************)
\* The wanted keys of two sequences, one after the other.
LEMMA OnlyWantedJoin ==
  ASSUME NEW a \in Seq(Keys), NEW b \in Seq(Keys)
  PROVE  /\ OnlyWanted(a) \in Seq(Keys)
         /\ OnlyWanted(a \o b) = OnlyWanted(a) \o OnlyWanted(b)
<1> DEFINE W(ks) == [n \in 1..Len(ks) |-> IF ks[n] \in Wanted THEN <<ks[n]>> ELSE <<>>]
<1>1. \A s \in Seq(Keys) : W(s) \in Seq(Seq(Keys)) /\ Len(W(s)) = Len(s)
  <2> SUFFICES ASSUME NEW s \in Seq(Keys)
               PROVE  W(s) \in Seq(Seq(Keys)) /\ Len(W(s)) = Len(s)
    OBVIOUS
  <2>1. Len(s) \in Nat /\ \A n \in 1..Len(s) : s[n] \in Keys
    OBVIOUS
  <2>2. \A n \in 1..Len(s) :
          (IF s[n] \in Wanted THEN <<s[n]>> ELSE <<>>) \in Seq(Keys)
    BY <2>1, SMTT(30)
  <2>3. W(s) \in [1..Len(s) -> Seq(Keys)]
    BY <2>2, Zenon
  <2> HIDE DEF W
  <2> QED
    BY <2>1, <2>3, SMTT(30)
<1>2. W(a \o b) = W(a) \o W(b)
  <2> DEFINE M == Len(a)
             N == Len(b)
             t == a \o b
  <2>1. M \in Nat /\ N \in Nat
    OBVIOUS
  <2>2. /\ t \in Seq(Keys) /\ Len(t) = M + N
        /\ \A i \in 1..(M + N) : t[i] = IF i <= M THEN a[i] ELSE b[i - M]
    BY ConcatProperties, Zenon
  <2> DEFINE u == W(a)
             v == W(b)
             w == W(t)
  <2>3. /\ u \in Seq(Seq(Keys)) /\ Len(u) = M /\ v \in Seq(Seq(Keys)) /\ Len(v) = N
        /\ w \in Seq(Seq(Keys)) /\ Len(w) = M + N
    <3> HIDE DEF W, t
    <3> QED
      BY <1>1, <2>2, Zenon
  <2>4. /\ \A n \in 1..M : u[n] = IF a[n] \in Wanted THEN <<a[n]>> ELSE <<>>
        /\ \A n \in 1..N : v[n] = IF b[n] \in Wanted THEN <<b[n]>> ELSE <<>>
        /\ \A n \in 1..(M + N) : w[n] = IF t[n] \in Wanted THEN <<t[n]>> ELSE <<>>
    <3> HIDE DEF t
    <3> QED
      BY <2>2, Zenon
  <2> HIDE DEF u, v, w, M, N, t
  <2>5. /\ u \o v \in Seq(Seq(Keys)) /\ Len(u \o v) = M + N
        /\ \A i \in 1..(M + N) : (u \o v)[i] = IF i <= M THEN u[i] ELSE v[i - M]
    BY <2>3, ConcatProperties, Zenon
  <2> DEFINE x == u \o v
  <2> HIDE DEF x
  <2>6. ASSUME NEW i \in 1..(M + N) PROVE w[i] = x[i]
    <3>1. CASE i <= M
      <4>1. i \in 1..M
        BY <2>1, <3>1, SMTT(30)
      <4>2. t[i] = a[i] /\ x[i] = u[i]
        BY <2>2, <2>5, <3>1, Zenon DEF x
      <4> QED
        BY <2>4, <4>1, <4>2, Zenon
    <3>2. CASE ~(i <= M)
      <4>1. i - M \in 1..N
        BY <2>1, <3>2, SMTT(30)
      <4>2. t[i] = b[i - M] /\ x[i] = v[i - M]
        BY <2>2, <2>5, <3>2, Zenon DEF x
      <4> QED
        BY <2>4, <4>1, <4>2, Zenon
    <3> QED
      BY <3>1, <3>2, Zenon
  <2>7. x \in Seq(Seq(Keys)) /\ Len(x) = M + N
    BY <2>5, Zenon DEF x
  <2>8. w = x
    BY <2>3, <2>6, <2>7, SeqEqual, Zenon
  <2> QED
    BY <2>8, Zenon DEF u, v, w, x, t
<1>3. W(a) \in Seq(Seq(Keys)) /\ W(b) \in Seq(Seq(Keys))
  BY <1>1, Zenon
<1>4. /\ OnlyWanted(a) = FlattenSeq(W(a)) /\ OnlyWanted(b) = FlattenSeq(W(b))
      /\ OnlyWanted(a \o b) = FlattenSeq(W(a \o b))
  BY DEF OnlyWanted
<1> HIDE DEF W
<1>5. /\ FlattenSeq(W(a)) \in Seq(Keys)
      /\ FlattenSeq(W(a) \o W(b)) = FlattenSeq(W(a)) \o FlattenSeq(W(b))
  BY <1>3, FlattenJoin, SMTT(30)
<1> QED
  BY <1>2, <1>4, <1>5, Zenon

\* No keys, no wanted keys.
LEMMA OnlyWantedNone == OnlyWanted(<<>>) = <<>>
<1>1. [n \in 1..0 |-> IF <<>>[n] \in Wanted THEN <<<<>>[n]>> ELSE <<>>] = <<>>
  OBVIOUS
<1>2. FlattenSeq(<<>>) = <<>>
  BY DEF FlattenSeq
<1> QED
  BY <1>1, <1>2, Zenon DEF OnlyWanted

\* A sequence up to n is the one up to m, and the part behind it.
LEMMA Splits ==
  ASSUME NEW S, NEW s, NEW m, NEW n
  PROVE  s \in Seq(S) /\ m \in Nat /\ n \in Nat /\ m <= n /\ n <= Len(s)
         => /\ SubSeq(s, 1, m) \in Seq(S) /\ SubSeq(s, m + 1, n) \in Seq(S)
            /\ SubSeq(s, 1, n) = SubSeq(s, 1, m) \o SubSeq(s, m + 1, n)
<1>0. SUFFICES ASSUME s \in Seq(S) /\ m \in Nat /\ n \in Nat /\ m <= n /\ n <= Len(s)
               PROVE  /\ SubSeq(s, 1, m) \in Seq(S) /\ SubSeq(s, m + 1, n) \in Seq(S)
                      /\ SubSeq(s, 1, n) = SubSeq(s, 1, m) \o SubSeq(s, m + 1, n)
  OBVIOUS
<1> DEFINE a == SubSeq(s, 1, m)
           b == SubSeq(s, m + 1, n)
           c == SubSeq(s, 1, n)
<1>1. /\ Len(s) \in Nat /\ \A i \in 1..n : s[i] \in S
  BY <1>0, SMTT(30)
<1>2. a \in Seq(S) /\ Len(a) = m /\ \A i \in 1..m : a[i] = s[i]
  <2>1. \A i \in 1..m : s[i] \in S
    BY <1>0, <1>1, SMTT(30)
  <2>2. /\ a \in Seq(S) /\ Len(a) = (IF 1 <= m THEN m - 1 + 1 ELSE 0)
        /\ \A i \in 1..(m - 1 + 1) : a[i] = s[1 + i - 1]
    BY <1>0, <2>1, SubSeqProperties, SMTT(30)
  <2> HIDE DEF a
  <2> QED
    BY <1>0, <2>2, SMTT(30)
<1>3. c \in Seq(S) /\ Len(c) = n /\ \A i \in 1..n : c[i] = s[i]
  <2>2. /\ c \in Seq(S) /\ Len(c) = (IF 1 <= n THEN n - 1 + 1 ELSE 0)
        /\ \A i \in 1..(n - 1 + 1) : c[i] = s[1 + i - 1]
    BY <1>0, <1>1, SubSeqProperties, SMTT(30)
  <2> HIDE DEF c
  <2> QED
    BY <1>0, <2>2
<1>4. b \in Seq(S) /\ Len(b) = n - m /\ \A i \in 1..(n - m) : b[i] = s[m + i]
  <2>1. \A i \in (m + 1)..n : s[i] \in S
    BY <1>0, <1>1, SMTT(30)
  <2>2. /\ b \in Seq(S) /\ Len(b) = (IF m + 1 <= n THEN n - (m + 1) + 1 ELSE 0)
        /\ \A i \in 1..(n - (m + 1) + 1) : b[i] = s[(m + 1) + i - 1]
    BY <1>0, <2>1, SubSeqProperties, SMTT(30)
  <2> HIDE DEF b
  <2> QED
    BY <1>0, <2>2, SMTT(30)
<1> HIDE DEF a, b, c
<1>5. /\ a \o b \in Seq(S) /\ Len(a \o b) = Len(a) + Len(b)
      /\ \A i \in 1..(Len(a) + Len(b)) :
           (a \o b)[i] = IF i <= Len(a) THEN a[i] ELSE b[i - Len(a)]
  BY <1>2, <1>4, ConcatProperties, Zenon
<1> DEFINE d == a \o b
<1>6. /\ d \in Seq(S) /\ Len(d) = n
      /\ \A i \in 1..n : d[i] = IF i <= m THEN a[i] ELSE b[i - m]
  <2> HIDE DEF d
  <2>1. m + (n - m) = n
    BY <1>0, SMTT(30)
  <2> QED
    BY <1>2, <1>4, <1>5, <2>1, Zenon DEF d
<1> HIDE DEF d
<1>7. ASSUME NEW i \in 1..n PROVE c[i] = d[i]
  <2>1. CASE i <= m
    BY <1>0, <1>2, <1>3, <1>6, <2>1, SMTT(30)
  <2>2. CASE ~(i <= m)
    <3>1. i - m \in 1..(n - m) /\ m + (i - m) = i
      BY <1>0, <2>2, SMTT(30)
    <3> QED
      BY <1>3, <1>4, <1>6, <2>2, <3>1, Zenon
  <2> QED
    BY <2>1, <2>2, Zenon
<1>8. c = d
  BY <1>3, <1>6, <1>7, SeqEqual, Zenon
<1> QED
  BY <1>2, <1>4, <1>8, Zenon DEF a, b, c, d

\* What comes first of two sequences is a prefix of both together.
LEMMA FirstIsPrefix ==
  ASSUME NEW S, NEW a, NEW b
  PROVE  a \in Seq(S) /\ b \in Seq(S) => IsPrefix(a, a \o b)
<1>0. SUFFICES ASSUME a \in Seq(S) /\ b \in Seq(S) PROVE IsPrefix(a, a \o b)
  OBVIOUS
<1> DEFINE M == Len(a)
           d == a \o b
<1>1. M \in Nat /\ Len(b) \in Nat
  BY <1>0, SMTT(30)
<1>2. /\ d \in Seq(S) /\ Len(d) = M + Len(b)
      /\ \A i \in 1..(M + Len(b)) : d[i] = IF i <= M THEN a[i] ELSE b[i - M]
  BY <1>0, ConcatProperties, Zenon
<1> HIDE DEF d
<1>3. /\ M <= Len(d) /\ \A i \in 1..M : d[i] = a[i] /\ a[i] \in S
  <2>1. \A i \in 1..M : a[i] \in S
    BY <1>0
  <2> HIDE DEF M
  <2> QED
    BY <1>1, <1>2, <2>1, SMTT(30)
<1> HIDE DEF M
<1> DEFINE u == SubSeq(a, 1, M)
           v == SubSeq(d, 1, M)
<1>4. /\ u \in Seq(S) /\ Len(u) = (IF 1 <= M THEN M - 1 + 1 ELSE 0)
      /\ \A i \in 1..(M - 1 + 1) : u[i] = a[1 + i - 1]
  BY <1>1, <1>3, SubSeqProperties, SMTT(30)
<1>5. /\ v \in Seq(S) /\ Len(v) = (IF 1 <= M THEN M - 1 + 1 ELSE 0)
      /\ \A i \in 1..(M - 1 + 1) : v[i] = d[1 + i - 1]
  BY <1>1, <1>3, SubSeqProperties, SMTT(30)
<1> HIDE DEF u, v
<1>6. Len(u) = M /\ Len(v) = M /\ \A i \in 1..M : u[i] = v[i]
  BY <1>1, <1>3, <1>4, <1>5, SMTT(30)
<1>7. u = v
  BY <1>4, <1>5, <1>6, SeqEqual, Zenon
<1> QED
  BY <1>3, <1>7, Zenon DEF IsPrefix, u, v, d, M

\* The content of the shards, and what its parts hold.
LEMMA BeforeIs ==
  ASSUME NEW i \in 0..(NumShards - 1)
  PROVE  /\ ShardKeys(i) \in Seq(Keys)
         /\ Before(i) \in Seq(Keys) /\ Before(i + 1) \in Seq(Keys)
         /\ Before(i + 1) = Before(i) \o ShardKeys(i)
<1> DEFINE a == SubSeq(Content, 1, i)
           b == SubSeq(Content, i + 1, i + 1)
           x == ShardKeys(i)
<1>1. NumShards \in Nat /\ i \in Nat /\ i + 1 \in 1..NumShards
  <2>1. NumShards \in Nat
    BY ScanAssumption, SMTT(30) DEF NumShards
  <2> QED
    BY <2>1, SMTT(30)
<1>2. x \in Seq(Keys)
  BY <1>1, ScanAssumption, SMTT(30) DEF NumShards, ShardKeys
<1>3. /\ a \in Seq(Seq(Keys)) /\ b \in Seq(Seq(Keys))
      /\ SubSeq(Content, 1, i + 1) = a \o b
  <2>1. /\ Content \in Seq(Seq(Keys)) /\ i \in Nat /\ i + 1 \in Nat /\ i <= i + 1
        /\ i + 1 <= Len(Content)
    BY <1>1, ScanAssumption, SMTT(30) DEF NumShards
  <2> QED
    BY <2>1, Splits, SMTT(30)
<1>4. b = <<x>>
  <2>1. \A k \in (i + 1)..(i + 1) : Content[k] \in Seq(Keys)
    BY <1>1, ScanAssumption, SMTT(30) DEF NumShards
  <2>2. i + 1 \in Int
    BY <1>1, SMTT(30)
  <2>3. /\ b \in Seq(Seq(Keys))
        /\ Len(b) = (IF i + 1 <= i + 1 THEN (i + 1) - (i + 1) + 1 ELSE 0)
        /\ \A k \in 1..((i + 1) - (i + 1) + 1) : b[k] = Content[(i + 1) + k - 1]
    BY <2>1, <2>2, SubSeqProperties, SMTT(30)
  <2> HIDE DEF b
  <2>4. Len(b) = 1 /\ b[1] = Content[i + 1]
    BY <1>1, <2>3, SMTT(30)
  <2>5. /\ <<x>> \in Seq(Seq(Keys)) /\ Len(<<x>>) = 1 /\ <<x>>[1] = x
    <3> HIDE DEF x
    <3> QED
      BY <1>2
  <2>6. b[1] = x
    BY <2>4, Zenon DEF ShardKeys
  <2> HIDE DEF x
  <2> QED
    BY <2>3, <2>4, <2>5, <2>6, SeqEqual, SMTT(30)
<1>5. FlattenSeq(<<x>>) = x
  <2> HIDE DEF x
  <2> QED
    BY <1>2, FlattenOne, Zenon
<1> HIDE DEF a, b, x
<1>6. /\ FlattenSeq(a) \in Seq(Keys)
      /\ FlattenSeq(a \o b) = FlattenSeq(a) \o FlattenSeq(b)
  BY <1>3, FlattenJoin, SMTT(30)
<1>7. FlattenSeq(a) \o x \in Seq(Keys)
  BY <1>2, <1>6, ConcatProperties, Zenon
<1> QED
  BY <1>2, <1>3, <1>4, <1>5, <1>6, <1>7, Zenon DEF Before, a, x

\* Nothing comes before the first shard, and everything before the end.
LEMMA BeforeEnds ==
  /\ Before(0) = <<>>
  /\ Before(NumShards) = FlattenSeq(Content)
<1>1. SubSeq(Content, 1, 0) = <<>>
  BY SubSeqEmpty, SMTT(30)
<1>2. <<>> \in Seq(Keys)
  OBVIOUS
<1>3. FlattenSeq(<<>>) = <<>>
  BY <1>2, FlattenOne, Zenon
<1>4. SubSeq(Content, 1, NumShards) = Content
  BY ScanAssumption, SubSeqFull, Zenon DEF NumShards
<1> QED
  BY <1>1, <1>3, <1>4, Zenon DEF Before

\* What a shard looks at extends what was walked.
LEMMA WalkOn ==
  ASSUME NEW i, NEW c, Place(i, c), NEW n \in 0..(Len(ShardKeys(i)) - c)
  PROVE  /\ Place(i, c + n)
         /\ Walked(i, c) \in Seq(Keys)
         /\ SubSeq(ShardKeys(i), c + 1, c + n) \in Seq(Keys)
         /\ Walked(i, c + n) = Walked(i, c) \o SubSeq(ShardKeys(i), c + 1, c + n)
<1> DEFINE all == ShardKeys(i)
<1>1. i \in 0..(NumShards - 1) /\ c \in 0..Len(all)
  BY DEF Place
<1>2. all \in Seq(Keys) /\ Before(i) \in Seq(Keys)
  BY <1>1, BeforeIs, Zenon
<1>3. Len(all) \in Nat
  <2> HIDE DEF all
  <2> QED
    BY <1>2, SMTT(30)
<1>4. c + n \in 0..Len(all) /\ c \in Nat /\ c + n \in Nat /\ c <= c + n /\ c + n <= Len(all)
  <2> HIDE DEF all
  <2>1. n \in 0..(Len(all) - c)
    BY DEF all
  <2> QED
    BY <1>1, <1>3, <2>1, SMTT(30)
<1> DEFINE a == SubSeq(all, 1, c)
           b == SubSeq(all, c + 1, c + n)
<1>5. a \in Seq(Keys) /\ b \in Seq(Keys) /\ SubSeq(all, 1, c + n) = a \o b
  BY <1>2, <1>4, Splits, SMTT(30)
<1>6. Place(i, c + n)
  BY <1>1, <1>4 DEF Place
<1> DEFINE w == Before(i)
<1>7. /\ Walked(i, c) = w \o a /\ Walked(i, c + n) = w \o SubSeq(all, 1, c + n)
  BY DEF Walked
<1> HIDE DEF a, b, w
<1>8. w \in Seq(Keys)
  BY <1>2, Zenon DEF w
<1>9. w \o a \in Seq(Keys)
  BY <1>5, <1>8, ConcatProperties, Zenon
<1>10. (w \o a) \o b = w \o (a \o b)
  <2>1. Associates(w, a, b)
    BY <1>5, <1>8, JoinJoin, Zenon
  <2> QED
    BY <2>1 DEF Associates
<1> QED
  BY <1>5, <1>6, <1>7, <1>9, <1>10, Zenon DEF b

\* The end of a shard is the start of the next.
LEMMA WalkShard ==
  ASSUME NEW i \in 0..(NumShards - 1)
  PROVE  /\ Place(i, 0) /\ Walked(i, 0) = Before(i)
         /\ Walked(i, Len(ShardKeys(i))) = Before(i + 1)
<1> DEFINE all == ShardKeys(i)
<1>1. all \in Seq(Keys) /\ Before(i) \in Seq(Keys) /\ Before(i + 1) = Before(i) \o all
  BY BeforeIs, Zenon
<1> HIDE DEF all
<1>2. Len(all) \in Nat /\ SubSeq(all, 1, Len(all)) = all
  BY <1>1, SubSeqFull, SMTT(30)
<1>3. SubSeq(all, 1, 0) = <<>>
  BY SubSeqEmpty, SMTT(30)
<1>4. Before(i) \o <<>> = Before(i)
  BY <1>1, ConcatEmptySeq, Zenon
<1>5. 0 \in 0..Len(all)
  BY <1>2
<1> QED
  BY <1>1, <1>2, <1>3, <1>4, <1>5, Zenon DEF Walked, Place, all

\* The wanted keys before a cursor are the first of all wanted keys.
LEMMA WalkPrefix ==
  ASSUME NEW i, NEW c, Place(i, c)
  PROVE  /\ OnlyWanted(Walked(i, c)) \in Seq(Keys)
         /\ IsPrefix(OnlyWanted(Walked(i, c)), Expected)
<1> DEFINE L == Len(ShardKeys(i))
           w == Walked(i, c)
           r == SubSeq(ShardKeys(i), c + 1, c + (L - c))
           a == SubSeq(Content, 1, i + 1)
           b == SubSeq(Content, (i + 1) + 1, NumShards)
           q == FlattenSeq(b)
<1>1. i \in 0..(NumShards - 1) /\ c \in 0..L
  BY DEF Place
<1>2. ShardKeys(i) \in Seq(Keys)
  BY <1>1, BeforeIs, Zenon
<1>3. L \in Nat
  BY <1>2, SMTT(30)
<1>4. L - c \in 0..(L - c) /\ c + (L - c) = L
  <2> HIDE DEF L
  <2> QED
    BY <1>1, <1>3, SMTT(30)
<1>5. w \in Seq(Keys) /\ r \in Seq(Keys) /\ Walked(i, L) = w \o r
  <2>1. /\ Walked(i, c) \in Seq(Keys) /\ r \in Seq(Keys)
        /\ Walked(i, c + (L - c)) = Walked(i, c) \o r
    BY <1>4, WalkOn, Zenon
  <2> QED
    BY <1>4, <2>1, Zenon
<1>6. Walked(i, L) = FlattenSeq(a)
  BY <1>1, WalkShard, Zenon DEF Before
<1>7. a \in Seq(Seq(Keys)) /\ b \in Seq(Seq(Keys)) /\ Content = a \o b
  <2>1. NumShards \in Nat /\ NumShards = Len(Content)
    BY ScanAssumption, SMTT(30) DEF NumShards
  <2>2. i + 1 \in Nat /\ i + 1 <= NumShards /\ NumShards <= Len(Content)
    BY <1>1, <2>1, SMTT(30)
  <2>3. /\ a \in Seq(Seq(Keys)) /\ b \in Seq(Seq(Keys))
        /\ SubSeq(Content, 1, NumShards) = a \o b
    <3> DEFINE k == i + 1
    <3>1. /\ Content \in Seq(Seq(Keys)) /\ k \in Nat /\ NumShards \in Nat
          /\ k <= NumShards /\ NumShards <= Len(Content)
      BY <2>1, <2>2, ScanAssumption, Zenon
    <3> HIDE DEF k
    <3>2. /\ SubSeq(Content, 1, k) \in Seq(Seq(Keys))
          /\ SubSeq(Content, k + 1, NumShards) \in Seq(Seq(Keys))
          /\ SubSeq(Content, 1, NumShards)
               = SubSeq(Content, 1, k) \o SubSeq(Content, k + 1, NumShards)
      BY <3>1, Splits, SMTT(30)
    <3> QED
      BY <3>2, Zenon DEF a, b, k
  <2>4. SubSeq(Content, 1, NumShards) = Content
    BY ScanAssumption, SubSeqFull, Zenon DEF NumShards
  <2> QED
    BY <2>3, <2>4, Zenon
<1> HIDE DEF a, b, w, r, L
<1>8. /\ q \in Seq(Keys) /\ FlattenSeq(Content) = FlattenSeq(a) \o q
  BY <1>7, FlattenJoin, SMTT(30)
<1> HIDE DEF q
<1>9. FlattenSeq(Content) = w \o (r \o q)
  <2>1. Associates(w, r, q)
    BY <1>5, <1>8, JoinJoin, Zenon
  <2> QED
    BY <1>5, <1>6, <1>8, <2>1, Zenon DEF Associates
<1>10. r \o q \in Seq(Keys)
  BY <1>5, <1>8, ConcatProperties, Zenon
<1> DEFINE t == r \o q
<1> HIDE DEF t
<1>11. /\ OnlyWanted(w) \in Seq(Keys) /\ OnlyWanted(t) \in Seq(Keys)
       /\ OnlyWanted(w \o t) = OnlyWanted(w) \o OnlyWanted(t)
  <2>1. t \in Seq(Keys)
    BY <1>10, Zenon DEF t
  <2> QED
    BY <1>5, <2>1, OnlyWantedJoin, Zenon
<1>12. Expected = OnlyWanted(w) \o OnlyWanted(t)
  BY <1>9, <1>11, Zenon DEF Expected, t
<1>13. IsPrefix(OnlyWanted(w), OnlyWanted(w) \o OnlyWanted(t))
  BY <1>11, FirstIsPrefix, Zenon
<1> QED
  BY <1>11, <1>12, <1>13, Zenon DEF w

\* Everything walked is everything expected.
LEMMA WalkEnd ==
  /\ OnlyWanted(Before(NumShards)) = Expected
  /\ Place(0, 0) /\ OnlyWanted(Walked(0, 0)) = <<>>
<1>1. OnlyWanted(Before(NumShards)) = Expected
  BY BeforeEnds DEF Expected
<1>2. 0 \in 0..(NumShards - 1)
  <2>1. NumShards \in Nat /\ NumShards > 0
    BY ScanAssumption DEF NumShards
  <2> QED
    BY <2>1
<1>3. Place(0, 0) /\ Walked(0, 0) = <<>>
  BY <1>2, WalkShard, BeforeEnds, Zenon
<1> QED
  BY <1>1, <1>3, OnlyWantedNone, Zenon

\* What a shard's answer adds to the page.
LEMMA ReplyAdds ==
  ASSUME InPage, seen \in Seq(Keys), NEW r \in Replies
  PROVE  /\ keys \o r.keys \in Seq(Keys) /\ Len(keys \o r.keys) <= count
         /\ seen \o (keys \o r.keys) \in Seq(Keys)
         /\ r.cursor # ScanCursorInitial =>
              /\ Place(shardIndex, r.cursor)
              /\ seen \o (keys \o r.keys) = OnlyWanted(Walked(shardIndex, r.cursor))
         /\ r.cursor = ScanCursorInitial =>
              seen \o (keys \o r.keys) = OnlyWanted(Before(shardIndex + 1))
<1> DEFINE i == shardIndex
           c == shardCursor
           all == ShardKeys(i)
<1>1. PICK n \in 0..(Len(all) - c) :
        /\ r = Reply(n) /\ Len(r.keys) <= Remaining
        /\ r.cursor # c \/ Len(all) - c = 0
  BY DEF Replies
<1> DEFINE b == SubSeq(all, c + 1, c + n)
           w == Walked(i, c)
<1>2. /\ r.keys = OnlyWanted(b)
      /\ r.cursor = IF c + n = Len(all) THEN 0 ELSE c + n
  BY <1>1, Zenon DEF Reply, ScanCursorInitial
<1>3. i \in 0..(NumShards - 1) /\ c \in 0..Len(all) /\ Place(i, c)
  BY DEF InPage, Place
<1>4. /\ Place(i, c + n) /\ w \in Seq(Keys) /\ b \in Seq(Keys)
      /\ Walked(i, c + n) = w \o b
  BY <1>3, WalkOn, Zenon
<1>5. Len(all) \in Nat /\ c \in Nat /\ n \in Nat
  <2>1. all \in Seq(Keys)
    BY <1>3, BeforeIs, Zenon
  <2>2. Len(all) \in Nat
    BY <2>1, SMTT(30)
  <2> HIDE DEF all, c
  <2> QED
    BY <1>3, <2>2, SMTT(30)
<1>6. /\ keys \in Seq(Keys) /\ count \in Nat /\ Len(keys) <= count
      /\ seen \o keys = OnlyWanted(w)
  BY DEF InPage
<1> HIDE DEF all, b, w
<1>7. /\ OnlyWanted(w) \in Seq(Keys) /\ r.keys \in Seq(Keys)
      /\ OnlyWanted(Walked(i, c + n)) = OnlyWanted(w) \o r.keys
  <2>1. OnlyWanted(w) \in Seq(Keys) /\ OnlyWanted(w \o b) = OnlyWanted(w) \o OnlyWanted(b)
    BY <1>4, OnlyWantedJoin, Zenon
  <2>2. OnlyWanted(b) \in Seq(Keys)
    BY <1>4, OnlyWantedJoin, Zenon
  <2> QED
    BY <1>2, <1>4, <2>1, <2>2, Zenon
<1> DEFINE rk == r.keys
<1> HIDE DEF rk, i, c
<1>8. seen \o (keys \o rk) = OnlyWanted(Walked(i, c + n))
  <2>1. rk \in Seq(Keys)
    BY <1>7, Zenon DEF rk
  <2>2. Associates(seen, keys, rk)
    BY <1>6, <2>1, JoinJoin, Zenon
  <2> QED
    BY <1>6, <1>7, <2>2, Zenon DEF Associates, rk
<1>9. /\ keys \o rk \in Seq(Keys) /\ Len(keys \o rk) = Len(keys) + Len(rk)
      /\ seen \o (keys \o rk) \in Seq(Keys)
  <2>1. rk \in Seq(Keys)
    BY <1>7 DEF rk
  <2>2. keys \o rk \in Seq(Keys) /\ Len(keys \o rk) = Len(keys) + Len(rk)
    BY <1>6, <2>1, ConcatProperties, Zenon
  <2> DEFINE x == keys \o rk
  <2> HIDE DEF x
  <2>3. seen \o x \in Seq(Keys)
    BY <2>2, ConcatProperties, Zenon DEF x
  <2> QED
    BY <2>2, <2>3, Zenon DEF x
<1>10. Len(keys) + Len(rk) <= count
  <2>1. Len(keys) \in Nat /\ Len(rk) \in Nat
    BY <1>6, <1>7, SMTT(30) DEF rk
  <2>2. Len(rk) <= count - Len(keys)
    BY <1>1, Zenon DEF Remaining, rk
  <2> QED
    BY <1>6, <2>1, <2>2, SMTT(30)
<1>11. CASE c + n = Len(all)
  <2>1. r.cursor = ScanCursorInitial
    BY <1>2, <1>11, Zenon DEF ScanCursorInitial
  <2>2. Walked(i, c + n) = Before(i + 1)
    BY <1>3, <1>11, WalkShard, Zenon DEF all
  <2> QED
    BY <1>8, <1>9, <1>10, <2>1, <2>2, Zenon DEF rk, i
<1>12. CASE c + n # Len(all)
  <2>1. r.cursor = c + n
    BY <1>2, <1>12, Zenon
  <2>2. r.cursor # 0
    <3>1. SUFFICES ASSUME c + n = 0 PROVE FALSE
      BY <2>1
    <3>2. c = 0
      BY <1>5, <3>1, SMTT(30)
    <3>3. Len(all) - c = 0
      BY <1>1, <2>1, <3>1, <3>2, Zenon DEF all, c, i
    <3> QED
      BY <1>5, <1>12, <3>1, <3>2, <3>3, SMTT(30)
  <2> QED
    BY <1>4, <1>8, <1>9, <1>10, <2>1, <2>2, Zenon DEF rk, i, ScanCursorInitial
<1> QED
  BY <1>11, <1>12, Zenon

-----------------------------------------------------------------------------
(***************************************************************************)
(* The cursor conversions.                                                 *)
(***************************************************************************)
\* parseScanCursor reads back what makeScanCursor wrote.
LEMMA CursorReadsBack ==
  ASSUME NEW i, NEW c, Place(i, c)
  PROVE  /\ makeScanCursor(i, c) = <<i, c>> /\ <<i, c>> # Initial
         /\ parseScanCursor(<<i, c>>) = Parsed(i, c)
<1>1. NumShards \in Nat
  BY ScanAssumption, SMTT(30) DEF NumShards
<1>2. i \in 0..(NumShards - 1) /\ ~(i >= NumShards)
  BY <1>1, SMTT(30) DEF Place
<1>3. c # NoCursor
  <2>1. ShardKeys(i) \in Seq(Keys)
    BY <1>2, BeforeIs, Zenon
  <2>2. Len(ShardKeys(i)) \in Nat
    BY <2>1, SMTT(30)
  <2>3. c \in Nat
    BY <2>2, SMTT(30) DEF Place
  <2> QED
    BY <2>3 DEF NoCursor
<1> DEFINE cur == <<i, c>>
<1>4. Len(cur) = 2 /\ cur[1] = i /\ cur[2] = c
  OBVIOUS
<1>5. Len(<<>>) = 0 /\ Len(Initial) = 1
  BY DEF Initial
<1> HIDE DEF cur
<1>6. cur # <<>> /\ cur # Initial
  BY <1>4, <1>5, SMTT(30)
<1>7. cur[Len(cur)] # NoCursor /\ ~(Len(cur) # 2)
  BY <1>3, <1>4, Zenon
<1>8. parseScanCursor(cur) = Parsed(i, c)
  BY <1>2, <1>4, <1>6, <1>7, Zenon DEF parseScanCursor
<1>9. makeScanCursor(i, c) = cur
  BY <1>2, Zenon DEF makeScanCursor, cur
<1> QED
  BY <1>6, <1>8, <1>9, Zenon DEF cur

\* Both cursors a walk starts with stand for the start of the first shard.
LEMMA CursorStarts ==
  /\ parseScanCursor(<<>>) = Parsed(0, 0)
  /\ parseScanCursor(Initial) = Parsed(0, 0)
BY DEF parseScanCursor, ScanCursorInitial

-----------------------------------------------------------------------------
(***************************************************************************)
(* Every step keeps the invariant.                                         *)
(***************************************************************************)
\* A caller with no keys yet, at the start, can go on.
LEMMA InitHolds == Init => ScanInv
<1> SUFFICES ASSUME Init PROVE ScanInv
  OBVIOUS
<1>1. parseScanCursor(cursor) = Parsed(0, 0) /\ seen = <<>>
  BY CursorStarts, Zenon DEF Init
<1>2. Place(0, 0) /\ seen = OnlyWanted(Walked(0, 0))
  BY <1>1, WalkEnd, Zenon
<1>3. 0 \in 0..(NumShards - 1) /\ 0 \in 0..Len(ShardKeys(0))
  BY <1>2, Zenon DEF Place
<1>4. Resumable
  BY <1>1, <1>2, <1>3, Zenon DEF Resumable
<1>5. page \in [len : Nat, count : Nat] /\ page.len <= page.count
  BY DEF Init
<1>6. pc = "idle" /\ seen \in Seq(Keys)
  BY <1>1, SMTT(30) DEF Init
<1> QED
  BY <1>4, <1>5, <1>6, Zenon DEF ScanInv

\* A page that ends inside the shards leaves a cursor to go on from.
LEMMA PageResumes ==
  ASSUME NEW i, NEW c, Place(i, c), NEW ks \in Seq(Keys),
         ReturnPage(ks, makeScanCursor(i, c)),
         seen \o ks = OnlyWanted(Walked(i, c)), seen \o ks \in Seq(Keys),
         count \in Nat, Len(ks) <= count
  PROVE  ScanInv'
<1>1. /\ makeScanCursor(i, c) = <<i, c>> /\ <<i, c>> # Initial
      /\ parseScanCursor(<<i, c>>) = Parsed(i, c)
  BY CursorReadsBack, Zenon
<1>2. /\ seen' = seen \o ks /\ page' = [len |-> Len(ks), count |-> count]
      /\ cursor' = <<i, c>> /\ pc' = "idle"
  BY <1>1, Zenon DEF ReturnPage
<1>3. i \in 0..(NumShards - 1) /\ c \in 0..Len(ShardKeys(i))
  BY Zenon DEF Place
<1>4. parseScanCursor(cursor') = Parsed(i, c) /\ seen' = OnlyWanted(Walked(i, c))
  BY <1>1, <1>2, Zenon
<1>5. Resumable'
  BY <1>3, <1>4, Zenon DEF Resumable, parseScanCursor, OnlyWanted, Walked
<1>6. page' \in [len : Nat, count : Nat] /\ page'.len <= page'.count
  <2>1. Len(ks) \in Nat
    OBVIOUS
  <2> QED
    BY <1>2, <2>1, Zenon
<1>7. seen' \in Seq(Keys)
  BY <1>2, Zenon
<1> QED
  BY <1>2, <1>5, <1>6, <1>7, Zenon DEF ScanInv

\* A page that ends with the last shard ends the walk.
LEMMA PageEnds ==
  ASSUME NEW ks \in Seq(Keys), ReturnPage(ks, Initial),
         IsPrefix(seen \o ks, Expected), seen \o ks \in Seq(Keys),
         count \in Nat, Len(ks) <= count, count > 0 => seen \o ks = Expected
  PROVE  ScanInv'
<1>1. /\ seen' = seen \o ks /\ page' = [len |-> Len(ks), count |-> count]
      /\ cursor' = Initial /\ pc' = "done"
  BY DEF ReturnPage
<1>2. page' \in [len : Nat, count : Nat] /\ page'.len <= page'.count
  <2>1. Len(ks) \in Nat
    OBVIOUS
  <2> QED
    BY <1>1, <2>1, Zenon
<1>3. /\ seen' \in Seq(Keys) /\ IsPrefix(seen', Expected)
      /\ page'.count > 0 => seen' = Expected
  BY <1>1, Zenon
<1> QED
  BY <1>1, <1>2, <1>3, Zenon DEF ScanInv

\* What the caller sees does not change while a page is collected.
LEMMA StillResumable ==
  ASSUME Resumable, cursor' = cursor, seen' = seen PROVE Resumable'
BY Zenon DEF Resumable, parseScanCursor, OnlyWanted, Walked

LEMMA StillStray ==
  ASSUME Stray, cursor' = cursor, seen' = seen, page' = page PROVE Stray'
BY Zenon DEF Stray, parseScanCursor

\* What a caller that can go on has seen is the start of what it should see.
LEMMA ResumablePrefix ==
  ASSUME Resumable PROVE IsPrefix(seen, Expected) /\ parseScanCursor(cursor).ok
<1>1. PICK i \in 0..(NumShards - 1) : \E c \in 0..Len(ShardKeys(i)) :
        /\ parseScanCursor(cursor) = Parsed(i, c)
        /\ seen = OnlyWanted(Walked(i, c))
  BY Zenon DEF Resumable
<1>2. PICK c \in 0..Len(ShardKeys(i)) :
        /\ parseScanCursor(cursor) = Parsed(i, c)
        /\ seen = OnlyWanted(Walked(i, c))
  BY <1>1, Zenon
<1>3. Place(i, c)
  BY DEF Place
<1>4. IsPrefix(seen, Expected)
  BY <1>2, <1>3, WalkPrefix, Zenon
<1>5. parseScanCursor(cursor).ok
  BY <1>2, SMTT(30) DEF Parsed
<1> QED
  BY <1>4, <1>5, Zenon

\* Call resumes where the cursor it is given stands.
LEMMA CallKeeps ==
  ASSUME ScanInv, Call PROVE ScanInv'
<1>1. /\ pc = "idle" /\ pc' = "loop" /\ keys' = <<>>
      /\ cursor' = cursor /\ seen' = seen /\ page' = page
  BY DEF Call
<1>2. count' \in Nat
  BY ScanAssumption, Zenon DEF Call
<1>3. Resumable /\ seen \in Seq(Keys)
  <2>1. parseScanCursor(cursor).ok
    BY Zenon DEF Call
  <2> QED
    BY <1>1, <2>1, Zenon DEF ScanInv, Stray
<1>4. Resumable'
  BY <1>1, <1>3, StillResumable, Zenon
<1>5. PICK i \in 0..(NumShards - 1) : \E c \in 0..Len(ShardKeys(i)) :
        /\ parseScanCursor(cursor) = Parsed(i, c)
        /\ seen = OnlyWanted(Walked(i, c))
  BY <1>3, Zenon DEF Resumable
<1>6. PICK c \in 0..Len(ShardKeys(i)) :
        /\ parseScanCursor(cursor) = Parsed(i, c)
        /\ seen = OnlyWanted(Walked(i, c))
  BY <1>5, Zenon
<1>7. shardIndex' = i /\ shardCursor' = c
  BY <1>6, SMTT(30) DEF Call, Parsed
<1>8. Place(shardIndex', shardCursor') /\ seen' = OnlyWanted(Walked(shardIndex', shardCursor'))
  BY <1>1, <1>6, <1>7, Zenon DEF Place
<1>9. seen' \o keys' = seen'
  <2>1. seen \o <<>> = seen
    BY <1>3, ConcatEmptySeq, Zenon
  <2> QED
    BY <1>1, <2>1, Zenon
<1>10. keys' \in Seq(Keys) /\ Len(keys') <= count'
  BY <1>1, <1>2, SMTT(30)
<1>11. InPage'
  BY <1>2, <1>8, <1>9, <1>10, Zenon
     DEF InPage, Place, OnlyWanted, Walked, Before, ShardKeys, NumShards
<1> QED
  BY <1>1, <1>4, <1>11, Zenon DEF ScanInv

\* A call with count 0 keeps the caller's cursor until it is answered.
LEMMA CallZeroKeeps ==
  ASSUME ScanInv, CallZero PROVE ScanInv'
<1>1. /\ pc = "idle" /\ pc' = "zero" /\ count' = 0
      /\ cursor' = cursor /\ seen' = seen /\ page' = page
      /\ shardIndex' = 0 /\ shardCursor' = 0
  BY DEF CallZero, ScanCursorInitial
<1>2. Resumable \/ Stray
  BY <1>1, Zenon DEF ScanInv
<1>3. Resumable' \/ Stray'
  BY <1>1, <1>2, StillResumable, StillStray, Zenon
<1> QED
  BY <1>1, <1>3, Zenon DEF ScanInv

\* A failed command, or a refused cursor, leaves the caller where it was.
LEMMA ErrorKeeps ==
  ASSUME ScanInv, ScanShardError \/ CallRefused PROVE ScanInv'
<1>1. /\ pc \in {"idle", "loop", "zero"} /\ pc' = "idle"
      /\ cursor' = cursor /\ seen' = seen /\ page' = page
  BY DEF ScanShardError, CallRefused
<1>2. Resumable \/ Stray
  BY <1>1, Zenon DEF ScanInv
<1>3. Resumable' \/ Stray'
  BY <1>1, <1>2, StillResumable, StillStray, Zenon
<1> QED
  BY <1>1, <1>3, Zenon DEF ScanInv

\* A page that ends inside a shard.
LEMMA ScanShardPartKeeps ==
  ASSUME ScanInv, ScanShardPart PROVE ScanInv'
<1>1. InPage /\ seen \in Seq(Keys)
  BY DEF ScanInv, ScanShardPart
<1>2. PICK r \in Replies :
        /\ r.cursor # ScanCursorInitial /\ keys' = keys \o r.keys
        /\ ReturnPage(keys', makeScanCursor(shardIndex, r.cursor))
  BY DEF ScanShardPart
<1>3. /\ keys' \in Seq(Keys) /\ Len(keys') <= count
      /\ seen \o keys' \in Seq(Keys) /\ Place(shardIndex, r.cursor)
      /\ seen \o keys' = OnlyWanted(Walked(shardIndex, r.cursor))
  BY <1>1, <1>2, ReplyAdds, Zenon
<1>4. count \in Nat
  BY <1>1, Zenon DEF InPage
<1> QED
  BY <1>2, <1>3, <1>4, PageResumes, Zenon

\* A shard that ends: in the page, with the page, or with the walk.
LEMMA ScanShardEndKeeps ==
  ASSUME ScanInv, ScanShardEnd PROVE ScanInv'
<1>1. InPage /\ seen \in Seq(Keys) /\ Resumable /\ pc = "loop"
  BY Zenon DEF ScanInv, ScanShardEnd
<1>2. PICK r \in Replies : r.cursor = ScanCursorInitial /\ keys' = keys \o r.keys
  BY Zenon DEF ScanShardEnd
<1>3. /\ keys' \in Seq(Keys) /\ Len(keys') <= count
      /\ seen \o keys' \in Seq(Keys)
      /\ seen \o keys' = OnlyWanted(Before(shardIndex + 1))
  BY <1>1, <1>2, ReplyAdds, Zenon
<1>4. /\ shardIndex' = shardIndex + 1 /\ shardCursor' = 0 /\ count' = count
      /\ IF More(shardIndex + 1, keys')
         THEN pc' = pc /\ cursor' = cursor /\ seen' = seen /\ page' = page
         ELSE ReturnPage(keys', makeScanCursor(shardIndex + 1, 0))
  BY Zenon DEF ScanShardEnd, ScanCursorInitial
<1>5. /\ count \in Nat /\ NumShards \in Nat /\ shardIndex \in 0..(NumShards - 1)
  BY <1>1, ScanAssumption, SMTT(30) DEF InPage, Place, NumShards
<1>6. CASE shardIndex + 1 < NumShards
  <2> DEFINE j == shardIndex + 1
  <2>1. j \in 0..(NumShards - 1)
    BY <1>5, <1>6, SMTT(30)
  <2> HIDE DEF j
  <2>2. Place(j, 0) /\ Walked(j, 0) = Before(j)
    BY <2>1, WalkShard, Zenon
  <2>3. seen \o keys' = OnlyWanted(Walked(j, 0))
    BY <1>3, <2>2, Zenon DEF j
  <2>4. CASE More(j, keys')
    <3>1. pc' = pc /\ cursor' = cursor /\ seen' = seen /\ page' = page
      BY <1>4, <2>4, Zenon DEF j
    <3>2. Resumable'
      BY <1>1, <3>1, StillResumable, Zenon
    <3>3. shardIndex' = j /\ shardCursor' = 0
      BY <1>4, Zenon DEF j
    <3>4. /\ Place(shardIndex', shardCursor')
          /\ seen' \o keys' = OnlyWanted(Walked(shardIndex', shardCursor'))
      BY <2>2, <2>3, <3>1, <3>3, Zenon
    <3>5. InPage'
      BY <1>3, <1>4, <1>5, <3>4, Zenon
         DEF InPage, Place, OnlyWanted, Walked, Before, ShardKeys, NumShards
    <3> QED
      BY <1>1, <3>1, <3>2, <3>5, Zenon DEF ScanInv
  <2>5. CASE ~More(j, keys')
    <3>1. ReturnPage(keys', makeScanCursor(j, 0))
      BY <1>4, <2>5, Zenon DEF j
    <3> QED
      BY <1>3, <1>5, <2>2, <2>3, <3>1, PageResumes, Zenon
  <2> QED
    BY <2>4, <2>5, Zenon
<1>7. CASE ~(shardIndex + 1 < NumShards)
  <2>1. shardIndex + 1 = NumShards /\ shardIndex + 1 >= NumShards
    BY <1>5, <1>7, SMTT(30)
  <2>2. ReturnPage(keys', Initial)
    BY <1>4, <1>7, <2>1, Zenon DEF More, makeScanCursor
  <2>3. seen \o keys' = Expected
    BY <1>3, <2>1, WalkEnd, Zenon
  <2>4. Place(shardIndex, Len(ShardKeys(shardIndex)))
    <3>1. ShardKeys(shardIndex) \in Seq(Keys)
      BY <1>5, BeforeIs, Zenon
    <3>2. Len(ShardKeys(shardIndex)) \in Nat
      BY <3>1, SMTT(30)
    <3> QED
      BY <1>5, <3>2, SMTT(30) DEF Place
  <2>5. IsPrefix(Expected, Expected)
    <3>1. OnlyWanted(Walked(shardIndex, Len(ShardKeys(shardIndex)))) = Expected
      BY <1>5, <2>1, WalkShard, WalkEnd, Zenon
    <3> QED
      BY <2>4, <3>1, WalkPrefix, Zenon
  <2> QED
    BY <1>3, <1>5, <2>2, <2>3, <2>5, PageEnds, Zenon
<1> QED
  BY <1>6, <1>7, Zenon

\* The answer to a count of 0 holds no keys; it ends the walk, or leaves the
\* caller with a cursor of the first shard.
LEMMA ScanZeroKeeps ==
  ASSUME ScanInv, ScanZero PROVE ScanInv'
<1>1. /\ Resumable \/ Stray
      /\ seen \in Seq(Keys) /\ count = 0
  BY Zenon DEF ScanInv, ScanZero
<1>2. PICK c \in 0..Len(ShardKeys(0)) : ReturnPage(<<>>, <<c>>)
  BY Zenon DEF ScanZero
<1>3. seen \o <<>> = seen
  BY <1>1, ConcatEmptySeq, Zenon
<1>4. IsPrefix(seen, Expected)
  BY <1>1, ResumablePrefix, Zenon DEF Stray
<1>5. <<>> \in Seq(Keys) /\ Len(<<>>) = 0 /\ 0 <= 0 /\ 0 \in Nat /\ ~(0 > 0)
  BY SMTT(30)
<1>6. CASE c = 0
  <2>1. ReturnPage(<<>>, Initial)
    BY <1>2, <1>6, Zenon DEF Initial, ScanCursorInitial
  <2> QED
    BY <1>1, <1>3, <1>4, <1>5, <2>1, PageEnds, Zenon
<1>7. CASE c # 0
  <2>1. <<c>> # Initial /\ <<c>> # <<>> /\ Len(<<c>>) # 2
    BY <1>7 DEF Initial, ScanCursorInitial
  <2>2. ~parseScanCursor(<<c>>).ok
    <3>1. parseScanCursor(<<c>>) = Corrupted
      BY <2>1, Zenon DEF parseScanCursor
    <3> QED
      BY <3>1 DEF Corrupted
  <2>3. /\ seen' = seen /\ page' = [len |-> 0, count |-> 0]
        /\ cursor' = <<c>> /\ pc' = "idle"
    BY <1>1, <1>2, <1>3, <1>5, <2>1, Zenon DEF ReturnPage
  <2>4. page' \in [len : Nat, count : Nat] /\ page'.len <= page'.count /\ page'.count = 0
    BY <1>5, <2>3, SMTT(30)
  <2>5. Stray'
    BY <1>4, <2>2, <2>3, <2>4, Zenon DEF Stray, parseScanCursor
  <2> QED
    BY <1>1, <2>3, <2>4, <2>5, Zenon DEF ScanInv
<1> QED
  BY <1>6, <1>7, Zenon

\* The invariant holds in every reachable state.
LEMMA ScanInvariant == Spec => []ScanInv
<1>1. Init => ScanInv
  BY InitHolds, Zenon
<1>2. ScanInv /\ [Next]_vars => ScanInv'
  <2> SUFFICES ASSUME ScanInv, [Next]_vars PROVE ScanInv'
    OBVIOUS
  <2>1. CASE Call
    BY <2>1, CallKeeps, Zenon
  <2>2. CASE CallZero
    BY <2>2, CallZeroKeeps, Zenon
  <2>3. CASE ScanZero
    BY <2>3, ScanZeroKeeps, Zenon
  <2>4. CASE ScanShardPart
    BY <2>4, ScanShardPartKeeps, Zenon
  <2>5. CASE ScanShardEnd
    BY <2>5, ScanShardEndKeeps
  <2>6. CASE ScanShardError \/ CallRefused
    BY <2>6, ErrorKeeps, Zenon
  <2>7. CASE UNCHANGED vars
    BY <2>7, Zenon DEF vars, ScanInv, Resumable, Stray, InPage, Place, parseScanCursor,
               OnlyWanted, Walked
  <2> QED
    BY <2>1, <2>2, <2>3, <2>4, <2>5, <2>6, <2>7, Zenon DEF Next, Scan, Finished
<1> QED
  BY <1>1, <1>2, PTL DEF Spec

(***************************************************************************)
(* The pages of scan hold at most as many keys as asked for, however many  *)
(* shards one call visits (sharded_client.go: the limit of each command is *)
(* what the page has room for).                                            *)
(***************************************************************************)
THEOREM PagesFit == Spec => []PageWithinCount
<1>1. ScanInv => PageWithinCount
  BY Zenon DEF ScanInv, PageWithinCount
<1> QED
  BY <1>1, ScanInvariant, PTL

(***************************************************************************)
(* A walk over any number of shards, with any page sizes and any failing   *)
(* commands, gives every wanted key of every shard exactly once and in     *)
(* order, and each cursor that comes with a page of a positive count is    *)
(* one that parseScanCursor accepts.                                       *)
(***************************************************************************)
THEOREM WalksAreExact == Spec => []WalkIsExact
<1>1. ScanInv => WalkIsExact
  <2> SUFFICES ASSUME ScanInv PROVE WalkIsExact
    OBVIOUS
  <2>1. CASE pc # "done"
    <3>1. Resumable \/ Stray
      BY <2>1, Zenon DEF ScanInv
    <3> QED
      BY <2>1, <3>1, ResumablePrefix, Zenon DEF WalkIsExact, Stray
  <2>2. CASE pc = "done"
    <3>1. /\ cursor = Initial /\ IsPrefix(seen, Expected)
          /\ page.count > 0 => seen = Expected
      BY <2>2, Zenon DEF ScanInv
    <3>2. parseScanCursor(cursor).ok
      BY <3>1, CursorStarts, SMTT(30) DEF Parsed
    <3> QED
      BY <3>1, <3>2, Zenon DEF WalkIsExact
  <2> QED
    BY <2>1, <2>2, Zenon
<1> QED
  BY <1>1, ScanInvariant, PTL

=============================================================================
