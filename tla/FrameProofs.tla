---------------------------- MODULE FrameProofs -----------------------------
(***************************************************************************)
(* Proof that Frame implements FrameChannel, for headers of any size, any  *)
(* payloads and any limit, however the bytes are split into pieces.        *)
(***************************************************************************)
EXTENDS Frame, WellFoundedInduction, SequenceTheorems, TLAPS

-----------------------------------------------------------------------------
(***************************************************************************)
(* Induction over the natural numbers, for a set of them.                  *)
(***************************************************************************)
LessOnNat == {ss \in Nat \X Nat : ss[1] < ss[2]}

\* A set with 0 and all successors holds every natural number.
LEMMA SetInduction ==
  ASSUME NEW S, 0 \in S, \A n \in Nat : n \in S => n + 1 \in S
  PROVE  \A n \in Nat : n \in S
<1> DEFINE T == Nat \ S
<1>1. SUFFICES ASSUME T # {} PROVE FALSE
  OBVIOUS
<1>2. IsWellFoundedOn(LessOnNat, Nat)
  BY NatLessThanWellFounded, Zenon DEF OpToRel, LessOnNat
<1>3. \E x \in T : \A y \in T : ~(<<y, x>> \in LessOnNat)
  BY <1>1, <1>2, WFMin, Zenon
<1>4. \A x, y \in Nat : <<y, x>> \in LessOnNat <=> y < x
  BY DEF LessOnNat
<1>5. PICK x \in T : \A y \in T : ~(y < x)
  BY <1>3, <1>4, Zenon
<1>6. x # 0 /\ x - 1 \in Nat /\ x - 1 \in S
  BY <1>5
<1> QED
  BY <1>6

-----------------------------------------------------------------------------
(***************************************************************************)
(* The header: binary.BigEndian reads back the size it has written.        *)
(***************************************************************************)
\* The recursion of Power and of Uint32 defines a function.
LEMMA HornerExists ==
  ASSUME NEW N \in Nat, NEW B \in Int, NEW c \in [0..N -> Int]
  PROVE  \E f \in [0..N -> Int] :
           \A k \in 0..N : f[k] = IF k = 0 THEN c[0] ELSE f[k - 1] * B + c[k]
<1> DEFINE Def(f, n) == \A k \in 0..n : f[k] = IF k = 0 THEN c[0] ELSE f[k - 1] * B + c[k]
           S == {n \in Nat : n <= N => \E f \in [0..n -> Int] : Def(f, n)}
<1>1. 0 \in S
  <2> DEFINE f == [k \in 0..0 |-> c[0]]
  <2>1. f \in [0..0 -> Int] /\ Def(f, 0)
    OBVIOUS
  <2> QED
    BY <2>1, Zenon
<1>2. ASSUME NEW n \in Nat, n \in S PROVE n + 1 \in S
  <2> SUFFICES ASSUME n + 1 <= N PROVE \E g \in [0..(n + 1) -> Int] : Def(g, n + 1)
    BY SMTT(30)
  <2>0. n <= N
    OBVIOUS
  <2>1. PICK f \in [0..n -> Int] : Def(f, n)
    <3> HIDE DEF Def
    <3>1. \E f \in [0..n -> Int] : Def(f, n)
      BY <1>2, <2>0, Zenon
    <3> QED
      BY <3>1, Zenon
  <2> DEFINE g == [k \in 0..(n + 1) |-> IF k = n + 1 THEN f[n] * B + c[n + 1] ELSE f[k]]
  <2>2. g \in [0..(n + 1) -> Int]
    <3>1. c[n + 1] \in Int /\ f[n] * B \in Int
      OBVIOUS
    <3> QED
      BY <3>1, SMTT(30)
  <2>3. ASSUME NEW k \in 0..(n + 1)
        PROVE  g[k] = IF k = 0 THEN c[0] ELSE g[k - 1] * B + c[k]
    <3>1. CASE k = n + 1
      BY <3>1
    <3>2. CASE k \in 0..n
      BY <2>1, <3>2, SMTT(30)
    <3> QED
      BY <3>1, <3>2
  <2> HIDE DEF g
  <2> QED
    BY <2>2, <2>3, Zenon
<1>3. N \in S
  <2> HIDE DEF S
  <2> QED
    BY <1>1, <1>2, SetInduction, Zenon
<1> QED
  BY <1>3

\* The powers of Base.
LEMMA PowerFacts ==
  /\ Power[0] = 1
  /\ \A k \in 1..HeaderSize : Power[k] = Power[k - 1] * Base
  /\ \A k \in 0..HeaderSize : Power[k] \in Nat \ {0}
<1>0. Base \in Nat \ {0} /\ HeaderSize \in Nat \ {0}
  BY FrameAssumption
<1> DEFINE c == [k \in 0..HeaderSize |-> IF k = 0 THEN 1 ELSE 0]
<1>1. PICK f \in [0..HeaderSize -> Int] :
        \A k \in 0..HeaderSize : f[k] = IF k = 0 THEN c[0] ELSE f[k - 1] * Base + c[k]
  <2>1. c \in [0..HeaderSize -> Int] /\ HeaderSize \in Nat /\ Base \in Int
    BY <1>0
  <2> HIDE DEF c
  <2> QED
    BY <2>1, HornerExists, Zenon
<1>2. \A k \in 0..HeaderSize : f[k] = IF k = 0 THEN 1 ELSE f[k - 1] * Base
  BY <1>0, <1>1, SMTT(30)
<1>3. f = [k \in 0..HeaderSize |-> IF k = 0 THEN 1 ELSE f[k - 1] * Base]
  BY <1>1, <1>2
<1>4. Power = [k \in 0..HeaderSize |-> IF k = 0 THEN 1 ELSE Power[k - 1] * Base]
  BY <1>3, Zenon DEF Power
<1>5. \A k \in 0..HeaderSize : Power[k] = IF k = 0 THEN 1 ELSE Power[k - 1] * Base
  BY <1>4, Zenon
<1> DEFINE P == {n \in Nat : n <= HeaderSize => Power[n] \in Nat \ {0}}
<1>6. \A n \in Nat : n \in P
  <2>1. 0 \in P
    BY <1>0, <1>5
  <2>2. ASSUME NEW n \in Nat, n \in P PROVE n + 1 \in P
    <3> SUFFICES ASSUME n + 1 <= HeaderSize PROVE Power[n + 1] \in Nat \ {0}
      OBVIOUS
    <3>1. Power[n] \in Nat \ {0} /\ Power[n + 1] = Power[n] * Base
      BY <1>0, <1>5, <2>2
    <3> QED
      BY <1>0, <3>1, SMTT(30)
  <2> HIDE DEF P
  <2> QED
    BY <2>1, <2>2, SetInduction
<1> QED
  BY <1>0, <1>5, <1>6

\* What Uint32 computes, byte by byte, is a natural number.
LEMMA Uint32Facts ==
  ASSUME NEW h \in Seq(Bytes)
  PROVE  \E v \in [0..Len(h) -> Nat] :
           /\ v[0] = 0 /\ Uint32(h) = v[Len(h)]
           /\ \A i \in 1..Len(h) : v[i] = v[i - 1] * Base + h[i]
<1> DEFINE N == Len(h)
           c == [k \in 0..N |-> IF k = 0 THEN 0 ELSE h[k]]
           D(f) == [i \in 0..Len(h) |-> IF i = 0 THEN 0 ELSE f[i - 1] * Base + h[i]]
           v == CHOOSE f : f = D(f)
<1>0. Base \in Nat \ {0} /\ N \in Nat
  BY FrameAssumption
<1>b. \A i \in 1..N : h[i] \in Nat
  BY <1>0 DEF Bytes
<1>1. PICK f \in [0..N -> Int] :
        \A k \in 0..N : f[k] = IF k = 0 THEN c[0] ELSE f[k - 1] * Base + c[k]
  <2>1. c \in [0..N -> Int] /\ N \in Nat /\ Base \in Int
    BY <1>0, <1>b
  <2> HIDE DEF c, N
  <2> QED
    BY <2>1, HornerExists, Zenon
<1>2. \A k \in 0..N : f[k] = IF k = 0 THEN 0 ELSE f[k - 1] * Base + h[k]
  BY <1>0, <1>1
<1>3. f = D(f)
  BY <1>1, <1>2
<1>4. v = D(v)
  BY <1>3, Zenon
<1>5. Uint32(h) = v[N]
  BY DEF Uint32
<1> HIDE DEF v
<1>6. \A i \in 0..N : v[i] = IF i = 0 THEN 0 ELSE v[i - 1] * Base + h[i]
  BY <1>4, Zenon
<1> DEFINE P == {n \in Nat : n <= N => v[n] \in Nat}
<1>7. \A n \in Nat : n \in P
  <2>1. 0 \in P
    BY <1>0, <1>6
  <2>2. ASSUME NEW n \in Nat, n \in P PROVE n + 1 \in P
    <3> SUFFICES ASSUME n + 1 <= N PROVE v[n + 1] \in Nat
      OBVIOUS
    <3>1. v[n] \in Nat /\ v[n + 1] = v[n] * Base + h[n + 1] /\ h[n + 1] \in Nat
      BY <1>0, <1>6, <1>b, <2>2
    <3> QED
      BY <1>0, <3>1, SMTT(30)
  <2> HIDE DEF P
  <2> QED
    BY <2>1, <2>2, SetInduction, Zenon
<1>8. v \in [0..N -> Nat]
  <2>1. \A i \in 0..N : v[i] \in Nat
    BY <1>0, <1>7
  <2>2. DOMAIN v = 0..N /\ v = [i \in DOMAIN v |-> v[i]]
    BY <1>4, Zenon
  <2> QED
    BY <2>1, <2>2, Zenon
<1>9. v[0] = 0 /\ \A i \in 1..N : v[i] = v[i - 1] * Base + h[i]
  BY <1>0, <1>6
<1> QED
  BY <1>5, <1>8, <1>9, Zenon

\* A number from its quotient and its remainder.
LEMMA DivMod ==
  ASSUME NEW B \in Nat, B > 0, NEW a \in Nat PROVE a = (a \div B) * B + (a % B)
OBVIOUS

\* Shifting twice is shifting once by the product.
LEMMA DivDiv ==
  ASSUME NEW a \in Nat, NEW c \in Nat \ {0}, NEW B \in Nat \ {0}
  PROVE  a \div (c * B) = (a \div c) \div B
<1> DEFINE q == a \div c
           r == a % c
           s == q \div B
           t == q % B
<1>1. q \in Nat /\ r \in 0..(c - 1) /\ a = q * c + r
  OBVIOUS
<1>2. s \in Nat /\ t \in 0..(B - 1) /\ q = s * B + t
  BY <1>1
<1> HIDE DEF q, r, s, t
<1>3. t * c + r \in Nat /\ t * c + r < c * B
  <2>1. t * c <= (B - 1) * c
    BY <1>2
  <2>2. (B - 1) * c = c * B - c
    OBVIOUS
  <2>3. t * c \in Nat /\ c * B \in Nat
    BY <1>2
  <2> QED
    BY <1>1, <2>1, <2>2, <2>3
<1>4. a = s * (c * B) + (t * c + r)
  BY <1>1, <1>2
<1>5. \A d \in Nat \ {0} : \A e \in 0..(d - 1) : (s * d + e) \div d = s
  BY <1>2
<1>6. c * B \in Nat \ {0} /\ t * c + r \in 0..(c * B - 1)
  <2>1. c * B \in Nat \ {0}
    OBVIOUS
  <2> QED
    BY <1>3, <2>1
<1>7. a \div (c * B) = s
  BY <1>4, <1>5, <1>6
<1> QED
  BY <1>7 DEF s, q

\* The size that writeFrame puts into a header is the size readFrameSize takes
\* from it.
LEMMA HeaderReadsBack ==
  ASSUME NEW n \in 0..maxFramePayloadSize
  PROVE  /\ PutUint32(n) \in Seq(Bytes) /\ Len(PutUint32(n)) = HeaderSize
         /\ Uint32(PutUint32(n)) = n
<1> DEFINE H == HeaderSize
           h == PutUint32(n)
<1>0. Base \in Nat \ {0} /\ H \in Nat \ {0}
  BY FrameAssumption
<1>1. n \in Nat /\ n < Power[H] /\ Power[H] \in Nat
  BY <1>0, PowerFacts DEF maxFramePayloadSize
<1>2. ASSUME NEW i \in 1..H
      PROVE  /\ n \div Power[H - i] \in Nat
             /\ h[i] = (n \div Power[H - i]) % Base /\ h[i] \in Bytes
  <2>1. H - i \in 0..H /\ Power[H - i] \in Nat \ {0}
    BY <1>0, PowerFacts
  <2>2. n \div Power[H - i] \in Nat
    BY <1>1, <2>1
  <2>3. h[i] = (n \div Power[H - i]) % Base
    BY DEF PutUint32
  <2> HIDE DEF h
  <2> QED
    BY <1>0, <2>2, <2>3 DEF Bytes
<1>3. h \in Seq(Bytes) /\ Len(h) = H
  <2>1. h = [i \in 1..H |-> h[i]]
    BY DEF PutUint32
  <2> HIDE DEF h
  <2>2. h \in [1..H -> Bytes]
    BY <1>2, <2>1, Zenon
  <2> QED
    BY <1>0, <2>2
<1>4. PICK v \in [0..H -> Nat] :
        /\ v[0] = 0 /\ Uint32(h) = v[H]
        /\ \A i \in 1..H : v[i] = v[i - 1] * Base + h[i]
  BY <1>3, Uint32Facts, Zenon
<1> DEFINE P == {i \in Nat : i <= H => v[i] = n \div Power[H - i]}
<1>5. 0 \in P
  <2>1. n \div Power[H] = 0
    BY <1>1
  <2> QED
    BY <1>0, <1>4, <2>1
<1>6. ASSUME NEW i \in Nat, i \in P PROVE i + 1 \in P
  <2> SUFFICES ASSUME i + 1 <= H PROVE v[i + 1] = n \div Power[H - (i + 1)]
    OBVIOUS
  <2> DEFINE c == Power[H - (i + 1)]
             q == n \div c
  <2>1. c \in Nat \ {0} /\ Power[H - i] = c * Base
    <3>1. H - i \in 1..H /\ H - (i + 1) = (H - i) - 1 /\ H - (i + 1) \in 0..H
      BY <1>0
    <3> QED
      BY <3>1, PowerFacts
  <2>2. v[i] = q \div Base
    <3>1. v[i] = n \div Power[H - i]
      BY <1>0, <1>6
    <3> HIDE DEF c
    <3>2. n \div (c * Base) = (n \div c) \div Base
      BY <1>0, <1>1, <2>1, DivDiv, Zenon
    <3> QED
      BY <2>1, <3>1, <3>2, Zenon
  <2>3. q \in Nat /\ h[i + 1] = q % Base
    BY <1>0, <1>2
  <2>4. v[i + 1] = v[i] * Base + h[i + 1]
    BY <1>0, <1>4
  <2> HIDE DEF q
  <2>5. v[i + 1] = (q \div Base) * Base + (q % Base)
    BY <2>2, <2>3, <2>4, Zenon
  <2>6. q = (q \div Base) * Base + (q % Base)
    <3>1. Base \in Nat /\ Base > 0
      BY <1>0
    <3> QED
      BY <2>3, <3>1, DivMod, Zenon
  <2>7. v[i + 1] = q
    BY <2>5, <2>6
  <2> QED
    BY <2>7 DEF q
<1>7. H \in P
  <2> HIDE DEF P
  <2> QED
    BY <1>0, <1>5, <1>6, SetInduction, Zenon
<1>8. v[H] = n
  <2>1. v[H] = n \div Power[0]
    BY <1>0, <1>7
  <2> QED
    BY <1>1, <2>1, PowerFacts
<1> QED
  BY <1>3, <1>4, <1>8

-----------------------------------------------------------------------------
(***************************************************************************)
(* The inductive invariant.                                                *)
(***************************************************************************)
FrameTypes ==
  /\ wpc \in {"idle", "header", "payload"} /\ whole \in BOOLEAN
  /\ data \in Seq(Bytes) /\ payload \in Seq(Bytes) /\ wire \in Seq(Bytes)
  /\ header \in Seq(Bytes) /\ buffer \in [1..MaxMessageSize -> Bytes]
  /\ sent \in Seq(Seq(Bytes)) /\ delivered \in Seq(Seq(Bytes))

\* The writer has something left to write exactly while it is in writeFrame,
\* and writes only what a header can announce.
WriterAt ==
  /\ wpc = "idle" <=> data = <<>>
  /\ wpc # "idle" => payload \in Payloads /\ Len(payload) <= maxFramePayloadSize
  /\ \A i \in 1..Len(sent) : Len(sent[i]) <= maxFramePayloadSize

\* The reader is in the header, or in a message of the size it announced.
ReaderAt ==
  /\ size = -1 => got = 0 /\ Len(header) < HeaderSize
  /\ size # -1 =>
       /\ size \in 1..MaxMessageSize /\ got \in 0..(size - 1)
       /\ Len(header) = HeaderSize /\ size = Uint32(header)

\* The messages sent, and the one being written.
Queue == IF wpc = "idle" THEN sent ELSE Append(sent, payload)

(***************************************************************************)
(* The bytes between the last message delivered and the end of the one     *)
(* being written: what the reader has of a frame, what is on the wire, and *)
(* what the writer has yet to write.                                       *)
(***************************************************************************)
Read == Len(header) + got
Arrived == Read + Len(wire)
Begun == Arrived + Len(data)
Total == IF wpc = "header" THEN Begun + Len(payload) ELSE Begun

Ahead(j) ==
  IF j <= Len(header) THEN header[j]
  ELSE IF j <= Read THEN buffer[j - Len(header)]
  ELSE IF j <= Arrived THEN wire[j - Read]
  ELSE IF j <= Begun THEN data[j - Arrived]
  ELSE payload[j - Begun]

\* F holds the frames of the messages of q after the first d, one after the
\* other; the one of message i follows position at[i - 1].
Framed(at, F, q, d) ==
  /\ \A i, j \in d..Len(q) : i <= j => at[i] <= at[j]
  /\ \A i \in (d + 1)..Len(q) :
       /\ at[i] = at[i - 1] + HeaderSize + Len(q[i])
       /\ \A k \in 1..HeaderSize : F[at[i - 1] + k] = PutUint32(Len(q[i]))[k]
       /\ \A k \in 1..Len(q[i]) : F[at[i - 1] + HeaderSize + k] = q[i][k]

\* The bytes ahead are those of F from the last message delivered on.
Carried(at, F) ==
  /\ at[Len(Queue)] = at[Len(delivered)] + Total
  /\ \A j \in 1..Total : Ahead(j) = F[at[Len(delivered)] + j]

\* As long as no error has struck inside a frame, the bytes ahead are the frames
\* of the messages not yet delivered.
InStep ==
  whole =>
    /\ Len(delivered) <= Len(sent)
    /\ \E at \in [Nat -> Int] : \E F \in [Int -> Int] :
         Framed(at, F, Queue, Len(delivered)) /\ Carried(at, F)

FInv == FrameTypes /\ WriterAt /\ ReaderAt /\ InStep

-----------------------------------------------------------------------------
(***************************************************************************)
(* Sequences of bytes that are split and joined.                           *)
(***************************************************************************)
\* The first n elements of a sequence and the others.
LEMMA SplitFacts ==
  ASSUME NEW S, NEW s \in Seq(S), NEW n \in 0..Len(s)
  PROVE  /\ SubSeq(s, 1, n) \in Seq(S) /\ Len(SubSeq(s, 1, n)) = n
         /\ \A j \in 1..n : SubSeq(s, 1, n)[j] = s[j]
         /\ SubSeq(s, n + 1, Len(s)) \in Seq(S)
         /\ Len(SubSeq(s, n + 1, Len(s))) = Len(s) - n
         /\ \A j \in 1..(Len(s) - n) : SubSeq(s, n + 1, Len(s))[j] = s[n + j]
<1>1. \A i \in 1..n : s[i] \in S
  OBVIOUS
<1>2. \A i \in (n + 1)..Len(s) : s[i] \in S
  OBVIOUS
<1>3. n \in Int /\ Len(s) \in Nat /\ n + 1 \in Int /\ 1 \in Int
  OBVIOUS
<1>4. /\ SubSeq(s, 1, n) \in Seq(S)
      /\ Len(SubSeq(s, 1, n)) = IF 1 <= n THEN n - 1 + 1 ELSE 0
      /\ \A i \in 1..(n - 1 + 1) : SubSeq(s, 1, n)[i] = s[1 + i - 1]
  BY <1>1, <1>3, SubSeqProperties, SMTT(30)
<1>5. /\ SubSeq(s, n + 1, Len(s)) \in Seq(S)
      /\ Len(SubSeq(s, n + 1, Len(s))) =
           IF n + 1 <= Len(s) THEN Len(s) - (n + 1) + 1 ELSE 0
      /\ \A i \in 1..(Len(s) - (n + 1) + 1) :
           SubSeq(s, n + 1, Len(s))[i] = s[n + 1 + i - 1]
  BY <1>2, <1>3, SubSeqProperties
<1> DEFINE t == SubSeq(s, 1, n)
           u == SubSeq(s, n + 1, Len(s))
<1> HIDE DEF t, u
<1>6. t \in Seq(S) /\ Len(t) = n /\ \A j \in 1..n : t[j] = s[j]
  BY <1>3, <1>4 DEF t
<1>7. u \in Seq(S) /\ Len(u) = Len(s) - n /\ \A j \in 1..(Len(s) - n) : u[j] = s[n + j]
  BY <1>3, <1>5 DEF u
<1> QED
  BY <1>6, <1>7 DEF t, u

\* A sequence followed by another one.
JoinOf(s, t) ==
  /\ Len(s \o t) = Len(s) + Len(t)
  /\ \A j \in 1..Len(s) : (s \o t)[j] = s[j]
  /\ \A j \in (Len(s) + 1)..(Len(s) + Len(t)) : (s \o t)[j] = t[j - Len(s)]

LEMMA JoinFacts ==
  ASSUME NEW S, NEW s \in Seq(S), NEW t \in Seq(S)
  PROVE  s \o t \in Seq(S) /\ JoinOf(s, t)
BY DEF JoinOf

\* A sequence with an element added.
LEMMA AppendFacts ==
  ASSUME NEW S, NEW s \in Seq(S), NEW e \in S
  PROVE  /\ Append(s, e) \in Seq(S) /\ Len(Append(s, e)) = Len(s) + 1
         /\ Append(s, e)[Len(s) + 1] = e
         /\ \A i \in 1..Len(s) : Append(s, e)[i] = s[i]
OBVIOUS

\* A sequence of bytes is a function to the integers.
LEMMA BytesAreNumbers ==
  ASSUME NEW s \in Seq(Bytes)
  PROVE  s \in [1..Len(s) -> Int] /\ Len(s) \in Nat
<1>1. Bytes \subseteq Int
  BY DEF Bytes
<1>2. s \in [1..Len(s) -> Bytes] /\ Len(s) \in Nat
  BY LenProperties, Zenon
<1> QED
  BY <1>1, <1>2, Zenon

-----------------------------------------------------------------------------
(***************************************************************************)
(* Alignment: frames stay where they are, while bytes move from the writer *)
(* to the wire and from there to the reader.                               *)
(***************************************************************************)
\* The messages in the queue are sequences of bytes.
LEMMA QueueFacts ==
  ASSUME FrameTypes
  PROVE  /\ Queue \in Seq(Seq(Bytes)) /\ Len(Queue) \in Nat /\ Len(delivered) \in Nat
         /\ \A i \in 1..Len(Queue) : Queue[i] \in Seq(Bytes) /\ Len(Queue[i]) \in Nat
         /\ wpc = "idle" => Queue = sent
         /\ wpc # "idle" => /\ Len(Queue) = Len(sent) + 1
                            /\ Queue[Len(Queue)] = payload
         /\ \A i \in 1..Len(sent) : Queue[i] = sent[i]
<1>1. sent \in Seq(Seq(Bytes)) /\ payload \in Seq(Bytes) /\ delivered \in Seq(Seq(Bytes))
  BY DEF FrameTypes
<1>2. Queue \in Seq(Seq(Bytes))
  BY <1>1 DEF Queue
<1>3. CASE wpc = "idle"
  <2>1. Queue = sent
    BY <1>3 DEF Queue
  <2> QED
    BY <1>1, <1>2, <1>3, <2>1, SMTT(30)
<1>4. CASE wpc # "idle"
  <2>1. Queue = Append(sent, payload)
    BY <1>4 DEF Queue
  <2> QED
    BY <1>1, <1>2, <1>4, <2>1
<1> QED
  BY <1>3, <1>4

\* a and G extend at and F by the frame of message p.
Extends(a, G, at, F, q, d, p) ==
  /\ Framed(a, G, Append(q, p), d)
  /\ a[d] = at[d] /\ a[Len(q) + 1] = at[Len(q)] + HeaderSize + Len(p)
  /\ \A j \in Int : j <= at[Len(q)] => G[j] = F[j]
  /\ \A k \in 1..HeaderSize : G[at[Len(q)] + k] = PutUint32(Len(p))[k]
  /\ \A k \in 1..Len(p) : G[at[Len(q)] + HeaderSize + k] = p[k]

\* A frame is added behind the others.
LEMMA FrameAdded ==
  ASSUME NEW q, NEW d, NEW p, NEW at, NEW F
  PROVE  /\ q \in Seq(Seq(Bytes)) /\ d \in 0..Len(q) /\ p \in Seq(Bytes)
         /\ Len(p) <= maxFramePayloadSize
         /\ at \in [Nat -> Int] /\ F \in [Int -> Int] /\ Framed(at, F, q, d)
         => \E a \in [Nat -> Int] : \E G \in [Int -> Int] : Extends(a, G, at, F, q, d, p)
<1> DEFINE n == Len(q)
           h == PutUint32(Len(p))
           z == at[n]
           a == [at EXCEPT ![n + 1] = z + HeaderSize + Len(p)]
           r == Append(q, p)
           G == [j \in Int |-> IF j <= z THEN F[j]
                               ELSE IF j - z \in 1..HeaderSize THEN h[j - z]
                               ELSE IF j - (z + HeaderSize) \in 1..Len(p)
                                    THEN p[j - (z + HeaderSize)] ELSE 0]
           Extended(b, K) ==
              /\ Framed(b, K, Append(q, p), d)
              /\ b[d] = at[d] /\ b[Len(q) + 1] = at[Len(q)] + HeaderSize + Len(p)
              /\ \A j \in Int : j <= at[Len(q)] => K[j] = F[j]
              /\ \A k \in 1..HeaderSize : K[at[Len(q)] + k] = PutUint32(Len(p))[k]
              /\ \A k \in 1..Len(p) : K[at[Len(q)] + HeaderSize + k] = p[k]
<1>0. SUFFICES ASSUME /\ q \in Seq(Seq(Bytes)) /\ d \in 0..Len(q) /\ p \in Seq(Bytes)
                      /\ Len(p) <= maxFramePayloadSize
                      /\ at \in [Nat -> Int] /\ F \in [Int -> Int]
                      /\ Framed(at, F, q, d)
               PROVE  \E b \in [Nat -> Int] : \E K \in [Int -> Int] : Extended(b, K)
  BY Zenon DEF Extends
<1>f. at \in [Nat -> Int] /\ F \in [Int -> Int] /\ Framed(at, F, q, d)
  BY <1>0, Zenon
<1>1. /\ HeaderSize \in Nat /\ n \in Nat /\ Len(p) \in Nat /\ d \in Nat /\ d <= n
      /\ z \in Int
  <2>1. n \in Nat /\ Len(p) \in Nat
    BY <1>0, LenProperties, Zenon
  <2>2. d \in Nat /\ d <= n /\ at[n] \in Int
    BY <1>0, <1>f, <2>1
  <2> QED
    BY <2>1, <2>2, FrameAssumption, Zenon
<1>2. h \in [1..HeaderSize -> Int] /\ p \in [1..Len(p) -> Int]
  <2>1. Len(p) \in 0..maxFramePayloadSize
    <3>1. HeaderSize \in 0..HeaderSize
      BY <1>1
    <3>2. Power[HeaderSize] \in Nat
      BY <3>1, PowerFacts, Zenon
    <3>3. Len(p) <= maxFramePayloadSize
      BY <1>0
    <3> QED
      BY <1>1, <3>2, <3>3 DEF maxFramePayloadSize
  <2>2. h \in Seq(Bytes) /\ Len(h) = HeaderSize
    BY <2>1, HeaderReadsBack
  <2>3. p \in Seq(Bytes)
    BY <1>0
  <2> HIDE DEF h
  <2> QED
    BY <2>2, <2>3, BytesAreNumbers, Zenon
<1> HIDE DEF h, z
<1>3. /\ a \in [Nat -> Int] /\ a[n + 1] = z + HeaderSize + Len(p)
      /\ \A i \in 0..n : a[i] = at[i]
  <2> DEFINE w == z + HeaderSize + Len(p)
             m == n + 1
  <2>1. w \in Int /\ m \in Nat /\ \A i \in 0..n : i \in Nat /\ i # m
    BY <1>1
  <2>2. at \in [Nat -> Int]
    BY <1>f
  <2> HIDE DEF w, m
  <2>3. /\ [at EXCEPT ![m] = w] \in [Nat -> Int] /\ [at EXCEPT ![m] = w][m] = w
        /\ \A i \in 0..n : [at EXCEPT ![m] = w][i] = at[i]
    BY <2>1, <2>2, Zenon
  <2> QED
    BY <2>3, Zenon DEF w, m
<1>4. G \in [Int -> Int]
  <2>1. \A j \in Int :
          /\ F[j] \in Int
          /\ j - z \in 1..HeaderSize => h[j - z] \in Int
          /\ j - (z + HeaderSize) \in 1..Len(p) => p[j - (z + HeaderSize)] \in Int
    BY <1>2, <1>f, Zenon
  <2>2. 0 \in Int
    OBVIOUS
  <2> QED
    BY <2>1, <2>2, Zenon
<1>5. \A j \in Int : j <= z => G[j] = F[j]
  OBVIOUS
<1>6. ASSUME NEW k \in 1..HeaderSize PROVE G[z + k] = h[k]
  <2>1. z + k \in Int /\ ~(z + k <= z) /\ (z + k) - z = k
    BY <1>1
  <2> QED
    BY <2>1
<1>7. ASSUME NEW k \in 1..Len(p) PROVE G[z + HeaderSize + k] = p[k]
  <2> DEFINE j == z + HeaderSize + k
  <2>1. /\ j \in Int /\ ~(j <= z) /\ j - z \notin 1..HeaderSize
        /\ j - (z + HeaderSize) = k
    BY <1>1
  <2> QED
    BY <2>1
<1> HIDE DEF a, G
<1>8. /\ Len(r) = n + 1 /\ r[n + 1] = p
      /\ \A i \in 1..n : r[i] = q[i] /\ Len(q[i]) \in Nat
  <2>1. q \in Seq(Seq(Bytes)) /\ p \in Seq(Bytes)
    BY <1>0
  <2>2. ASSUME NEW i \in 1..n PROVE Len(q[i]) \in Nat
    <3>1. q[i] \in Seq(Bytes)
      BY <2>1, ElementOfSeq, Zenon
    <3> QED
      BY <3>1, LenProperties, Zenon
  <2>3. /\ Len(Append(q, p)) = Len(q) + 1 /\ Append(q, p)[Len(q) + 1] = p
        /\ \A i \in 1..Len(q) : Append(q, p)[i] = q[i]
    BY <2>1, AppendFacts, SMTT(30)
  <2> QED
    BY <2>2, <2>3, Zenon
<1> HIDE DEF r
<1>9. ASSUME NEW i \in d..(n + 1), NEW j \in d..(n + 1), i <= j PROVE a[i] <= a[j]
  <2>1. ASSUME NEW m \in d..n PROVE a[m] = at[m] /\ at[m] <= z /\ at[m] \in Int
    <3>1. m \in Nat /\ m \in 0..n /\ n \in d..n /\ m <= n
      BY <1>1
    <3>2. at[m] <= at[n]
      BY <1>f, <3>1, Zenon DEF Framed
    <3> QED
      BY <1>3, <1>f, <3>1, <3>2, Zenon DEF z
  <2>2. z <= a[n + 1] /\ a[n + 1] \in Int
    BY <1>1, <1>3
  <2>3. CASE j \in d..n
    <3>1. i \in d..n
      BY <1>1, <1>9, <2>3
    <3>2. at[i] <= at[j]
      BY <1>9, <1>f, <2>3, <3>1, Zenon DEF Framed
    <3> QED
      BY <2>1, <2>3, <3>1, <3>2, Zenon
  <2>4. CASE j = n + 1 /\ i \in d..n
    <3>1. a[i] <= z /\ a[i] \in Int
      BY <2>1, <2>4, Zenon
    <3> QED
      BY <1>1, <2>2, <2>4, <3>1
  <2>5. CASE j = n + 1 /\ i = n + 1
    <3>1. a[n + 1] <= a[n + 1]
      BY <2>2
    <3> QED
      BY <2>5, <3>1, Zenon
  <2> QED
    BY <1>1, <1>9, <2>3, <2>4, <2>5, SMTT(30)
<1>10. ASSUME NEW i \in (d + 1)..(n + 1)
       PROVE  /\ a[i] = a[i - 1] + HeaderSize + Len(r[i])
              /\ \A k \in 1..HeaderSize : G[a[i - 1] + k] = PutUint32(Len(r[i]))[k]
              /\ \A k \in 1..Len(r[i]) : G[a[i - 1] + HeaderSize + k] = r[i][k]
  <2>1. CASE i = n + 1
    <3>1. i - 1 = n /\ n \in 0..n
      BY <1>1, <2>1
    <3>2. a[i - 1] = z /\ r[i] = p
      BY <1>3, <1>8, <2>1, <3>1, Zenon DEF z
    <3> QED
      BY <1>3, <1>6, <1>7, <2>1, <3>2, Zenon DEF h
  <2>2. CASE i \in (d + 1)..n
    <3>1. /\ i \in 1..n /\ i - 1 \in d..n /\ i \in d..n /\ n \in d..n /\ i <= n
          /\ i - 1 \in 0..n /\ i \in 0..n /\ i - 1 \in Nat
      BY <1>1, <2>2
    <3>2. a[i - 1] = at[i - 1] /\ a[i] = at[i] /\ r[i] = q[i]
      BY <1>3, <1>8, <3>1, Zenon
    <3>3. /\ at[i] = at[i - 1] + HeaderSize + Len(q[i]) /\ at[i] <= z
          /\ \A k \in 1..HeaderSize : F[at[i - 1] + k] = PutUint32(Len(q[i]))[k]
          /\ \A k \in 1..Len(q[i]) : F[at[i - 1] + HeaderSize + k] = q[i][k]
      BY <1>f, <2>2, <3>1, Zenon DEF Framed, z
    <3>4. at[i - 1] \in Int /\ Len(q[i]) \in Nat
      BY <1>8, <1>f, <3>1, Zenon
    <3> DEFINE y == at[i - 1]
               l == Len(q[i])
    <3>a. /\ y \in Int /\ l \in Nat /\ HeaderSize \in Nat /\ z \in Int
          /\ y + HeaderSize + l <= z
      BY <1>1, <3>3, <3>4, FrameAssumption, Zenon
    <3>b. /\ \A k \in 1..HeaderSize : y + k \in Int /\ y + k <= z
          /\ \A k \in 1..l : y + HeaderSize + k \in Int /\ y + HeaderSize + k <= z
      <4> HIDE DEF y, l, z
      <4> QED
        BY <3>a
    <3>5. ASSUME NEW k \in 1..HeaderSize PROVE G[at[i - 1] + k] = F[at[i - 1] + k]
      <4>1. at[i - 1] + k \in Int /\ at[i - 1] + k <= z
        BY <3>b, Zenon
      <4> QED
        BY <1>5, <4>1, Zenon
    <3>6. ASSUME NEW k \in 1..Len(q[i])
          PROVE  G[at[i - 1] + HeaderSize + k] = F[at[i - 1] + HeaderSize + k]
      <4>1. at[i - 1] + HeaderSize + k \in Int /\ at[i - 1] + HeaderSize + k <= z
        BY <3>b, Zenon
      <4> QED
        BY <1>5, <4>1, Zenon
    <3> QED
      BY <3>2, <3>3, <3>5, <3>6, Zenon
  <2>3. i = n + 1 \/ i \in (d + 1)..n
    BY <1>1
  <2> QED
    BY <2>1, <2>2, <2>3, Zenon
<1>11. Framed(a, G, r, d)
  BY <1>8, <1>9, <1>10, Zenon DEF Framed
<1>12. a[d] = at[d]
  BY <1>1, <1>3
<1>13. Extended(a, G)
  BY <1>3, <1>5, <1>6, <1>7, <1>11, <1>12, Zenon DEF z, h, r
<1> QED
  BY <1>3, <1>4, <1>13, Zenon

-----------------------------------------------------------------------------
(***************************************************************************)
(* Types, and where writer and reader are.                                 *)
(***************************************************************************)
Plain == FrameTypes /\ WriterAt /\ ReaderAt

\* The constants.
LEMMA Sizes ==
  /\ HeaderSize \in Nat \ {0} /\ MaxMessageSize \in Nat /\ Payloads \subseteq Seq(Bytes)
  /\ maxFramePayloadSize \in Nat
<1>1. HeaderSize \in Nat \ {0} /\ MaxMessageSize \in Nat /\ Payloads \subseteq Seq(Bytes)
  BY FrameAssumption
<1>2. HeaderSize \in 0..HeaderSize
  BY <1>1
<1>3. Power[HeaderSize] \in Nat \ {0}
  BY <1>2, PowerFacts
<1> QED
  BY <1>1, <1>3 DEF maxFramePayloadSize

\* A size read from a header is a natural number.
LEMMA Uint32Type == ASSUME NEW h \in Seq(Bytes) PROVE Uint32(h) \in Nat
<1>1. PICK v \in [0..Len(h) -> Nat] : Uint32(h) = v[Len(h)]
  BY Uint32Facts
<1>2. Len(h) \in Nat
  OBVIOUS
<1> QED
  BY <1>1, <1>2

\* The writer's steps.
LEMMA WriterPlain ==
  ASSUME Plain, \/ \E p \in Payloads : writeFrame(p)
                \/ \E n \in Pieces : writeAll(n)
                \/ \E n \in {0} \cup Pieces : writeFail(n)
  PROVE  Plain'
<1>0. /\ data \in Seq(Bytes) /\ payload \in Seq(Bytes) /\ wire \in Seq(Bytes)
      /\ sent \in Seq(Seq(Bytes)) /\ wpc \in {"idle", "header", "payload"}
      /\ whole \in BOOLEAN
      /\ wpc = "idle" <=> data = <<>>
      /\ wpc # "idle" => payload \in Payloads /\ Len(payload) <= maxFramePayloadSize
      /\ \A i \in 1..Len(sent) : Len(sent[i]) <= maxFramePayloadSize
  BY DEF Plain, FrameTypes, WriterAt
<1>1. ASSUME UNCHANGED <<reader, delivered>>,
             data' \in Seq(Bytes), payload' \in Seq(Bytes), wire' \in Seq(Bytes),
             sent' \in Seq(Seq(Bytes)), wpc' \in {"idle", "header", "payload"},
             whole' \in BOOLEAN, wpc' = "idle" <=> data' = <<>>,
             wpc' # "idle" => payload' \in Payloads /\ Len(payload') <= maxFramePayloadSize,
             \A i \in 1..Len(sent') : Len(sent'[i]) <= maxFramePayloadSize
      PROVE  Plain'
  BY <1>1 DEF Plain, FrameTypes, WriterAt, ReaderAt, reader
<1>2. CASE \E p \in Payloads : writeFrame(p)
  <2>1. PICK p \in Payloads : writeFrame(p)
    BY <1>2
  <2>2. UNCHANGED <<reader, delivered, wire, sent, whole>>
    BY <2>1 DEF writeFrame
  <2>3. CASE Len(p) > maxFramePayloadSize
    <3>1. UNCHANGED <<wpc, data, payload>>
      BY <2>1, <2>3 DEF writeFrame, writer
    <3> QED
      BY <1>0, <1>1, <2>2, <3>1, Zenon
  <2>4. CASE ~(Len(p) > maxFramePayloadSize)
    <3>1. wpc' = "header" /\ data' = PutUint32(Len(p)) /\ payload' = p
      BY <2>1, <2>4 DEF writeFrame
    <3>2. p \in Seq(Bytes) /\ Len(p) \in Nat
      BY Sizes
    <3>3. Len(p) \in 0..maxFramePayloadSize /\ Len(p) <= maxFramePayloadSize
      BY <2>4, <3>2, Sizes
    <3>4. data' \in Seq(Bytes) /\ Len(data') = HeaderSize
      BY <3>1, <3>3, HeaderReadsBack
    <3>5. data' # <<>>
      BY <3>4, Sizes
    <3> QED
      BY <1>0, <1>1, <2>2, <3>1, <3>2, <3>3, <3>4, <3>5, Zenon
  <2> QED
    BY <2>3, <2>4
<1>3. CASE \E n \in Pieces : writeAll(n)
  <2>1. PICK n \in Pieces : writeAll(n)
    BY <1>3
  <2>2. /\ UNCHANGED <<reader, delivered, payload, whole>> /\ n \in 1..Len(data)
        /\ wire' = wire \o SubSeq(data, 1, n)
    BY <2>1 DEF writeAll
  <2>3. wpc # "idle"
    BY <1>0, <2>2
  <2>4. n \in 0..Len(data) /\ n \in Nat
    BY <1>0, <2>2, SMTT(30)
  <2>5. wire' \in Seq(Bytes)
    BY <1>0, <2>2, <2>4, SplitFacts, SMTT(30)
  <2>6. CASE n # Len(data)
    <3>1. data' = SubSeq(data, n + 1, Len(data)) /\ UNCHANGED <<wpc, sent>>
      BY <2>1, <2>6 DEF writeAll
    <3>2. data' \in Seq(Bytes) /\ Len(data') = Len(data) - n
      BY <1>0, <2>4, <3>1, SplitFacts, Zenon
    <3>3. data' # <<>>
      BY <1>0, <2>2, <2>6, <3>2, SMTT(30)
    <3> QED
      BY <1>0, <1>1, <2>2, <2>3, <2>5, <3>1, <3>2, <3>3, Zenon
  <2>7. CASE n = Len(data) /\ wpc = "header" /\ payload # <<>>
    <3>1. wpc' = "payload" /\ data' = payload /\ sent' = sent
      BY <2>1, <2>7 DEF writeAll, Written
    <3> QED
      BY <1>0, <1>1, <2>2, <2>3, <2>5, <2>7, <3>1, Zenon
  <2>8. CASE n = Len(data) /\ ~(wpc = "header" /\ payload # <<>>)
    <3>1. wpc' = "idle" /\ data' = <<>> /\ sent' = Append(sent, payload)
      BY <2>1, <2>8, Zenon DEF writeAll, Written
    <3>2. /\ sent' \in Seq(Seq(Bytes)) /\ Len(sent') = Len(sent) + 1
          /\ sent'[Len(sent) + 1] = payload
          /\ \A i \in 1..Len(sent) : sent'[i] = sent[i]
      BY <1>0, <3>1, AppendFacts
    <3>3. Len(sent) \in Nat
      BY <1>0
    <3>4. ASSUME NEW i \in 1..Len(sent') PROVE Len(sent'[i]) <= maxFramePayloadSize
      <4>1. i \in 1..Len(sent) \/ i = Len(sent) + 1
        BY <3>2, <3>3
      <4> QED
        BY <1>0, <2>3, <3>2, <4>1, Zenon
    <3>5. data' \in Seq(Bytes)
      BY <3>1
    <3> QED
      BY <1>0, <1>1, <2>2, <2>5, <3>1, <3>2, <3>4, <3>5, Zenon
  <2> QED
    BY <2>6, <2>7, <2>8
<1>4. CASE \E n \in {0} \cup Pieces : writeFail(n)
  <2>1. PICK n \in {0} \cup Pieces : writeFail(n)
    BY <1>4
  <2>2. /\ UNCHANGED <<reader, delivered, payload, sent>> /\ n \in 0..Len(data)
        /\ wire' = wire \o SubSeq(data, 1, n) /\ wpc' = "idle" /\ data' = <<>>
    BY <2>1 DEF writeFail
  <2>3. whole' \in BOOLEAN
    BY <2>1 DEF writeFail
  <2>4. wire' \in Seq(Bytes) /\ data' \in Seq(Bytes)
    BY <1>0, <2>2, SplitFacts
  <2> QED
    BY <1>0, <1>1, <2>2, <2>3, <2>4, Zenon
<1> QED
  BY <1>2, <1>3, <1>4

\* What Deliver leaves of the reader.
LEMMA DeliverPlain ==
  ASSUME Plain, NEW m \in Seq(Bytes), Deliver(m), UNCHANGED <<writer, sent, whole>>,
         wire' \in Seq(Bytes), buffer' \in [1..MaxMessageSize -> Bytes]
  PROVE  Plain'
<1>1. /\ delivered' = Append(delivered, m) /\ header' = <<>> /\ size' = -1 /\ got' = 0
  BY DEF Deliver
<1>2. delivered' \in Seq(Seq(Bytes))
  BY <1>1 DEF Plain, FrameTypes
<1>3. FrameTypes'
  BY <1>1, <1>2 DEF Plain, FrameTypes, writer
<1>4. WriterAt'
  BY DEF Plain, WriterAt, writer
<1>5. header' = <<>> /\ Len(header') = 0 /\ 0 < HeaderSize
  BY <1>1, Sizes
<1>6. ReaderAt'
  BY <1>1, <1>5 DEF ReaderAt
<1> QED
  BY <1>3, <1>4, <1>6 DEF Plain

\* The reader's steps.
LEMMA ReaderPlain ==
  ASSUME Plain, \/ \E n \in Pieces : readFrameSize(n)
                \/ \E n \in Pieces : readFrameInto(n)
                \/ readFail
  PROVE  Plain'
<1>0. /\ header \in Seq(Bytes) /\ buffer \in [1..MaxMessageSize -> Bytes]
      /\ wire \in Seq(Bytes) /\ delivered \in Seq(Seq(Bytes)) /\ whole \in BOOLEAN
  BY DEF Plain, FrameTypes
<1>1. /\ size = -1 => got = 0 /\ Len(header) < HeaderSize
      /\ size # -1 => /\ size \in 1..MaxMessageSize /\ got \in 0..(size - 1)
                      /\ Len(header) = HeaderSize /\ size = Uint32(header)
  BY DEF Plain, ReaderAt
<1>2. ASSUME UNCHANGED <<writer, sent, delivered>>, wire' \in Seq(Bytes),
             header' \in Seq(Bytes), buffer' \in [1..MaxMessageSize -> Bytes],
             whole' \in BOOLEAN, ReaderAt'
      PROVE  Plain'
  BY <1>2 DEF Plain, FrameTypes, WriterAt, writer
<1>3. CASE \E n \in Pieces : readFrameSize(n)
  <2>1. PICK n \in Pieces : readFrameSize(n)
    BY <1>3
  <2> DEFINE h == header \o SubSeq(wire, 1, n)
  <2>2. /\ UNCHANGED <<writer, sent, buffer>> /\ n \in 1..Len(wire)
        /\ n <= HeaderSize - Len(header) /\ size = -1 /\ got = 0
        /\ wire' = SubSeq(wire, n + 1, Len(wire))
        /\ IF Len(h) = HeaderSize THEN FrameSize(h)
           ELSE header' = h /\ UNCHANGED <<size, got, delivered, whole>>
    BY <2>1, <1>1, Zenon DEF readFrameSize
  <2>3. n \in 0..Len(wire) /\ Len(header) \in Nat /\ n \in Nat
    BY <1>0, <2>2, SMTT(30)
  <2>4. wire' \in Seq(Bytes) /\ h \in Seq(Bytes) /\ Len(h) = Len(header) + n
    BY <1>0, <2>2, <2>3, SplitFacts, JoinFacts, SMTT(30) DEF JoinOf
  <2>5. Uint32(h) \in Nat
    BY <2>4, Uint32Type, Zenon
  <2> HIDE DEF h
  <2>6. CASE Len(h) # HeaderSize
    <3>0. n <= HeaderSize - Len(header)
      BY <2>2, Zenon
    <3>1. Len(h) < HeaderSize
      BY <2>3, <2>4, <2>6, <3>0, Sizes, SMTT(30)
    <3>2. header' = h /\ UNCHANGED <<size, got, delivered, whole>>
      BY <2>2, <2>6
    <3>3. size' = -1 /\ got' = 0 /\ Len(header') < HeaderSize
      BY <2>2, <3>1, <3>2
    <3>4. ReaderAt'
      BY <3>3 DEF ReaderAt
    <3> QED
      BY <1>0, <1>2, <2>2, <2>4, <3>2, <3>4, Zenon
  <2>7. CASE Len(h) = HeaderSize /\ Uint32(h) > MaxMessageSize
    <3>1. header' = <<>> /\ whole' = FALSE /\ UNCHANGED <<size, got, delivered>>
      BY <2>2, <2>7 DEF FrameSize
    <3>2. header' \in Seq(Bytes) /\ Len(header') = 0 /\ 0 < HeaderSize
      BY <3>1, Sizes
    <3>3. ReaderAt'
      BY <2>2, <3>1, <3>2 DEF ReaderAt
    <3> QED
      BY <1>0, <1>2, <2>2, <2>4, <3>1, <3>2, <3>3, Zenon
  <2>8. CASE Len(h) = HeaderSize /\ ~(Uint32(h) > MaxMessageSize) /\ Uint32(h) = 0
    <3>1. Deliver(<<>>) /\ UNCHANGED whole
      BY <2>2, <2>8 DEF FrameSize
    <3>2. <<>> \in Seq(Bytes)
      OBVIOUS
    <3> QED
      BY <1>0, <2>2, <2>4, <3>1, <3>2, DeliverPlain, Zenon
  <2>9. CASE Len(h) = HeaderSize /\ ~(Uint32(h) > MaxMessageSize) /\ Uint32(h) # 0
    <3>1. size' = Uint32(h) /\ header' = h /\ UNCHANGED <<got, delivered, whole>>
      BY <2>2, <2>9 DEF FrameSize
    <3>2. size' \in 1..MaxMessageSize
      BY <2>5, <2>9, <3>1, Sizes, SMTT(30)
    <3>3. got' \in 0..(size' - 1)
      BY <2>2, <3>1, <3>2, Sizes, SMTT(30)
    <3>4. size' # -1
      BY <3>2
    <3>5. ReaderAt'
      BY <2>9, <3>1, <3>2, <3>3, <3>4, Zenon DEF ReaderAt
    <3> QED
      BY <1>0, <1>2, <2>2, <2>4, <3>1, <3>5, Zenon
  <2> QED
    BY <2>6, <2>7, <2>8, <2>9
<1>4. CASE \E n \in Pieces : readFrameInto(n)
  <2>1. PICK n \in Pieces : readFrameInto(n)
    BY <1>4, Zenon
  <2>2. /\ UNCHANGED <<writer, sent, whole>> /\ n \in 1..Len(wire)
        /\ n <= size - got /\ size > 0
        /\ wire' = SubSeq(wire, n + 1, Len(wire))
        /\ IF got + n = size THEN Deliver(SubSeq(buffer', 1, size))
           ELSE got' = got + n /\ UNCHANGED <<header, size, delivered>>
    BY <2>1 DEF readFrameInto
  <2>3. size # -1
    BY <2>2
  <2>4. /\ n \in 0..Len(wire) /\ n \in Nat /\ got \in Nat /\ got < size
        /\ size \in 1..MaxMessageSize
    BY <1>0, <1>1, <2>2, <2>3, Sizes, SMTT(30)
  <2>5. wire' \in Seq(Bytes)
    BY <1>0, <2>2, <2>4, SplitFacts
  <2>6. buffer' \in [1..MaxMessageSize -> Bytes]
    <3>1. buffer' = [i \in 1..MaxMessageSize |->
                  IF i > got /\ i <= got + n THEN wire[i - got] ELSE buffer[i]]
      BY <1>0, <2>1 DEF readFrameInto
    <3>2. ASSUME NEW i \in 1..MaxMessageSize, i > got, i <= got + n
          PROVE  wire[i - got] \in Bytes
      <4>1. i - got \in 1..Len(wire)
        BY <1>0, <2>2, <2>4, <3>2, Sizes, SMTT(30)
      <4> QED
        BY <1>0, <4>1, ElementOfSeq, Zenon
    <3> QED
      BY <1>0, <3>1, <3>2
  <2>7. CASE got + n = size
    <3>1. Deliver(SubSeq(buffer', 1, size))
      BY <2>2, <2>7
    <3>2. SubSeq(buffer', 1, size) \in Seq(Bytes)
      <4>1. buffer' \in Seq(Bytes) /\ Len(buffer') = MaxMessageSize
        BY <2>6, Sizes
      <4>2. size \in 0..Len(buffer')
        BY <2>4, <4>1, Sizes
      <4> QED
        BY <4>1, <4>2, SplitFacts
    <3> QED
      BY <2>2, <2>5, <2>6, <3>1, <3>2, DeliverPlain, Zenon
  <2>8. CASE got + n # size
    <3>1. got' = got + n /\ UNCHANGED <<header, size, delivered>>
      BY <2>2, <2>8
    <3>2. got' \in 0..(size - 1)
      BY <2>2, <2>4, <2>8, <3>1, Sizes, SMTT(30)
    <3>3. ReaderAt'
      BY <1>1, <2>3, <3>1, <3>2 DEF ReaderAt
    <3> QED
      BY <1>0, <1>2, <2>2, <2>5, <2>6, <3>1, <3>3, Zenon
  <2> QED
    BY <2>7, <2>8
<1>5. CASE readFail
  <2>1. /\ UNCHANGED <<writer, wire, buffer, sent, delivered>>
        /\ header' = <<>> /\ size' = -1 /\ got' = 0
    BY <1>5 DEF readFail
  <2>2. whole' \in BOOLEAN
    BY <1>5 DEF readFail
  <2>3. header' \in Seq(Bytes) /\ Len(header') = 0 /\ 0 < HeaderSize
    BY <2>1, Sizes
  <2>4. ReaderAt'
    BY <2>1, <2>3 DEF ReaderAt
  <2> QED
    BY <1>0, <1>2, <2>1, <2>2, <2>3, <2>4, Zenon
<1> QED
  BY <1>3, <1>4, <1>5

LEMMA PlainInit == Init => Plain
<1> SUFFICES ASSUME Init PROVE Plain
  OBVIOUS
<1>1. 0 \in Bytes
  BY FrameAssumption DEF Bytes
<1>2. FrameTypes
  BY <1>1 DEF Init, FrameTypes
<1>3. WriterAt
  BY DEF Init, WriterAt
<1>4. size = -1 /\ got = 0 /\ Len(header) = 0 /\ 0 < HeaderSize
  BY Sizes DEF Init
<1>5. ReaderAt
  BY <1>4 DEF ReaderAt
<1> QED
  BY <1>2, <1>3, <1>5 DEF Plain

LEMMA PlainNext == Plain /\ [Next]_vars => Plain'
<1> SUFFICES ASSUME Plain, [Next]_vars PROVE Plain'
  BY Zenon
<1>1. CASE UNCHANGED vars
  BY <1>1 DEF vars, writer, reader, Plain, FrameTypes, WriterAt, ReaderAt
<1>2. CASE Next
  BY <1>2, WriterPlain, ReaderPlain, Zenon DEF Next, Writing, Reading
<1> QED
  BY <1>1, <1>2

-----------------------------------------------------------------------------
(***************************************************************************)
(* Alignment is kept.                                                      *)
(***************************************************************************)
LEMMA Lengths ==
  ASSUME Plain
  PROVE  /\ Len(header) \in Nat /\ got \in Nat /\ Len(wire) \in Nat
         /\ Len(data) \in Nat /\ Len(payload) \in Nat
         /\ Read \in Nat /\ Arrived \in Nat /\ Begun \in Nat /\ Total \in Nat
         /\ Begun <= Total
<1>1. /\ Len(header) \in Nat /\ Len(wire) \in Nat
      /\ Len(data) \in Nat /\ Len(payload) \in Nat
  BY DEF Plain, FrameTypes
<1>2. got \in Nat
  BY Sizes DEF Plain, ReaderAt
<1>3. Read \in Nat /\ Arrived \in Nat /\ Begun \in Nat
  BY <1>1, <1>2 DEF Read, Arrived, Begun
<1>4. Total \in Nat /\ Begun <= Total
  BY <1>1, <1>3, SMTT(30) DEF Total
<1> QED
  BY <1>1, <1>2, <1>3, <1>4, Zenon

\* Where the bytes ahead are.
Laid ==
  /\ \A j \in 1..Len(header) : Ahead(j) = header[j]
  /\ \A j \in (Len(header) + 1)..Read : Ahead(j) = buffer[j - Len(header)]
  /\ \A j \in (Read + 1)..Arrived : Ahead(j) = wire[j - Read]
  /\ \A j \in (Arrived + 1)..Begun : Ahead(j) = data[j - Arrived]
  /\ \A j \in (Begun + 1)..(Begun + Len(payload)) : Ahead(j) = payload[j - Begun]

LEMMA AheadIs == Plain => Laid
<1> SUFFICES ASSUME Plain PROVE Laid
  OBVIOUS
<1>1. /\ Len(header) \in Nat /\ got \in Nat /\ Len(wire) \in Nat
      /\ Len(data) \in Nat /\ Len(payload) \in Nat
  BY Lengths
<1> QED
  BY <1>1, SMTT(30) DEF Laid, Ahead, Begun, Arrived, Read

\* The frames stay where they are, whoever holds their bytes.
LEMMA Kept ==
  ASSUME InStep, whole' => whole, Queue' = Queue, UNCHANGED delivered,
         Len(delivered) <= Len(sent) => Len(delivered) <= Len(sent'),
         Total' = Total, \A j \in 1..Total : Ahead(j)' = Ahead(j)
  PROVE  InStep'
<1> SUFFICES ASSUME whole'
             PROVE  (/\ Len(delivered) <= Len(sent)
                     /\ \E at \in [Nat -> Int] : \E F \in [Int -> Int] :
                          Framed(at, F, Queue, Len(delivered)) /\ Carried(at, F))'
  BY Zenon DEF InStep
<1>1. PICK at \in [Nat -> Int], F \in [Int -> Int] :
        Framed(at, F, Queue, Len(delivered)) /\ Carried(at, F)
  BY Zenon DEF InStep
<1>2. Len(delivered') <= Len(sent')
  BY DEF InStep
<1>3. Framed(at, F, Queue', Len(delivered'))
  BY <1>1
<1>4. Carried(at, F)'
  BY <1>1, Zenon DEF Carried
<1> QED
  BY <1>2, <1>3, <1>4, Zenon

\* writeFrame puts a frame behind the others.
LEMMA WriteFrameAligned ==
  ASSUME FInv, Plain', NEW p \in Payloads, writeFrame(p)
  PROVE  InStep'
<1>0. Plain /\ InStep
  BY DEF FInv, Plain
<1>l. Laid'
  BY AheadIs, PTL
<1>1. UNCHANGED <<reader, delivered, wire, sent, whole>> /\ wpc = "idle"
  BY DEF writeFrame
<1>2. CASE Len(p) > maxFramePayloadSize
  <2>1. UNCHANGED <<wpc, data, payload>>
    BY <1>2 DEF writeFrame, writer
  <2>2. Read' = Read /\ Arrived' = Arrived /\ Begun' = Begun /\ UNCHANGED <<header, buffer>>
    BY <1>1, <2>1 DEF Begun, Arrived, Read, reader
  <2>3. Total' = Total
    BY <2>1, <2>2, Zenon DEF Total
  <2>4. \A j \in 1..Total : Ahead(j)' = Ahead(j)
    BY <1>1, <2>1, <2>2, Zenon DEF Ahead
  <2>5. Queue' = Queue
    BY <1>1, <2>1 DEF Queue
  <2> QED
    BY <1>0, <1>1, <2>3, <2>4, <2>5, Kept, Zenon
<1>3. CASE ~(Len(p) > maxFramePayloadSize)
  <2> DEFINE d == Len(delivered)
             q == sent
             b == Arrived
  <2>1. wpc' = "header" /\ data' = PutUint32(Len(p)) /\ payload' = p
    BY <1>3 DEF writeFrame
  <2>2. p \in Seq(Bytes) /\ Len(p) \in Nat /\ Len(p) <= maxFramePayloadSize
    BY <1>3, Sizes, SMTT(30)
  <2>3. Len(data') = HeaderSize
    <3>1. Len(p) \in 0..maxFramePayloadSize
      BY <2>2, Sizes
    <3> QED
      BY <2>1, <3>1, HeaderReadsBack
  <2>4. Queue = sent /\ Queue' = Append(sent, p)
    BY <1>1, <2>1 DEF Queue
  <2>5. Len(data) = 0
    BY <1>0, <1>1, SMTT(30) DEF Plain, WriterAt
  <2>6. Arrived \in Nat /\ Total = Arrived
    BY <1>0, <1>1, <2>5, Lengths, SMTT(30) DEF Total, Begun
  <2>7. Read' = Read /\ Arrived' = Arrived /\ UNCHANGED <<header, buffer, wire>>
    BY <1>1 DEF Arrived, Read, reader
  <2>8. Begun' = Arrived + HeaderSize /\ Total' = Arrived + HeaderSize + Len(p)
    BY <2>1, <2>3, <2>7, Zenon DEF Total, Begun
  <2> SUFFICES ASSUME whole'
               PROVE  (/\ Len(delivered) <= Len(sent)
                       /\ \E at \in [Nat -> Int] : \E F \in [Int -> Int] :
                            Framed(at, F, Queue, Len(delivered)) /\ Carried(at, F))'
    BY Zenon DEF InStep
  <2>9. PICK at \in [Nat -> Int], F \in [Int -> Int] :
          Framed(at, F, sent, d) /\ Carried(at, F)
    BY <1>0, <1>1, <2>4, Zenon DEF InStep
  <2>10. /\ d \in Nat /\ Len(sent) \in Nat /\ d <= Len(sent) /\ d \in 0..Len(sent)
         /\ sent \in Seq(Seq(Bytes))
    <3>1. sent \in Seq(Seq(Bytes)) /\ delivered \in Seq(Seq(Bytes))
      BY <1>0 DEF Plain, FrameTypes
    <3>2. d <= Len(sent)
      BY <1>0, <1>1 DEF InStep
    <3>3. d \in Nat /\ Len(sent) \in Nat
      BY <3>1, LenProperties, Zenon
    <3> QED
      BY <3>1, <3>2, <3>3, SMTT(30)
  <2>11. PICK a \in [Nat -> Int], G \in [Int -> Int] :
              Extends(a, G, at, F, sent, d, p)
    <3>1. /\ sent \in Seq(Seq(Bytes)) /\ d \in 0..Len(sent) /\ p \in Seq(Bytes)
          /\ Len(p) <= maxFramePayloadSize
          /\ at \in [Nat -> Int] /\ F \in [Int -> Int] /\ Framed(at, F, sent, d)
      BY <2>2, <2>9, <2>10, Zenon
    <3> HIDE DEF d
    <3> QED
      BY <3>1, FrameAdded, Zenon
  <2>e. /\ Framed(a, G, Append(sent, p), d)
        /\ a[d] = at[d] /\ a[Len(sent) + 1] = at[Len(sent)] + HeaderSize + Len(p)
        /\ \A j \in Int : j <= at[Len(sent)] => G[j] = F[j]
        /\ \A k \in 1..HeaderSize : G[at[Len(sent)] + k] = PutUint32(Len(p))[k]
        /\ \A k \in 1..Len(p) : G[at[Len(sent)] + HeaderSize + k] = p[k]
    BY <2>11 DEF Extends
  <2>12. PICK z \in Int : /\ at[d] = z /\ at[Len(sent)] = z + Arrived
                          /\ \A j \in 1..Arrived : Ahead(j) = F[z + j]
    <3>1. at[d] \in Int
      BY <2>10
    <3> QED
      BY <2>4, <2>6, <2>9, <3>1, Zenon DEF Carried
  <2>13. \A j \in 1..Arrived : Ahead(j)' = G[a[d] + j]
    <3> SUFFICES ASSUME NEW j \in 1..Arrived PROVE Ahead(j)' = G[a[d] + j]
      BY Zenon
    <3>1. Ahead(j)' = Ahead(j)
      BY <2>7 DEF Ahead
    <3>2. z + j \in Int /\ z + j <= z + Arrived
      BY <2>6
    <3>3. G[z + j] = F[z + j]
      BY <2>e, <2>12, <3>2, Zenon
    <3> QED
      BY <2>e, <2>12, <3>1, <3>3, Zenon
  <2>14. \A j \in (Arrived + 1)..(Arrived + HeaderSize) : Ahead(j)' = G[a[d] + j]
    <3> SUFFICES ASSUME NEW j \in (Arrived + 1)..(Arrived + HeaderSize)
                 PROVE  Ahead(j)' = G[a[d] + j]
      OBVIOUS
    <3>1. j - Arrived \in 1..HeaderSize /\ (z + Arrived) + (j - Arrived) = z + j
      BY <2>6, Sizes, SMTT(30)
    <3>2. Ahead(j)' = data'[j - Arrived]
      <4>1. j \in (Arrived' + 1)..Begun'
        BY <2>7, <2>8, Zenon
      <4>2. \A k \in (Arrived' + 1)..Begun' : Ahead(k)' = data'[k - Arrived']
        BY <1>l DEF Laid
      <4> QED
        BY <2>7, <4>1, <4>2, Zenon
    <3>3. G[(z + Arrived) + (j - Arrived)] = data'[j - Arrived]
      BY <2>1, <2>e, <2>12, <3>1, Zenon
    <3> QED
      BY <2>e, <2>12, <3>1, <3>2, <3>3, Zenon
  <2>15. \A j \in (Arrived + HeaderSize + 1)..(Arrived + HeaderSize + Len(p)) :
            Ahead(j)' = G[a[d] + j]
    <3> SUFFICES ASSUME NEW j \in (Arrived + HeaderSize + 1)..(Arrived + HeaderSize + Len(p))
                 PROVE  Ahead(j)' = G[a[d] + j]
      OBVIOUS
    <3> DEFINE k == j - (Arrived + HeaderSize)
    <3>1. k \in 1..Len(p) /\ (z + Arrived) + HeaderSize + k = z + j
      BY <2>2, <2>6, Sizes, SMTT(30)
    <3>2. Ahead(j)' = payload'[k]
      <4>1. j \in (Begun' + 1)..(Begun' + Len(payload'))
        BY <2>1, <2>8, Zenon
      <4>2. \A i \in (Begun' + 1)..(Begun' + Len(payload')) : Ahead(i)' = payload'[i - Begun']
        BY <1>l DEF Laid
      <4> QED
        BY <2>8, <4>1, <4>2, Zenon
    <3>3. G[(z + Arrived) + HeaderSize + k] = payload'[k]
      BY <2>1, <2>e, <2>12, <3>1, Zenon
    <3> QED
      BY <2>e, <2>12, <3>1, <3>2, <3>3, Zenon
  <2>16. \A j \in 1..Total' : Ahead(j)' = G[a[d] + j]
    <3> SUFFICES ASSUME NEW j \in 1..Total' PROVE Ahead(j)' = G[a[d] + j]
      OBVIOUS
    <3>1. \/ j \in 1..Arrived \/ j \in (Arrived + 1)..(Arrived + HeaderSize)
          \/ j \in (Arrived + HeaderSize + 1)..(Arrived + HeaderSize + Len(p))
      BY <2>2, <2>6, <2>8, Sizes, SMTT(30)
    <3> QED
      BY <2>13, <2>14, <2>15, <3>1, Zenon
  <2>17. Len(Queue') = Len(sent) + 1 /\ Len(delivered') = d
    BY <1>1, <2>2, <2>4, <2>10, AppendFacts, Zenon
  <2>18. a[Len(Queue')] = a[Len(delivered')] + Total'
    <3>1. (z + Arrived) + HeaderSize + Len(p) = z + (Arrived + HeaderSize + Len(p))
      BY <2>2, <2>6, Sizes, SMTT(30)
    <3> QED
      BY <2>8, <2>e, <2>12, <2>17, <3>1, Zenon
  <2>19. Carried(a, G)'
    BY <2>16, <2>17, <2>18, Zenon DEF Carried
  <2>20. Framed(a, G, Queue', Len(delivered'))
    BY <2>4, <2>e, <2>17, Zenon
  <2>21. Len(delivered') <= Len(sent')
    BY <1>1, <2>10, Zenon
  <2> QED
    BY <2>19, <2>20, <2>21, Zenon
<1> QED
  BY <1>2, <1>3

\* What a Write takes of the data goes to the end of the wire.
LEMMA WireFacts ==
  ASSUME Plain, NEW n \in 0..Len(data), wire' = wire \o SubSeq(data, 1, n)
  PROVE  /\ Len(wire') = Len(wire) + n
         /\ \A j \in 1..Len(wire) : wire'[j] = wire[j]
         /\ \A j \in (Len(wire) + 1)..(Len(wire) + n) : wire'[j] = data[j - Len(wire)]
<1> DEFINE s == SubSeq(data, 1, n)
<1>1. wire \in Seq(Bytes) /\ data \in Seq(Bytes) /\ Len(wire) \in Nat /\ n \in Nat
  BY DEF Plain, FrameTypes
<1>2. s \in Seq(Bytes) /\ Len(s) = n /\ \A j \in 1..n : s[j] = data[j]
  BY <1>1, SplitFacts
<1> HIDE DEF s
<1>3. /\ Len(wire \o s) = Len(wire) + n
      /\ \A j \in 1..Len(wire) : (wire \o s)[j] = wire[j]
      /\ \A j \in (Len(wire) + 1)..(Len(wire) + n) : (wire \o s)[j] = s[j - Len(wire)]
  <2>1. JoinOf(wire, s)
    BY <1>1, <1>2, JoinFacts, Zenon
  <2> QED
    BY <1>2, <2>1, Zenon DEF JoinOf
<1>4. \A j \in (Len(wire) + 1)..(Len(wire) + n) : j - Len(wire) \in 1..n
  BY <1>1
<1>5. wire' = wire \o s
  BY DEF s
<1> QED
  BY <1>2, <1>3, <1>4, <1>5, Zenon

\* A Write moves bytes of the data to the wire.
LEMMA WriteAllAligned ==
  ASSUME FInv, Plain', NEW n \in Pieces, writeAll(n)
  PROVE  InStep'
<1>0. Plain /\ InStep
  BY DEF FInv, Plain
<1>l. Laid /\ Laid'
  BY <1>0, AheadIs, PTL
<1>1. /\ UNCHANGED <<header, got, buffer, delivered, payload, whole>>
      /\ n \in 1..Len(data) /\ wire' = wire \o SubSeq(data, 1, n)
  BY DEF writeAll, reader
<1>2. /\ Len(header) \in Nat /\ got \in Nat /\ Len(wire) \in Nat
      /\ Len(data) \in Nat /\ Len(payload) \in Nat
      /\ Read \in Nat /\ Arrived \in Nat /\ Begun \in Nat /\ Total \in Nat
  BY <1>0, Lengths
<1>3. n \in Nat /\ n \in 0..Len(data) /\ n <= Len(data) /\ 0 < n
  BY <1>1, <1>2, SMTT(30)
<1>4. /\ Len(wire') = Len(wire) + n
      /\ \A j \in 1..Len(wire) : wire'[j] = wire[j]
      /\ \A j \in (Len(wire) + 1)..(Len(wire) + n) : wire'[j] = data[j - Len(wire)]
  BY <1>0, <1>1, <1>3, WireFacts, Zenon
<1>5. Read' = Read /\ Arrived' = Arrived + n
  BY <1>1, <1>2, <1>3, <1>4, SMTT(30) DEF Arrived, Read
<1>a. Arrived = Read + Len(wire) /\ Begun = Arrived + Len(data)
      /\ Begun' = Arrived + n + Len(data') /\ Read >= Len(header)
  BY <1>2, <1>5 DEF Arrived, Begun, Read
<1>6. \A j \in 1..(Arrived + n) : Ahead(j)' = Ahead(j)
  <2> SUFFICES ASSUME NEW j \in 1..(Arrived + n) PROVE Ahead(j)' = Ahead(j)
    OBVIOUS
  <2>1. CASE j \in 1..Read
    BY <1>1, <1>2, <1>5, <2>1 DEF Ahead
  <2>2. CASE j \in (Read + 1)..Arrived
    <3>1. j \in (Read' + 1)..Arrived' /\ j - Read \in 1..Len(wire)
      BY <1>2, <1>3, <1>5, <1>a, <2>2, SMTT(30)
    <3>2. Ahead(j)' = wire'[j - Read]
      BY <1>l, <1>5, <3>1, Zenon DEF Laid
    <3>3. Ahead(j) = wire[j - Read]
      BY <1>l, <2>2 DEF Laid
    <3> QED
      BY <1>4, <3>1, <3>2, <3>3, Zenon
  <2>3. CASE j \in (Arrived + 1)..(Arrived + n)
    <3>1. /\ j \in (Read' + 1)..Arrived' /\ j \in (Arrived + 1)..Begun
          /\ j - Read \in (Len(wire) + 1)..(Len(wire) + n)
          /\ (j - Read) - Len(wire) = j - Arrived
      BY <1>2, <1>3, <1>5, <1>a, <2>3, SMTT(30)
    <3>2. Ahead(j)' = wire'[j - Read]
      BY <1>l, <1>5, <3>1 DEF Laid
    <3>3. Ahead(j) = data[j - Arrived]
      BY <1>l, <3>1 DEF Laid
    <3> QED
      BY <1>4, <3>1, <3>2, <3>3, Zenon
  <2> QED
    BY <1>2, <1>3, <1>a, <2>1, <2>2, <2>3, SMTT(30)
<1>7. wpc # "idle"
  BY <1>0, <1>2, <1>3 DEF Plain, WriterAt
<1>8. CASE n # Len(data)
  <2>1. data' = SubSeq(data, n + 1, Len(data)) /\ UNCHANGED <<wpc, sent>>
    BY <1>8 DEF writeAll
  <2>2. Len(data') = Len(data) - n /\ \A j \in 1..(Len(data) - n) : data'[j] = data[n + j]
    BY <1>0, <1>3, <2>1, SplitFacts, Zenon DEF Plain, FrameTypes
  <2>3. Begun' = Begun
    BY <1>2, <1>3, <1>a, <2>2
  <2>4. Total' = Total /\ Queue' = Queue
    BY <1>1, <2>1, <2>3, Zenon DEF Total, Queue
  <2>5. \A j \in 1..Total : Ahead(j)' = Ahead(j)
    <3> SUFFICES ASSUME NEW j \in 1..Total PROVE Ahead(j)' = Ahead(j)
      OBVIOUS
    <3>1. CASE j \in (Arrived + n + 1)..Begun
      <4>1. /\ j \in (Arrived' + 1)..Begun' /\ j \in (Arrived + 1)..Begun
            /\ j - Arrived' \in 1..(Len(data) - n) /\ n + (j - Arrived') = j - Arrived
        BY <1>2, <1>3, <1>5, <1>a, <2>3, <3>1, SMTT(30)
      <4>2. Ahead(j)' = data'[j - Arrived'] /\ Ahead(j) = data[j - Arrived]
        BY <1>l, <4>1, Zenon DEF Laid
      <4> QED
        BY <2>2, <4>1, <4>2, Zenon
    <3>2. CASE j > Begun
      <4>1. ~(j <= Len(header)) /\ ~(j <= Read) /\ ~(j <= Arrived) /\ ~(j <= Arrived + n)
        BY <1>2, <1>3, <1>a, <3>2, SMTT(30)
      <4> QED
        BY <1>1, <1>2, <1>5, <2>3, <3>2, <4>1, SMTT(30) DEF Ahead
    <3>3. j \in 1..(Arrived + n) \/ j \in (Arrived + n + 1)..Begun \/ j > Begun
      BY <1>2, <1>3
    <3> QED
      BY <1>6, <3>1, <3>2, <3>3, Zenon
  <2> QED
    BY <1>0, <1>1, <2>1, <2>4, <2>5, Kept, Zenon
<1>9. CASE n = Len(data) /\ wpc = "header" /\ payload # <<>>
  <2>1. wpc' = "payload" /\ data' = payload /\ sent' = sent
    BY <1>9 DEF writeAll, Written
  <2>2. Arrived' = Begun /\ Begun' = Begun + Len(payload)
    BY <1>2, <1>5, <1>9, <1>a, <2>1, Zenon
  <2>3. Total' = Total /\ Total = Begun + Len(payload)
    BY <1>9, <2>1, <2>2 DEF Total
  <2>4. Queue' = Queue
    BY <1>1, <1>9, <2>1, Zenon DEF Queue
  <2>5. \A j \in 1..Total : Ahead(j)' = Ahead(j)
    <3> SUFFICES ASSUME NEW j \in 1..Total PROVE Ahead(j)' = Ahead(j)
      OBVIOUS
    <3>1. CASE j \in (Begun + 1)..(Begun + Len(payload))
      <4>1. Ahead(j)' = data'[j - Arrived'] /\ Ahead(j) = payload[j - Begun]
        BY <1>l, <2>2, <3>1, Zenon DEF Laid
      <4> QED
        BY <2>1, <2>2, <4>1, Zenon
    <3>2. j \in 1..(Arrived + n) \/ j \in (Begun + 1)..(Begun + Len(payload))
      BY <1>2, <1>9, <1>a, <2>3, SMTT(30)
    <3> QED
      BY <1>6, <3>1, <3>2, Zenon
  <2> QED
    BY <1>0, <1>1, <2>1, <2>3, <2>4, <2>5, Kept, Zenon
<1>10. CASE n = Len(data) /\ ~(wpc = "header" /\ payload # <<>>)
  <2>1. wpc' = "idle" /\ data' = <<>> /\ sent' = Append(sent, payload)
    BY <1>10 DEF writeAll, Written
  <2>2. Queue' = Queue
    BY <1>7, <2>1 DEF Queue
  <2>3. Begun' = Begun /\ Begun = Arrived + n
    BY <1>2, <1>3, <1>10, <1>a, <2>1, SMTT(30)
  <2>4. Total' = Begun
    BY <2>1, <2>3 DEF Total
  <2>5. Total = Begun
    BY <1>2, <1>10 DEF Total
  <2>6. Len(delivered) <= Len(sent) => Len(delivered) <= Len(sent')
    <3>1. Len(delivered) \in Nat /\ Len(sent) \in Nat /\ Len(sent') = Len(sent) + 1
      BY <1>0, <2>1, SMTT(30) DEF Plain, FrameTypes
    <3> QED
      BY <3>1, SMTT(30)
  <2>7. \A j \in 1..Total : Ahead(j)' = Ahead(j)
    BY <1>6, <2>3, <2>5, Zenon
  <2>8. Total' = Total
    BY <2>4, <2>5
  <2> QED
    BY <1>0, <1>1, <2>2, <2>6, <2>7, <2>8, Kept, Zenon
<1> QED
  BY <1>8, <1>9, <1>10

\* A Write that fails before the first byte takes the last frame back.
LEMMA WriteFailAligned ==
  ASSUME FInv, Plain', NEW n \in {0} \cup Pieces, writeFail(n)
  PROVE  InStep'
<1>0. Plain /\ InStep
  BY Zenon DEF FInv, Plain
<1>1. /\ UNCHANGED <<header, got, buffer, delivered, payload, sent>>
      /\ wpc # "idle" /\ wpc' = "idle" /\ data' = <<>>
      /\ n \in 0..Len(data) /\ wire' = wire \o SubSeq(data, 1, n)
      /\ whole' = (whole /\ wpc = "header" /\ Len(data) = HeaderSize /\ n = 0)
  BY DEF writeFail, reader
<1> SUFFICES ASSUME whole'
             PROVE  (/\ Len(delivered) <= Len(sent)
                     /\ \E at \in [Nat -> Int] : \E F \in [Int -> Int] :
                          Framed(at, F, Queue, Len(delivered)) /\ Carried(at, F))'
  BY Zenon DEF InStep
<1>2. whole /\ wpc = "header" /\ Len(data) = HeaderSize /\ n = 0
  BY <1>1, Zenon
<1>3. /\ Len(header) \in Nat /\ got \in Nat /\ Len(wire) \in Nat
      /\ Len(data) \in Nat /\ Len(payload) \in Nat
      /\ Read \in Nat /\ Arrived \in Nat /\ Begun \in Nat /\ Total \in Nat
  BY <1>0, Lengths, Zenon
<1>4. Len(wire') = Len(wire) /\ \A j \in 1..Len(wire) : wire'[j] = wire[j]
  BY <1>0, <1>1, <1>2, <1>3, WireFacts, SMTT(30)
<1>5. Read' = Read /\ Arrived' = Arrived /\ Begun' = Arrived /\ Total' = Arrived
  <2>1. Len(data') = 0 /\ wpc' # "header" /\ UNCHANGED <<header, got>>
    BY <1>1
  <2>2. Read' = Read /\ Arrived' = Arrived
    BY <1>4, <2>1 DEF Arrived, Read
  <2>3. Begun' = Arrived
    BY <1>3, <2>1, <2>2, SMTT(30) DEF Begun
  <2> QED
    BY <2>1, <2>2, <2>3, Zenon DEF Total
<1>6. Total = Arrived + HeaderSize + Len(payload)
  BY <1>2, Zenon DEF Total, Begun
<1>7. \A j \in 1..Arrived : Ahead(j)' = Ahead(j)
  <2> SUFFICES ASSUME NEW j \in 1..Arrived PROVE Ahead(j)' = Ahead(j)
    BY Zenon
  <2>1. CASE j <= Read
    BY <1>1, <1>5, <2>1, Zenon DEF Ahead
  <2>2. CASE ~(j <= Read)
    <3>1. ~(j <= Len(header)) /\ j - Read \in 1..Len(wire)
      BY <1>3, <2>2 DEF Arrived, Read
    <3>2. wire'[j - Read] = wire[j - Read]
      BY <1>4, <3>1, Zenon
    <3> QED
      BY <1>1, <1>5, <2>2, <3>1, <3>2, SMTT(30) DEF Ahead
  <2> QED
    BY <2>1, <2>2
<1>8. PICK at \in [Nat -> Int], F \in [Int -> Int] :
        Framed(at, F, Queue, Len(delivered)) /\ Carried(at, F)
  BY <1>0, <1>2, Zenon DEF InStep
<1> DEFINE d == Len(delivered)
           m == Len(sent)
<1>9. /\ d \in Nat /\ m \in Nat /\ Len(Queue) = m + 1 /\ Queue[m + 1] = payload
      /\ \A i \in 1..m : Queue[i] = sent[i]
  <2>1. FrameTypes /\ sent \in Seq(Seq(Bytes))
    BY <1>0 DEF Plain, FrameTypes
  <2> QED
    BY <1>1, <2>1, QueueFacts, LenProperties, Zenon
<1>10. d <= m
  BY <1>0, <1>2 DEF InStep
<1>11. Queue' = sent
  BY <1>1, Zenon DEF Queue
<1>f. /\ \A i, j \in d..(m + 1) : i <= j => at[i] <= at[j]
      /\ \A i \in (d + 1)..(m + 1) :
           /\ at[i] = at[i - 1] + HeaderSize + Len(Queue[i])
           /\ \A k \in 1..HeaderSize : F[at[i - 1] + k] = PutUint32(Len(Queue[i]))[k]
           /\ \A k \in 1..Len(Queue[i]) : F[at[i - 1] + HeaderSize + k] = Queue[i][k]
  BY <1>8, <1>9, Zenon DEF Framed
<1>12. Framed(at, F, sent, d)
  <2>1. \A i \in d..m : i \in d..(m + 1)
    BY <1>9, SMTT(30)
  <2>2. \A i \in (d + 1)..m : i \in (d + 1)..(m + 1) /\ i \in 1..m
    BY <1>9
  <2>3. \A i, j \in d..m : i <= j => at[i] <= at[j]
    BY <1>f, <2>1, Zenon
  <2>4. ASSUME NEW i \in (d + 1)..m
        PROVE  /\ at[i] = at[i - 1] + HeaderSize + Len(sent[i])
               /\ \A k \in 1..HeaderSize : F[at[i - 1] + k] = PutUint32(Len(sent[i]))[k]
               /\ \A k \in 1..Len(sent[i]) : F[at[i - 1] + HeaderSize + k] = sent[i][k]
    <3>1. Queue[i] = sent[i] /\ i \in (d + 1)..(m + 1)
      BY <1>9, <2>2, Zenon
    <3>2. /\ at[i] = at[i - 1] + HeaderSize + Len(Queue[i])
          /\ \A k \in 1..HeaderSize : F[at[i - 1] + k] = PutUint32(Len(Queue[i]))[k]
          /\ \A k \in 1..Len(Queue[i]) : F[at[i - 1] + HeaderSize + k] = Queue[i][k]
      BY <1>f, <3>1, Zenon
    <3> QED
      BY <3>1, <3>2
  <2> QED
    BY <2>3, <2>4, Zenon DEF Framed
<1>13. PICK z \in Int : /\ at[d] = z /\ at[m + 1] = z + Total
                        /\ \A j \in 1..Total : Ahead(j) = F[z + j]
  <2>1. at[d] \in Int
    BY <1>9
  <2> QED
    BY <1>8, <1>9, <2>1, Zenon DEF Carried
<1>14. at[m + 1] = at[m] + HeaderSize + Len(payload)
  <2>1. m + 1 \in (d + 1)..(m + 1) /\ (m + 1) - 1 = m
    BY <1>9, <1>10
  <2>2. \A i \in (d + 1)..(m + 1) : at[i] = at[i - 1] + HeaderSize + Len(Queue[i])
    BY <1>f, Zenon
  <2>3. PICK i \in (d + 1)..(m + 1) : i = m + 1 /\ i - 1 = m
    BY <2>1, Zenon
  <2> QED
    BY <1>9, <2>2, <2>3, Zenon
<1>15. at[m] = z + Arrived
  <2>1. PICK y \in Int : at[m] = y
    BY <1>9, Zenon
  <2>2. z + (Arrived + HeaderSize + Len(payload)) = y + HeaderSize + Len(payload)
    BY <1>6, <1>13, <1>14, <2>1, Zenon
  <2>3. y = z + Arrived
    BY <1>3, <2>2, Sizes, SMTT(30)
  <2> QED
    BY <2>1, <2>3, Zenon
<1>16. Carried(at, F)'
  <2>1. \A j \in 1..Arrived : j \in 1..Total
    BY <1>3, <1>6, Sizes, SMTT(30)
  <2>2. \A j \in 1..Arrived : Ahead(j)' = F[z + j]
    BY <1>7, <1>13, <2>1, Zenon
  <2> QED
    BY <1>1, <1>5, <1>11, <1>13, <1>15, <2>2, Zenon DEF Carried
<1> QED
  BY <1>1, <1>10, <1>11, <1>12, <1>16, Zenon

\* A header that the reader can complete announces the next message, and when
\* the bytes it announces have arrived, the whole frame has been written.
LEMMA FrameComplete ==
  ASSUME NEW h
  PROVE  /\ FInv /\ whole /\ h \in Seq(Bytes) /\ Len(h) = HeaderSize
         /\ HeaderSize + Uint32(h) <= Arrived
         /\ \A k \in 1..HeaderSize : Ahead(k) = h[k]
         => /\ Len(delivered) < Len(sent)
            /\ Len(sent[Len(delivered) + 1]) = Uint32(h)
            /\ \A k \in 1..Uint32(h) :
                 Ahead(HeaderSize + k) = sent[Len(delivered) + 1][k]
<1> DEFINE d == Len(delivered)
           m == Len(sent)
           q == Len(Queue)
<1>h. SUFFICES ASSUME /\ FInv /\ whole /\ h \in Seq(Bytes) /\ Len(h) = HeaderSize
                      /\ HeaderSize + Uint32(h) <= Arrived
                      /\ \A k \in 1..HeaderSize : Ahead(k) = h[k]
               PROVE  /\ d < m /\ Len(sent[d + 1]) = Uint32(h)
                      /\ \A k \in 1..Uint32(h) : Ahead(HeaderSize + k) = sent[d + 1][k]
  OBVIOUS
<1>0. Plain /\ InStep /\ FrameTypes
  BY <1>h DEF FInv, Plain
<1>1. /\ Read \in Nat /\ Arrived \in Nat /\ Begun \in Nat /\ Total \in Nat
      /\ Len(data) \in Nat /\ Len(payload) \in Nat /\ Begun <= Total
  BY <1>0, Lengths
<1>2. Uint32(h) \in Nat /\ HeaderSize + Uint32(h) <= Arrived
  BY <1>h, Uint32Type, Zenon
<1>3. PICK at \in [Nat -> Int], F \in [Int -> Int] :
        Framed(at, F, Queue, d) /\ Carried(at, F)
  BY <1>h, <1>0, Zenon DEF InStep
<1>4. /\ d \in Nat /\ m \in Nat /\ q \in Nat /\ d <= m
      /\ \A i \in 1..q : Queue[i] \in Seq(Bytes) /\ Len(Queue[i]) \in Nat
      /\ wpc = "idle" => Queue = sent
      /\ wpc # "idle" => q = m + 1 /\ Queue[q] = payload
      /\ \A i \in 1..m : Queue[i] = sent[i]
  <2>1. sent \in Seq(Seq(Bytes))
    BY <1>0 DEF FrameTypes
  <2>2. d <= m
    BY <1>h, <1>0 DEF InStep
  <2>3. m \in Nat
    BY <2>1, LenProperties, Zenon
  <2> QED
    BY <1>0, <2>2, <2>3, QueueFacts, Zenon
<1>5. m <= q
  <2>1. CASE wpc = "idle"
    BY <1>4, <2>1, SMTT(30)
  <2>2. CASE wpc # "idle"
    BY <1>4, <2>2
  <2> QED
    BY <2>1, <2>2, Zenon
<1>6. PICK z \in Int : /\ at[d] = z /\ at[q] = z + Total
                       /\ \A j \in 1..Total : Ahead(j) = F[z + j]
  <2>1. at[d] \in Int
    BY <1>4, Zenon
  <2> QED
    BY <1>3, <2>1, Zenon DEF Carried
<1> HIDE DEF d, m, q
<1>n. d \in Nat /\ m \in Nat /\ q \in Nat /\ d <= m
  BY <1>4, Zenon
<1>s. HeaderSize \in Nat /\ 0 < HeaderSize
  BY FrameAssumption
<1>u. PICK u \in Nat : u = Uint32(h)
  BY <1>2, Zenon
<1>b. Begun = Arrived + Len(data)
  BY DEF Begun
<1>7. HeaderSize + u <= Arrived /\ HeaderSize <= Arrived /\ Arrived <= Total /\ 0 < Total
  <2>1. HeaderSize + u <= Arrived
    BY <1>2, <1>u, Zenon
  <2>2. HeaderSize <= Arrived
    BY <1>1, <1>s, <2>1, SMTT(30)
  <2>3. Arrived <= Total
    BY <1>1, <1>b, SMTT(30)
  <2> QED
    BY <1>1, <1>s, <2>1, <2>2, <2>3, SMTT(30)
<1>8. d < q
  <2>1. z # z + Total
    BY <1>1, <1>7, SMTT(30)
  <2>2. d # q
    BY <1>6, <2>1, Zenon
  <2> QED
    BY <1>n, <1>5, <2>2, SMTT(30)
<1> DEFINE i == d + 1
           L == Len(Queue[i])
<1>9. i \in (d + 1)..q /\ i - 1 = d /\ i \in 1..q
  BY <1>n, <1>8
<1>10. /\ at[i] = z + HeaderSize + L
       /\ \A k \in 1..HeaderSize : F[z + k] = PutUint32(L)[k]
       /\ \A k \in 1..L : F[z + HeaderSize + k] = Queue[i][k]
  <2>1. \A e \in (d + 1)..q :
          /\ at[e] = at[e - 1] + HeaderSize + Len(Queue[e])
          /\ \A k \in 1..HeaderSize : F[at[e - 1] + k] = PutUint32(Len(Queue[e]))[k]
          /\ \A k \in 1..Len(Queue[e]) : F[at[e - 1] + HeaderSize + k] = Queue[e][k]
    BY <1>3, Zenon DEF Framed, q
  <2>2. /\ at[i] = at[i - 1] + HeaderSize + Len(Queue[i])
        /\ \A k \in 1..HeaderSize : F[at[i - 1] + k] = PutUint32(Len(Queue[i]))[k]
        /\ \A k \in 1..Len(Queue[i]) : F[at[i - 1] + HeaderSize + k] = Queue[i][k]
    <3> HIDE DEF i
    <3> QED
      BY <1>9, <2>1, Zenon
  <2>3. at[i - 1] = z
    BY <1>6, <1>9, Zenon
  <2> HIDE DEF i
  <2> QED
    BY <2>2, <2>3, Zenon
<1>11. L \in 0..maxFramePayloadSize
  <2>1. L \in Nat
    BY <1>4, <1>9, Zenon
  <2>2. CASE i \in 1..m
    <3>1. Queue[i] = sent[i]
      BY <1>4, <2>2
    <3>2. Len(sent[i]) <= maxFramePayloadSize
      BY <1>0, <2>2, Zenon DEF Plain, WriterAt, m
    <3> QED
      BY <2>1, <3>1, <3>2, Sizes, SMTT(30)
  <2>3. CASE i \notin 1..m
    <3>1. m < i
      BY <1>n, <2>3
    <3>2. wpc # "idle"
      <4>1. q # m
        BY <1>n, <1>9, <3>1, SMTT(30)
      <4> QED
        BY <1>4, <4>1, Zenon DEF q, m
    <3>3. i = q
      <4>1. q = m + 1
        BY <1>4, <3>2, Zenon
      <4> QED
        BY <1>n, <1>9, <3>1, <4>1, SMTT(30)
    <3>4. Queue[i] = payload
      BY <1>4, <3>2, <3>3, Zenon
    <3> QED
      BY <1>0, <2>1, <3>2, <3>4, Sizes, SMTT(30) DEF Plain, WriterAt
  <2> QED
    BY <2>2, <2>3, Zenon
<1>12. Uint32(h) = L
  <2>1. /\ PutUint32(L) \in Seq(Bytes) /\ Len(PutUint32(L)) = HeaderSize
        /\ Uint32(PutUint32(L)) = L
    BY <1>11, HeaderReadsBack, Zenon
  <2>2. \A k \in 1..HeaderSize : k \in 1..Total
    BY <1>1, <1>7, Sizes, SMTT(30)
  <2>3. ASSUME NEW k \in 1..HeaderSize PROVE h[k] = PutUint32(L)[k]
    <3>1. Ahead(k) = h[k]
      BY <1>h, Zenon
    <3>2. Ahead(k) = F[z + k]
      BY <1>6, <2>2, Zenon
    <3>3. F[z + k] = PutUint32(L)[k]
      BY <1>10, Zenon
    <3> QED
      BY <3>1, <3>2, <3>3, Zenon
  <2> DEFINE w == PutUint32(L)
  <2>4. w \in Seq(Bytes) /\ Len(w) = Len(h) /\ \A k \in 1..Len(h) : h[k] = w[k]
    <3>1. Len(h) = HeaderSize
      BY <1>h, Zenon
    <3> QED
      BY <2>1, <2>3, <3>1, Zenon
  <2> HIDE DEF w
  <2>5. h = w
    BY <1>h, <2>4, SeqEqual, Zenon
  <2> QED
    BY <2>1, <2>5, Zenon DEF w
<1>13. i <= m
  <2>1. CASE wpc = "idle"
    <3>1. q = m
      BY <1>4, <2>1, Zenon DEF q, m
    <3> QED
      BY <1>9, <3>1, SMTT(30)
  <2>2. CASE wpc # "idle"
    <3>0. SUFFICES ASSUME ~(i <= m) PROVE FALSE
      OBVIOUS
    <3>1. i = q
      <4>1. q = m + 1
        BY <1>4, <2>2
      <4> QED
        BY <1>n, <1>9, <3>0, <4>1
    <3>2. z + Total = z + HeaderSize + L
      BY <1>6, <1>10, <3>1, Zenon
    <3>3. Len(data) > 0
      BY <1>0, <1>1, <2>2, SMTT(30) DEF Plain, WriterAt, FrameTypes
    <3>4. Begun > Arrived
      BY <1>1, <3>3, SMTT(30) DEF Begun
    <3> HIDE DEF L
    <3> QED
      BY <1>1, <1>s, <1>u, <1>7, <1>12, <3>2, <3>4, SMTT(30)
  <2> QED
    BY <2>1, <2>2, Zenon
<1>14. Queue[i] = sent[i]
  <2>1. i \in 1..m
    BY <1>n, <1>13
  <2> QED
    BY <1>4, <2>1, Zenon
<1>15. ASSUME NEW k \in 1..Uint32(h) PROVE Ahead(HeaderSize + k) = sent[i][k]
  <2>0. k \in 1..u
    BY <1>u, Zenon
  <2>1. HeaderSize + k \in 1..Total /\ z + (HeaderSize + k) = z + HeaderSize + k
    BY <1>1, <1>7, <1>s, <2>0, SMTT(30)
  <2>2. Ahead(HeaderSize + k) = F[z + HeaderSize + k]
    BY <1>6, <2>1, Zenon
  <2>3. k \in 1..L
    BY <1>12
  <2> QED
    BY <1>10, <1>14, <2>2, <2>3, Zenon
<1>16. d < m
  BY <1>n, <1>13
<1> QED
  BY <1>12, <1>14, <1>15, <1>16, Zenon

\* The reader takes one whole frame away.
LEMMA FrameTaken ==
  ASSUME NEW h
  PROVE  /\ FInv /\ whole /\ h \in Seq(Bytes) /\ Len(h) = HeaderSize
         /\ HeaderSize + Uint32(h) <= Arrived
         /\ \A k \in 1..HeaderSize : Ahead(k) = h[k]
         /\ UNCHANGED <<writer, sent, whole>> /\ Plain'
         /\ Len(delivered') = Len(delivered) + 1 /\ Len(header') = 0 /\ got' = 0
         /\ Len(wire') = Arrived - (HeaderSize + Uint32(h))
         /\ \A j \in 1..(Arrived - (HeaderSize + Uint32(h))) :
              wire'[j] = Ahead(HeaderSize + Uint32(h) + j)
         => InStep'
<1> DEFINE d == Len(delivered)
           m == Len(sent)
           q == Len(Queue)
<1>h. SUFFICES ASSUME
               /\ FInv /\ whole /\ h \in Seq(Bytes) /\ Len(h) = HeaderSize
               /\ HeaderSize + Uint32(h) <= Arrived
               /\ \A k \in 1..HeaderSize : Ahead(k) = h[k]
               /\ UNCHANGED <<writer, sent, whole>> /\ Plain'
               /\ Len(delivered') = Len(delivered) + 1 /\ Len(header') = 0 /\ got' = 0
               /\ Len(wire') = Arrived - (HeaderSize + Uint32(h))
               /\ \A j \in 1..(Arrived - (HeaderSize + Uint32(h))) :
                    wire'[j] = Ahead(HeaderSize + Uint32(h) + j)
               PROVE  InStep'
  BY Zenon
<1>0. Plain /\ InStep /\ FrameTypes
  BY <1>h DEF FInv, Plain
<1>l. Laid /\ Laid'
  BY <1>h, <1>0, AheadIs, PTL
<1>1. /\ Read \in Nat /\ Arrived \in Nat /\ Begun \in Nat /\ Total \in Nat
      /\ Len(data) \in Nat /\ Len(payload) \in Nat /\ Begun <= Total
  BY <1>0, Lengths
<1>2. d < m /\ Len(sent[d + 1]) = Uint32(h)
  BY <1>h, FrameComplete, Zenon
<1>3. PICK s \in Nat : s = HeaderSize + Uint32(h)
  <2>1. Uint32(h) \in Nat
    BY <1>h, Uint32Type, Zenon
  <2> QED
    BY <2>1, FrameAssumption, SMTT(30)
<1>4. /\ UNCHANGED <<wpc, data, payload, sent, whole>> /\ Len(delivered') = d + 1
      /\ Len(header') = 0 /\ got' = 0
  BY <1>h DEF writer
<1>5. /\ s <= Arrived /\ Len(wire') = Arrived - s
      /\ \A j \in 1..(Arrived - s) : wire'[j] = Ahead(s + j)
  BY <1>h, <1>3, Zenon
<1>6. Read' = 0 /\ Arrived' = Arrived - s
  BY <1>1, <1>4, <1>5, SMTT(30) DEF Read, Arrived
<1>b. Begun = Arrived + Len(data) /\ Begun' = Arrived' + Len(data)
  BY <1>4 DEF Begun
<1>7. Begun' = Begun - s
  BY <1>1, <1>6, <1>b, SMTT(30)
<1>8. Total' = Total - s
  <2>1. CASE wpc = "header"
    <3>1. Total = Begun + Len(payload) /\ Total' = Begun' + Len(payload)
      BY <1>4, <2>1 DEF Total
    <3> QED
      BY <1>1, <1>7, <3>1, SMTT(30)
  <2>2. CASE wpc # "header"
    <3>1. Total = Begun /\ Total' = Begun'
      BY <1>4, <2>2, Zenon DEF Total
    <3> QED
      BY <1>7, <3>1, Zenon
  <2> QED
    BY <2>1, <2>2, Zenon
<1>9. \A j \in 1..(Total - s) : Ahead(j)' = Ahead(s + j)
  <2> SUFFICES ASSUME NEW j \in 1..(Total - s) PROVE Ahead(j)' = Ahead(s + j)
    OBVIOUS
  <2>1. CASE j <= Arrived - s
    <3>1. j \in (Read' + 1)..Arrived' /\ j - Read' = j /\ j \in 1..(Arrived - s)
      BY <1>1, <1>6, <2>1, SMTT(30)
    <3>2. Ahead(j)' = wire'[j - Read']
      BY <1>l, <3>1 DEF Laid
    <3> QED
      BY <1>5, <3>1, <3>2, Zenon
  <2>2. CASE ~(j <= Arrived - s) /\ j <= Begun - s
    <3>1. /\ j \in (Arrived' + 1)..Begun' /\ s + j \in (Arrived + 1)..Begun
          /\ j - Arrived' = (s + j) - Arrived
      BY <1>1, <1>6, <1>7, <2>2, SMTT(30)
    <3>2. Ahead(j)' = data'[j - Arrived'] /\ Ahead(s + j) = data[(s + j) - Arrived]
      BY <1>l, <3>1 DEF Laid
    <3> QED
      BY <1>4, <3>1, <3>2, Zenon
  <2>3. CASE ~(j <= Arrived - s) /\ ~(j <= Begun - s)
    <3>0. Total = Begun + Len(payload)
      <4>1. Total # Begun
        BY <1>1, <2>3
      <4> QED
        BY <4>1 DEF Total
    <3>1. /\ j \in (Begun' + 1)..(Begun' + Len(payload))
          /\ s + j \in (Begun + 1)..(Begun + Len(payload))
          /\ j - Begun' = (s + j) - Begun
      BY <1>1, <1>7, <2>3, <3>0, SMTT(30)
    <3>2. Ahead(j)' = payload'[j - Begun'] /\ Ahead(s + j) = payload[(s + j) - Begun]
      BY <1>l, <1>4, <3>1, Zenon DEF Laid
    <3> QED
      BY <1>4, <3>1, <3>2, Zenon
  <2> QED
    BY <2>1, <2>2, <2>3, Zenon
<1>10. PICK at \in [Nat -> Int], F \in [Int -> Int] :
         Framed(at, F, Queue, d) /\ Carried(at, F)
  BY <1>h, <1>0, Zenon DEF InStep
<1>11. /\ d \in Nat /\ m \in Nat /\ q \in Nat
       /\ wpc = "idle" => q = m
       /\ wpc # "idle" => q = m + 1
       /\ \A i \in 1..m : Queue[i] = sent[i]
  <2>1. sent \in Seq(Seq(Bytes))
    BY <1>0 DEF FrameTypes
  <2>2. m \in Nat
    BY <2>1, LenProperties, Zenon
  <2> QED
    BY <1>0, <2>2, QueueFacts, Zenon
<1>n. d \in Nat /\ m \in Nat /\ q \in Nat /\ (q = m \/ q = m + 1) /\ d < m
  BY <1>2, <1>11, Zenon
<1>12. d + 1 <= m /\ m <= q
  <2> HIDE DEF d, m, q
  <2> QED
    BY <1>n, SMTT(30)
<1>13. Queue' = Queue
  BY <1>4 DEF Queue
<1>14. Framed(at, F, Queue, d + 1)
  <2>1. \A i \in (d + 1)..q : i \in d..q
    BY <1>11, SMTT(30)
  <2>2. \A i \in ((d + 1) + 1)..q : i \in (d + 1)..q
    BY <1>11
  <2> QED
    BY <1>10, <2>1, <2>2, Zenon DEF Framed
<1>15. PICK z \in Int : /\ at[d] = z /\ at[q] = z + Total
                        /\ \A j \in 1..Total : Ahead(j) = F[z + j]
  <2>1. at[d] \in Int
    BY <1>11
  <2> QED
    BY <1>10, <2>1, Zenon DEF Carried
<1>16. at[d + 1] = z + s
  <2>1. \A e \in (d + 1)..q : at[e] = at[e - 1] + HeaderSize + Len(Queue[e])
    BY <1>10, Zenon DEF Framed
  <2>2. d + 1 \in (d + 1)..q /\ d + 1 \in 1..m /\ (d + 1) - 1 = d
    <3> HIDE DEF d, m, q
    <3> QED
      BY <1>n, <1>12
  <2>3. at[d + 1] = at[(d + 1) - 1] + HeaderSize + Len(Queue[d + 1])
    BY <2>1, <2>2, Zenon
  <2>4. Len(Queue[d + 1]) = Uint32(h) /\ at[(d + 1) - 1] = z
    BY <1>2, <1>11, <1>15, <2>2, Zenon
  <2>5. at[d + 1] = z + HeaderSize + Uint32(h)
    BY <2>3, <2>4, Zenon
  <2>6. Uint32(h) \in Nat
    BY <1>h, Uint32Type, Zenon
  <2>7. z + HeaderSize + Uint32(h) = z + s
    BY <1>3, <2>6, FrameAssumption, SMTT(30)
  <2> QED
    BY <2>5, <2>7, Zenon
<1>17. \A j \in 1..Total' : Ahead(j)' = F[at[d + 1] + j]
  <2> SUFFICES ASSUME NEW j \in 1..Total' PROVE Ahead(j)' = F[at[d + 1] + j]
    BY Zenon
  <2>1. j \in 1..(Total - s) /\ s + j \in 1..Total /\ z + (s + j) = (z + s) + j
    BY <1>1, <1>8, SMTT(30)
  <2>2. Ahead(j)' = Ahead(s + j)
    BY <1>9, <2>1, Zenon
  <2>3. Ahead(s + j) = F[z + (s + j)]
    BY <1>15, <2>1, Zenon
  <2> QED
    BY <1>16, <2>1, <2>2, <2>3, Zenon
<1>18. at[q] = at[d + 1] + Total'
  <2>1. z + Total = (z + s) + (Total - s)
    BY <1>1
  <2> QED
    BY <1>8, <1>15, <1>16, <2>1, Zenon
<1>19. Carried(at, F)'
  BY <1>4, <1>13, <1>17, <1>18, Zenon DEF Carried
<1>20. Len(delivered') <= Len(sent')
  BY <1>4, <1>12, Zenon
<1>21. Framed(at, F, Queue', Len(delivered'))
  BY <1>4, <1>13, <1>14, Zenon
<1> QED
  BY <1>19, <1>20, <1>21, Zenon DEF InStep

\* What a Read takes of the wire.
LEMMA TakenFacts ==
  ASSUME Plain, NEW n \in 1..Len(wire), wire' = SubSeq(wire, n + 1, Len(wire))
  PROVE  /\ Len(wire') = Len(wire) - n
         /\ \A j \in 1..(Len(wire) - n) : wire'[j] = wire[n + j]
         /\ SubSeq(wire, 1, n) \in Seq(Bytes) /\ Len(SubSeq(wire, 1, n)) = n
         /\ \A j \in 1..n : SubSeq(wire, 1, n)[j] = wire[j]
<1>1. wire \in Seq(Bytes) /\ Len(wire) \in Nat
  BY DEF Plain, FrameTypes
<1>2. n \in 0..Len(wire)
  BY <1>1, SMTT(30)
<1> QED
  BY <1>1, <1>2, SplitFacts, SMTT(30)

\* What the reader does to the messages is what FrameChannel allows.
Promised == [Channel!Next]_<<sent, delivered, whole>>

\* A Read in the header moves bytes of the wire to it; the header of an empty
\* message completes the frame.
LEMMA ReadFrameSizeAligned ==
  ASSUME FInv, Plain', NEW n \in Pieces, readFrameSize(n)
  PROVE  InStep' /\ Promised
<1> DEFINE t == SubSeq(wire, 1, n)
           h == header \o t
<1>0. Plain /\ InStep /\ FrameTypes
  BY DEF FInv, Plain
<1>l. Laid
  BY <1>0, AheadIs, Zenon
<1>1. /\ UNCHANGED <<writer, buffer, sent>>
      /\ size = -1 /\ n \in 1..Len(wire) /\ n <= HeaderSize - Len(header)
      /\ wire' = SubSeq(wire, n + 1, Len(wire))
      /\ IF Len(h) = HeaderSize THEN FrameSize(h)
         ELSE header' = h /\ UNCHANGED <<size, got, delivered, whole>>
  BY DEF readFrameSize
<1>2. /\ Len(header) \in Nat /\ Len(wire) \in Nat /\ Read \in Nat /\ Arrived \in Nat
      /\ Begun \in Nat /\ Total \in Nat /\ Len(data) \in Nat /\ Len(payload) \in Nat
  BY <1>0, Lengths, Zenon
<1>3. got = 0 /\ header \in Seq(Bytes)
  BY <1>0, <1>1, Zenon DEF Plain, ReaderAt, FrameTypes
<1>4. Read = Len(header) /\ Arrived = Len(header) + Len(wire)
  BY <1>2, <1>3, SMTT(30) DEF Read, Arrived
<1>5. /\ Len(wire') = Len(wire) - n
      /\ \A j \in 1..(Len(wire) - n) : wire'[j] = wire[n + j]
      /\ t \in Seq(Bytes) /\ Len(t) = n /\ \A j \in 1..n : t[j] = wire[j]
  BY <1>0, <1>1, TakenFacts, Zenon
<1>n. n \in Nat /\ 0 < n /\ n <= Len(wire)
  BY <1>1, <1>2, SMTT(30)
<1> HIDE DEF t
<1>6. /\ h \in Seq(Bytes) /\ Len(h) = Len(header) + n
      /\ \A j \in 1..Len(header) : h[j] = header[j]
      /\ \A j \in (Len(header) + 1)..(Len(header) + n) : h[j] = t[j - Len(header)]
  <2>1. header \in Seq(Bytes) /\ t \in Seq(Bytes) /\ Len(t) = n
    BY <1>3, <1>5, Zenon
  <2>2. /\ h \in Seq(Bytes) /\ Len(h) = Len(header) + Len(t)
        /\ \A j \in 1..Len(header) : h[j] = header[j]
        /\ \A j \in (Len(header) + 1)..(Len(header) + Len(t)) : h[j] = t[j - Len(header)]
    <3>1. h \in Seq(Bytes) /\ JoinOf(header, t)
      BY <2>1, JoinFacts, Zenon
    <3> QED
      BY <3>1, Zenon DEF JoinOf
  <2> HIDE DEF h
  <2> QED
    BY <2>1, <2>2, Zenon
<1> HIDE DEF h
<1>7. \A k \in 1..Len(h) : Ahead(k) = h[k]
  <2> SUFFICES ASSUME NEW k \in 1..Len(h) PROVE Ahead(k) = h[k]
    BY Zenon
  <2>1. CASE k \in 1..Len(header)
    BY <1>l, <1>6, <2>1, Zenon DEF Laid
  <2>2. CASE k \in (Len(header) + 1)..(Len(header) + n)
    <3>1. k \in (Read + 1)..Arrived /\ k - Len(header) \in 1..n
      BY <1>2, <1>n, <1>4, <2>2, SMTT(30)
    <3>2. Ahead(k) = wire[k - Len(header)]
      BY <1>l, <1>4, <3>1, Zenon DEF Laid
    <3> QED
      BY <1>5, <1>6, <2>2, <3>1, <3>2, Zenon
  <2>3. k \in 1..Len(header) \/ k \in (Len(header) + 1)..(Len(header) + n)
    BY <1>2, <1>n, <1>6, SMTT(30)
  <2> QED
    BY <2>1, <2>2, <2>3, Zenon
<1>8. \A j \in 1..(Arrived - Len(h)) : wire'[j] = Ahead(Len(h) + j)
  <2> SUFFICES ASSUME NEW j \in 1..(Arrived - Len(h)) PROVE wire'[j] = Ahead(Len(h) + j)
    OBVIOUS
  <2>1. /\ Len(h) + j \in (Read + 1)..Arrived /\ j \in 1..(Len(wire) - n)
        /\ (Len(h) + j) - Read = n + j
    <3>1. Len(h) = Len(header) + n
      BY <1>6, Zenon
    <3> QED
      BY <1>2, <1>n, <1>4, <3>1, SMTT(30)
  <2>2. Ahead(Len(h) + j) = wire[n + j]
    BY <1>l, <2>1 DEF Laid
  <2> QED
    BY <1>5, <2>1, <2>2, Zenon
<1>9. Len(h) \in Nat /\ Len(h) <= Arrived /\ Len(wire') = Arrived - Len(h)
  <2>1. Len(h) = Len(header) + n /\ Len(wire') = Len(wire) - n
    BY <1>5, <1>6
  <2> QED
    BY <1>2, <1>n, <1>4, <2>1, SMTT(30)
<1>10. ASSUME header' = h, got' = 0, UNCHANGED <<delivered, whole>>
       PROVE  InStep' /\ Promised
  <2>1. Read' = Len(h)
    BY <1>9, <1>10 DEF Read
  <2>2. Arrived' = Arrived
    BY <1>2, <1>9, <2>1, SMTT(30) DEF Arrived
  <2>3. Begun' = Begun
    BY <1>1, <2>2 DEF Begun, writer
  <2>4. Total' = Total /\ Queue' = Queue
    BY <1>1, <2>3, Zenon DEF Total, Queue, writer
  <2>5. \A j \in 1..Total : Ahead(j)' = Ahead(j)
    <3> SUFFICES ASSUME NEW j \in 1..Total PROVE Ahead(j)' = Ahead(j)
      OBVIOUS
    <3>1. CASE j <= Len(h)
      <4>1. j \in 1..Len(h)
        BY <1>9, <3>1, SMTT(30)
      <4>2. Ahead(j)' = h[j]
        BY <1>10, <3>1 DEF Ahead
      <4> QED
        BY <1>7, <4>1, <4>2, Zenon
    <3>2. CASE ~(j <= Len(h)) /\ j <= Arrived
      <4>1. j - Len(h) \in 1..(Arrived - Len(h)) /\ Len(h) + (j - Len(h)) = j
        BY <1>2, <1>9, <3>2, SMTT(30)
      <4>2. Ahead(j)' = wire'[j - Len(h)]
        BY <1>10, <2>1, <2>2, <3>2 DEF Ahead
      <4>3. wire'[j - Len(h)] = Ahead(Len(h) + (j - Len(h)))
        BY <1>8, <4>1, Zenon
      <4> QED
        BY <4>1, <4>2, <4>3, Zenon
    <3>3. CASE ~(j <= Len(h)) /\ ~(j <= Arrived)
      <4>1. ~(j <= Len(header)) /\ ~(j <= Read)
        BY <1>2, <1>4, <3>3, SMTT(30)
      <4> QED
        BY <1>1, <1>10, <2>1, <2>2, <2>3, <3>3, <4>1, Zenon DEF Ahead, writer
    <3> QED
      BY <3>1, <3>2, <3>3, Zenon
  <2>6. InStep'
    BY <1>0, <1>1, <1>10, <2>4, <2>5, Kept, Zenon
  <2> QED
    BY <1>1, <1>10, <2>6, Zenon DEF Promised
<1>11. CASE Len(h) # HeaderSize
  BY <1>1, <1>3, <1>10, <1>11, Zenon
<1>12. CASE Len(h) = HeaderSize /\ Uint32(h) > MaxMessageSize
  <2>1. whole' = FALSE /\ delivered' = delivered /\ sent' = sent
    BY <1>1, <1>12, Zenon DEF FrameSize
  <2>2. InStep'
    BY <2>1 DEF InStep
  <2>3. Promised
    BY <2>1, Zenon DEF Promised, Channel!Next, Channel!Break
  <2> QED
    BY <2>2, <2>3, Zenon
<1>13. CASE Len(h) = HeaderSize /\ ~(Uint32(h) > MaxMessageSize) /\ Uint32(h) = 0
  <2>1. /\ delivered' = Append(delivered, <<>>) /\ whole' = whole /\ sent' = sent
        /\ header' = <<>> /\ got' = 0
    BY <1>1, <1>13, Zenon DEF FrameSize, Deliver
  <2>2. Len(header') = 0 /\ Len(delivered') = Len(delivered) + 1
    BY <1>0, <2>1, SMTT(30) DEF FrameTypes
  <2>s. HeaderSize \in Nat
    BY FrameAssumption, Zenon
  <2>3. HeaderSize + Uint32(h) = Len(h)
    BY <1>13, <2>s
  <2>4. whole => /\ Len(delivered) < Len(sent)
                 /\ Len(sent[Len(delivered) + 1]) = Uint32(h)
    <3> SUFFICES ASSUME whole
                 PROVE  /\ Len(delivered) < Len(sent)
                        /\ Len(sent[Len(delivered) + 1]) = Uint32(h)
      OBVIOUS
    <3>1. /\ FInv /\ whole /\ h \in Seq(Bytes) /\ Len(h) = HeaderSize
          /\ HeaderSize + Uint32(h) <= Arrived
          /\ \A k \in 1..HeaderSize : Ahead(k) = h[k]
      BY <1>6, <1>7, <1>9, <1>13, <2>3, Zenon
    <3> QED
      BY <3>1, FrameComplete, Zenon
  <2>5. InStep'
    <3>1. CASE ~whole
      BY <2>1, <3>1, Zenon DEF InStep
    <3>2. CASE whole
      <4>1. /\ FInv /\ whole /\ h \in Seq(Bytes) /\ Len(h) = HeaderSize
            /\ HeaderSize + Uint32(h) <= Arrived
            /\ \A k \in 1..HeaderSize : Ahead(k) = h[k]
        BY <1>6, <1>7, <1>9, <1>13, <2>3, <3>2, Zenon
      <4>2. /\ UNCHANGED <<writer, sent, whole>> /\ Plain'
            /\ Len(delivered') = Len(delivered) + 1 /\ Len(header') = 0 /\ got' = 0
        BY <1>1, <2>1, <2>2, Zenon
      <4>3. /\ Len(wire') = Arrived - (HeaderSize + Uint32(h))
            /\ \A j \in 1..(Arrived - (HeaderSize + Uint32(h))) :
                 wire'[j] = Ahead(HeaderSize + Uint32(h) + j)
        BY <1>8, <1>9, <2>3, Zenon
      <4> QED
        BY <4>1, <4>2, <4>3, FrameTaken, Zenon
    <3> QED
      BY <3>1, <3>2, Zenon
  <2>6. Promised
    <3>1. CASE ~whole
      <4>1. <<>> \in Messages
        <5>1. <<>> \in [1..0 -> Bytes] /\ 0 \in 0..MaxMessageSize
          BY FrameAssumption
        <5> QED
          BY <5>1, Zenon DEF Messages
      <4> QED
        BY <2>1, <3>1, <4>1, Zenon DEF Promised, Channel!Next, Channel!DeliverGarbled
    <3>2. CASE whole
      <4>1. Len(delivered) < Len(sent) /\ Len(sent[Len(delivered) + 1]) = 0
        BY <1>13, <2>4, <3>2, Zenon
      <4>2. sent[Len(delivered) + 1] \in Seq(Bytes)
        <5>1. sent \in Seq(Seq(Bytes)) /\ Len(delivered) \in Nat
          BY <1>0 DEF FrameTypes
        <5>2. Len(delivered) + 1 \in 1..Len(sent)
          BY <4>1, <5>1, SMTT(30)
        <5> QED
          BY <5>1, <5>2, ElementOfSeq, Zenon
      <4>3. sent[Len(delivered) + 1] = <<>>
        BY <4>1, <4>2, EmptySeq, Zenon
      <4> QED
        BY <2>1, <3>2, <4>1, <4>3, Zenon DEF Promised, Channel!Next, Channel!Deliver
    <3> QED
      BY <3>1, <3>2, Zenon
  <2> QED
    BY <2>5, <2>6
<1>14. CASE Len(h) = HeaderSize /\ ~(Uint32(h) > MaxMessageSize) /\ Uint32(h) # 0
  <2>1. header' = h /\ UNCHANGED <<got, delivered, whole>>
    BY <1>1, <1>14 DEF FrameSize
  <2> QED
    BY <1>3, <1>10, <2>1, Zenon
<1> QED
  BY <1>11, <1>12, <1>13, <1>14, Zenon

\* A Read in the message moves bytes of the wire to the buffer; the last one
\* completes the frame, whatever an earlier message left behind the message.
LEMMA ReadFrameIntoAligned ==
  ASSUME FInv, Plain', NEW n \in Pieces, readFrameInto(n)
  PROVE  InStep' /\ Promised
<1>0. Plain /\ InStep /\ FrameTypes
  BY DEF FInv, Plain
<1>l. Laid
  BY <1>0, AheadIs
<1>1. /\ UNCHANGED <<writer, sent, whole>>
      /\ size > 0 /\ n \in 1..Len(wire) /\ n <= size - got
      /\ wire' = SubSeq(wire, n + 1, Len(wire))
      /\ IF got + n = size THEN Deliver(SubSeq(buffer', 1, size))
         ELSE got' = got + n /\ UNCHANGED <<header, size, delivered>>
  BY DEF readFrameInto
<1>2. /\ Len(header) \in Nat /\ Len(wire) \in Nat /\ Read \in Nat /\ Arrived \in Nat
      /\ Begun \in Nat /\ Total \in Nat /\ Len(data) \in Nat /\ Len(payload) \in Nat
      /\ got \in Nat
  BY <1>0, Lengths, Zenon
<1>3. /\ size \in Nat /\ size <= MaxMessageSize /\ MaxMessageSize \in Nat
      /\ Len(header) = HeaderSize /\ size = Uint32(header)
      /\ header \in Seq(Bytes) /\ buffer \in [1..MaxMessageSize -> Bytes]
  <2>1. size # -1
    BY <1>1, SMTT(30)
  <2>2. size \in 1..MaxMessageSize /\ Len(header) = HeaderSize /\ size = Uint32(header)
    BY <1>0, <2>1, Zenon DEF Plain, ReaderAt
  <2> QED
    BY <1>0, <2>2, Sizes, SMTT(30) DEF FrameTypes
<1>4. /\ Len(wire') = Len(wire) - n
      /\ \A j \in 1..(Len(wire) - n) : wire'[j] = wire[n + j]
  BY <1>0, <1>1, TakenFacts, Zenon
<1>n. n \in Nat /\ 0 < n /\ n <= Len(wire) /\ got + n <= size
  <2>1. n <= size - got /\ size \in Nat
    BY <1>1, <1>3, Zenon
  <2>2. n \in Nat /\ 0 < n /\ n <= Len(wire)
    BY <1>1, <1>2, SMTT(30)
  <2> QED
    BY <1>2, <2>1, <2>2, SMTT(30)
<1>s. HeaderSize \in Nat /\ Read = HeaderSize + got /\ Arrived = HeaderSize + got + Len(wire)
  <2>1. HeaderSize \in Nat
    BY FrameAssumption
  <2> QED
    BY <1>2, <1>3, <2>1, Zenon DEF Read, Arrived
<1>5. buffer' = [i \in 1..MaxMessageSize |->
                  IF i > got /\ i <= got + n THEN wire[i - got] ELSE buffer[i]]
  BY <1>3, Zenon DEF readFrameInto
<1>6. \A k \in 1..(got + n) : buffer'[k] = Ahead(HeaderSize + k)
  <2> SUFFICES ASSUME NEW k \in 1..(got + n) PROVE buffer'[k] = Ahead(HeaderSize + k)
    BY Zenon
  <2>1. k \in 1..MaxMessageSize
    <3>1. size \in Nat /\ size <= MaxMessageSize /\ MaxMessageSize \in Nat
      BY <1>3
    <3> QED
      BY <1>2, <1>n, <3>1, SMTT(30)
  <2>2. CASE k <= got
    <3>1. /\ HeaderSize + k \in (HeaderSize + 1)..Read
          /\ (HeaderSize + k) - HeaderSize = k /\ ~(k > got)
      BY <1>2, <1>n, <1>s, <2>2, SMTT(30)
    <3>2. Ahead(HeaderSize + k) = buffer[k]
      BY <1>l, <1>3, <3>1, Zenon DEF Laid
    <3> QED
      BY <1>5, <2>1, <3>1, <3>2, Zenon
  <2>3. CASE ~(k <= got)
    <3>1. /\ HeaderSize + k \in (Read + 1)..Arrived /\ k > got /\ k <= got + n
          /\ (HeaderSize + k) - Read = k - got
      BY <1>2, <1>n, <1>s, <2>3, SMTT(30)
    <3>2. Ahead(HeaderSize + k) = wire[k - got]
      BY <1>l, <3>1 DEF Laid
    <3> QED
      BY <1>5, <2>1, <3>1, <3>2, Zenon
  <2> QED
    BY <2>2, <2>3, Zenon
<1>7. \A j \in 1..(Len(wire) - n) : wire'[j] = Ahead(HeaderSize + (got + n) + j)
  <2> SUFFICES ASSUME NEW j \in 1..(Len(wire) - n)
               PROVE  wire'[j] = Ahead(HeaderSize + (got + n) + j)
    OBVIOUS
  <2>1. /\ HeaderSize + (got + n) + j \in (Read + 1)..Arrived
        /\ (HeaderSize + (got + n) + j) - Read = n + j
    BY <1>2, <1>n, <1>s, SMTT(30)
  <2>2. Ahead(HeaderSize + (got + n) + j) = wire[n + j]
    BY <1>l, <2>1, Zenon DEF Laid
  <2> QED
    BY <1>4, <2>2, Zenon
<1>8. CASE got + n # size
  <2>1. got' = got + n /\ UNCHANGED <<header, size, delivered>>
    BY <1>1, <1>8, Zenon
  <2>2. Read' = HeaderSize + (got + n)
    BY <1>3, <2>1, Zenon DEF Read
  <2>3. Arrived' = Arrived
    BY <1>2, <1>n, <1>s, <1>4, <2>2, SMTT(30) DEF Arrived
  <2>4. Begun' = Begun
    BY <1>1, <2>3, Zenon DEF Begun, writer
  <2>5. Total' = Total /\ Queue' = Queue
    BY <1>1, <2>4, Zenon DEF Total, Queue, writer
  <2>6. \A j \in 1..Total : Ahead(j)' = Ahead(j)
    <3> SUFFICES ASSUME NEW j \in 1..Total PROVE Ahead(j)' = Ahead(j)
      OBVIOUS
    <3>1. CASE j <= HeaderSize
      BY <1>3, <2>1, <3>1, Zenon DEF Ahead
    <3>2. CASE ~(j <= HeaderSize) /\ j <= HeaderSize + (got + n)
      <4>1. j - HeaderSize \in 1..(got + n) /\ HeaderSize + (j - HeaderSize) = j
        BY <1>2, <1>n, <1>s, <3>2, SMTT(30)
      <4>2. Ahead(j)' = buffer'[j - HeaderSize]
        BY <1>3, <2>1, <2>2, <3>2, Zenon DEF Ahead
      <4>3. buffer'[j - HeaderSize] = Ahead(HeaderSize + (j - HeaderSize))
        BY <1>6, <4>1, Zenon
      <4> QED
        BY <4>1, <4>2, <4>3, Zenon
    <3>3. CASE ~(j <= HeaderSize + (got + n)) /\ j <= Arrived
      <4>1. /\ j - (HeaderSize + (got + n)) \in 1..(Len(wire) - n) /\ ~(j <= HeaderSize)
            /\ HeaderSize + (got + n) + (j - (HeaderSize + (got + n))) = j
        BY <1>2, <1>n, <1>s, <3>3, SMTT(30)
      <4>2. Ahead(j)' = wire'[j - (HeaderSize + (got + n))]
        BY <1>3, <2>1, <2>2, <2>3, <3>3, <4>1, Zenon DEF Ahead
      <4>3. wire'[j - (HeaderSize + (got + n))]
              = Ahead(HeaderSize + (got + n) + (j - (HeaderSize + (got + n))))
        BY <1>7, <4>1, Zenon
      <4> QED
        BY <4>1, <4>2, <4>3, Zenon
    <3>4. CASE ~(j <= HeaderSize + (got + n)) /\ ~(j <= Arrived)
      <4>1. ~(j <= HeaderSize) /\ ~(j <= Read)
        BY <1>2, <1>n, <1>s, <3>4, SMTT(30)
      <4> QED
        BY <1>1, <1>3, <2>1, <2>2, <2>3, <2>4, <3>4, <4>1, Zenon DEF Ahead, writer
    <3> QED
      BY <3>1, <3>2, <3>3, <3>4, Zenon
  <2>7. InStep'
    BY <1>0, <1>1, <2>1, <2>5, <2>6, Kept, Zenon
  <2> QED
    BY <1>1, <2>1, <2>7, Zenon DEF Promised
<1>9. CASE got + n = size
  <2> DEFINE b == SubSeq(buffer', 1, size)
  <2>1. /\ delivered' = Append(delivered, b) /\ header' = <<>> /\ got' = 0
    BY <1>1, <1>9, Zenon DEF Deliver
  <2>2. b \in Seq(Bytes) /\ Len(b) = size /\ \A k \in 1..size : b[k] = buffer'[k]
    <3>1. buffer' \in [1..MaxMessageSize -> Bytes]
      BY Zenon DEF Plain, FrameTypes
    <3>2. buffer' \in Seq(Bytes) /\ Len(buffer') = MaxMessageSize
      BY <1>3, <3>1, SMTT(30)
    <3>3. size \in 0..Len(buffer')
      BY <1>3, <3>2, SMTT(30)
    <3> QED
      BY <3>2, <3>3, SplitFacts, SMTT(30)
  <2> HIDE DEF b
  <2>3. Len(header') = 0 /\ Len(delivered') = Len(delivered) + 1
    BY <1>0, <2>1, <2>2, SMTT(30) DEF FrameTypes
  <2>4. HeaderSize + size <= Arrived
    BY <1>2, <1>n, <1>s, <1>9, SMTT(30)
  <2>5. /\ header \in Seq(Bytes) /\ Len(header) = HeaderSize
        /\ HeaderSize + Uint32(header) <= Arrived
        /\ \A k \in 1..HeaderSize : Ahead(k) = header[k]
    BY <1>l, <1>3, <2>4, Zenon DEF Laid
  <2>6. InStep'
    <3>1. CASE ~whole
      BY <1>1, <3>1 DEF InStep
    <3>2. CASE whole
      <4>1. /\ UNCHANGED <<writer, sent, whole>> /\ Plain'
            /\ Len(delivered') = Len(delivered) + 1 /\ Len(header') = 0 /\ got' = 0
        BY <1>1, <2>1, <2>3, Zenon
      <4>2. Arrived - (HeaderSize + size) = Len(wire) - n
        BY <1>2, <1>n, <1>s, <1>9, SMTT(30)
      <4>3. /\ Len(wire') = Arrived - (HeaderSize + Uint32(header))
            /\ \A j \in 1..(Arrived - (HeaderSize + Uint32(header))) :
                 wire'[j] = Ahead(HeaderSize + Uint32(header) + j)
        BY <1>3, <1>4, <1>7, <1>9, <4>2, Zenon
      <4> QED
        BY <2>5, <3>2, <4>1, <4>3, FrameTaken, Zenon
    <3> QED
      BY <3>1, <3>2, Zenon
  <2>7. Promised
    <3>1. CASE ~whole
      <4>1. b \in Messages
        <5>1. b \in [1..size -> Bytes] /\ size \in 0..MaxMessageSize
          BY <1>3, <2>2, SMTT(30)
        <5> QED
          BY <5>1, Zenon DEF Messages
      <4> QED
        BY <1>1, <2>1, <3>1, <4>1, Zenon DEF Promised, Channel!Next, Channel!DeliverGarbled
    <3>2. CASE whole
      <4> DEFINE m == sent[Len(delivered) + 1]
      <4>1. /\ Len(delivered) < Len(sent) /\ Len(m) = Uint32(header)
            /\ \A k \in 1..Uint32(header) : Ahead(HeaderSize + k) = m[k]
        BY <2>5, <3>2, FrameComplete, Zenon
      <4>2. m \in Seq(Bytes)
        <5>1. sent \in Seq(Seq(Bytes)) /\ Len(delivered) \in Nat
          BY <1>0 DEF FrameTypes
        <5>2. Len(delivered) + 1 \in 1..Len(sent)
          BY <4>1, <5>1, SMTT(30)
        <5> QED
          BY <5>1, <5>2, ElementOfSeq, Zenon
      <4> HIDE DEF m
      <4>3. \A k \in 1..size : b[k] = m[k]
        BY <1>3, <1>6, <1>9, <2>2, <4>1, Zenon
      <4>4. Len(b) = Len(m) /\ \A k \in 1..Len(b) : b[k] = m[k]
        BY <1>3, <2>2, <4>1, <4>3, Zenon
      <4>5. b = m
        BY <2>2, <4>2, <4>4, SeqEqual, Zenon
      <4> QED
        BY <1>1, <2>1, <3>2, <4>1, <4>5 DEF Promised, Channel!Next, Channel!Deliver, m
    <3> QED
      BY <3>1, <3>2
  <2> QED
    BY <2>6, <2>7
<1> QED
  BY <1>8, <1>9, Zenon

\* A Read that fails between two frames loses nothing.
LEMMA ReadFailAligned ==
  ASSUME FInv, readFail
  PROVE  InStep' /\ Promised
<1>0. Plain /\ InStep
  BY DEF FInv, Plain
<1>1. /\ UNCHANGED <<writer, wire, buffer, sent, delivered>>
      /\ header' = <<>> /\ got' = 0 /\ whole' = (whole /\ header = <<>>)
  BY DEF readFail
<1>2. CASE ~whole'
  <2>1. InStep'
    BY <1>2, Zenon DEF InStep
  <2>2. whole' = FALSE
    BY <1>1, <1>2, Zenon
  <2> QED
    BY <1>1, <2>1, <2>2, Zenon DEF Promised, Channel!Next, Channel!Break
<1>3. CASE whole'
  <2>1. whole /\ header = <<>>
    BY <1>1, <1>3, Zenon
  <2>2. got = 0
    <3>1. Len(header) = 0 /\ HeaderSize # 0
      BY <2>1, FrameAssumption, Zenon
    <3> QED
      BY <1>0, <3>1, Zenon DEF Plain, ReaderAt
  <2>3. UNCHANGED <<header, got>> /\ whole' = whole
    BY <1>1, <2>1, <2>2, Zenon
  <2>4. Read' = Read /\ Arrived' = Arrived /\ Begun' = Begun
    BY <1>1, <2>3 DEF Begun, Arrived, Read, writer
  <2>5. Total' = Total /\ Queue' = Queue
    BY <1>1, <2>4, Zenon DEF Total, Queue, writer
  <2>6. \A j \in 1..Total : Ahead(j)' = Ahead(j)
    BY <1>1, <2>3, <2>4, SMTT(30) DEF Ahead, writer
  <2>7. InStep'
    BY <1>0, <1>1, <2>3, <2>5, <2>6, Kept, Zenon
  <2> QED
    BY <1>1, <2>3, <2>7, Zenon DEF Promised
<1> QED
  BY <1>2, <1>3

\* What the writer does to the messages is what FrameChannel allows.
LEMMA WriterPromised ==
  ASSUME Plain, \/ \E p \in Payloads : writeFrame(p)
                \/ \E n \in Pieces : writeAll(n)
                \/ \E n \in {0} \cup Pieces : writeFail(n)
  PROVE  Promised
<1>1. CASE \E p \in Payloads : writeFrame(p)
  BY <1>1 DEF writeFrame, Promised
<1>2. CASE \E n \in Pieces : writeAll(n)
  <2>1. PICK n \in Pieces : writeAll(n)
    BY <1>2
  <2>2. n \in 1..Len(data) /\ UNCHANGED <<delivered, whole>>
    BY <2>1 DEF writeAll
  <2>3. sent' = sent \/ sent' = Append(sent, payload)
    BY <2>1, Zenon DEF writeAll, Written
  <2>4. payload \in Messages
    <3>1. data # <<>>
      BY <2>2 DEF Plain, FrameTypes
    <3> QED
      BY <3>1, Zenon DEF Plain, WriterAt, Messages
  <2> QED
    BY <2>2, <2>3, <2>4, Zenon DEF Promised, Channel!Next, Channel!Send
<1>3. CASE \E n \in {0} \cup Pieces : writeFail(n)
  <2>1. UNCHANGED <<sent, delivered>> /\ (whole' = whole \/ whole' = FALSE)
    <3>1. whole \in BOOLEAN
      BY DEF Plain, FrameTypes
    <3> QED
      BY <1>3, <3>1, Zenon DEF writeFail
  <2> QED
    BY <2>1 DEF Promised, Channel!Next, Channel!Break
<1> QED
  BY <1>1, <1>2, <1>3, Zenon

LEMMA InStepInit == Init => InStep
<1> SUFFICES ASSUME Init PROVE InStep
  OBVIOUS
<1> DEFINE o == [i \in Nat |-> 0]
           f == [i \in Int |-> 0]
<1>1. Queue = <<>> /\ Len(Queue) = 0 /\ Len(delivered) = 0 /\ Len(sent) = 0
  BY DEF Init, Queue
<1>2. Total = 0
  BY DEF Init, Total, Begun, Arrived, Read
<1>3. o \in [Nat -> Int] /\ f \in [Int -> Int] /\ o[0] = 0
  BY SMTT(30)
<1>4. Framed(o, f, Queue, Len(delivered))
  <2>1. \A i \in 0..0 : o[i] = 0
    BY SMTT(30)
  <2>2. (0 + 1)..0 = {}
    BY SMTT(30)
  <2> HIDE DEF o, f
  <2> QED
    BY <1>1, <2>1, <2>2, SMTT(30) DEF Framed
<1>5. Carried(o, f)
  <2> HIDE DEF o, f
  <2> QED
    BY <1>1, <1>2, <1>3, SMTT(30) DEF Carried
<1> HIDE DEF o, f
<1> QED
  BY <1>1, <1>3, <1>4, <1>5, SMTT(30) DEF InStep

LEMMA InStepNext == FInv /\ Plain' /\ [Next]_vars => InStep' /\ Promised
<1> SUFFICES ASSUME FInv, Plain', [Next]_vars PROVE InStep' /\ Promised
  OBVIOUS
<1>0. Plain /\ InStep
  BY DEF FInv, Plain
<1>1. CASE UNCHANGED vars
  <2>1. UNCHANGED <<wpc, data, payload, wire, header, size, got, buffer, sent,
                    delivered, whole>>
    BY <1>1, Zenon DEF vars, writer, reader
  <2>2. Read' = Read /\ Arrived' = Arrived /\ Begun' = Begun
    BY <2>1 DEF Begun, Arrived, Read
  <2>3. Total' = Total /\ Queue' = Queue
    BY <2>1, <2>2, Zenon DEF Total, Queue
  <2>4. \A j \in 1..Total : Ahead(j)' = Ahead(j)
    BY <2>1, <2>2, Zenon DEF Ahead
  <2>5. InStep'
    BY <1>0, <2>1, <2>3, <2>4, Kept, Zenon
  <2> QED
    BY <2>1, <2>5, Zenon DEF Promised
<1>2. CASE \E p \in Payloads : writeFrame(p)
  BY <1>0, <1>2, WriteFrameAligned, WriterPromised, Zenon
<1>3. CASE \E n \in Pieces : writeAll(n)
  BY <1>0, <1>3, WriteAllAligned, WriterPromised, Zenon
<1>4. CASE \E n \in {0} \cup Pieces : writeFail(n)
  BY <1>0, <1>4, WriteFailAligned, WriterPromised, Zenon
<1>5. CASE \E n \in Pieces : readFrameSize(n)
  BY <1>5, ReadFrameSizeAligned, Zenon
<1>6. CASE \E n \in Pieces : readFrameInto(n)
  BY <1>6, ReadFrameIntoAligned
<1>7. CASE readFail
  BY <1>7, ReadFailAligned
<1> QED
  BY <1>1, <1>2, <1>3, <1>4, <1>5, <1>6, <1>7, Zenon DEF Next, Writing, Reading

-----------------------------------------------------------------------------
(***************************************************************************)
(* Messages arrive whole, once and in the order they were sent, until an   *)
(* error strikes inside a frame: writeFrame and readFrameInto of           *)
(* tcp_client.go implement FrameChannel, for every base and width of the   *)
(* header, every limit on the size and every way to split the bytes.       *)
(***************************************************************************)
THEOREM FramingImplementsChannel == Spec => ImplementsChannel
<1>1. Init => FInv
  BY PlainInit, InStepInit DEF FInv, Plain
<1>2. FInv /\ [Next]_vars => FInv'
  BY PlainNext, InStepNext, Zenon DEF FInv, Plain
<1>3. Init => Channel!Init
  BY Zenon DEF Init, Channel!Init
<1>4. FInv /\ FInv' /\ [Next]_vars => [Channel!Next]_<<sent, delivered, whole>>
  BY InStepNext DEF FInv, Plain, Promised
<1> QED
  BY <1>1, <1>2, <1>3, <1>4, PTL DEF Spec, ImplementsChannel, Channel!Spec

=============================================================================
