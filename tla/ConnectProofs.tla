--------------------------- MODULE ConnectProofs ----------------------------
(***************************************************************************)
(* Proofs about module Connect, for every list of options and any servers, *)
(* however often the server is restarted.                                  *)
(***************************************************************************)
EXTENDS Connect, WellFoundedInduction, TLAPS

-----------------------------------------------------------------------------
(***************************************************************************)
(* The inductive invariants.                                               *)
(***************************************************************************)
Places == {"new", "dial", "hello", "idle", "send", "read", "retry", "failed"}

ConnTypes ==
  /\ pc \in Places
  /\ session \in Servers \cup {Down} /\ server \in Servers \cup {Down}
  /\ maxMessageSize \in Numbers /\ request \in Numbers /\ attempt \in Nat

\* While the connection stands, the client's limit is the one of the server at
\* its other end, and a request on its way has passed the check against it.
LimitAgreed ==
  /\ pc \in {"new", "dial", "retry"} => session = Down
  /\ pc \in {"idle", "send", "read"} /\ session # Down =>
       maxMessageSize = Limit(session)
  /\ pc = "read" => request <= maxMessageSize

\* The pooled buffers have the size that frames are checked against.
BufferAgreed == bufferSize = maxMessageSize /\ ~panicked

\* An error that tells of the refusal of the last HELLO.
Tells(e) ==
  /\ e = "auth" => refusal = "3002"
  /\ refusal \in ErrorCodes => e = Reported(refusal)

(***************************************************************************)
(* A refused HELLO leaves no connection behind; in the loop of             *)
(* sendWithReconnect lastErr tells of it from the first reconnect on.      *)
(***************************************************************************)
RefusalKnown ==
  /\ pc \notin {"idle", "failed"} => result = "none"
  /\ pc = "new" => refusal = "none"
  /\ session # Down => refusal = "none"
  /\ pc = "hello" => refusal = "none"
  /\ pc \in {"send", "read"} /\ attempt > 0 => refusal = "none"
  /\ pc = "retry" => IF attempt = 0 THEN lastErr = "closed" ELSE Tells(lastErr)
  /\ AuthFailureReported

\* What the first k options ask for.
Asked(k) ==
  /\ \A n \in 1..k : opts[n].kind = "tls" => UsableTLS(opts[n].config)
  /\ settings.tls = (\E n \in LastOption({"tls", "tlsConfig"}, k) : AsksTLS(opts[n]))
  /\ LastOption({"token"}, k) = {} => settings.token = Unset
  /\ \A n \in LastOption({"token"}, k) : settings.token = opts[n].token

\* The settings are those the options applied so far ask for.
OptionsApplied ==
  /\ opts \in Seq(Options) /\ applied \in 0..Len(opts)
  /\ settings.tls \in BOOLEAN /\ settings.err # "auth"
  /\ settings = [token |-> settings.token, tls |-> settings.tls, err |-> settings.err]
  /\ settings.err = "none" => Asked(applied)
  /\ pc \notin {"new", "failed"} => settings.err = "none" /\ applied = Len(opts)
  /\ pc = "new" => settings.err = "none" /\ dialled = {}
  /\ dialled # {} =>
       /\ settings.err = "none" /\ applied = Len(opts)
       /\ dialled = {IF settings.tls THEN "tls" ELSE "plain"}

-----------------------------------------------------------------------------
(***************************************************************************)
(* The table of numbers.                                                   *)
(***************************************************************************)
\* No two numbers have one numeral, and none has a word's.
LEMMA NumbersAre ==
  /\ Numbers = 1..13 /\ BitLength \in [Numbers -> Nat]
  /\ \A v \in Numbers : Numerals[v] \notin {"01", "|", "auth", "none"}
  /\ \A v, u \in Numbers : Numerals[v] = Numerals[u] => v = u
  /\ \A v \in 1..8 : BitLength[v] <= 16
<1>1. Numbers = 1..13
  BY DEF Numbers, Numerals
<1>2. BitLength \in [Numbers -> Nat] /\ \A v \in 1..8 : BitLength[v] <= 16
  BY <1>1, SMTT(30) DEF BitLength
<1>3. /\ Numerals[1] = "0" /\ Numerals[2] = "1" /\ Numerals[3] = "60"
      /\ Numerals[4] = "3000" /\ Numerals[5] = "3002" /\ Numerals[6] = "3003"
      /\ Numerals[7] = "4096" /\ Numerals[8] = "9999" /\ Numerals[9] = "10000"
      /\ Numerals[10] = "65536" /\ Numerals[11] = "2147483648"
      /\ Numerals[12] = "4294967296" /\ Numerals[13] = "18446744073709551616"
  BY DEF Numerals
<1>4. \A v \in 1..13 : \/ v = 1 \/ v = 2 \/ v = 3 \/ v = 4 \/ v = 5 \/ v = 6 \/ v = 7
                       \/ v = 8 \/ v = 9 \/ v = 10 \/ v = 11 \/ v = 12 \/ v = 13
  OBVIOUS
<1>5. \A v \in Numbers : Numerals[v] \notin {"01", "|", "auth", "none"}
  BY <1>1, <1>3, <1>4, SMTT(30)
<1>6. \A v, u \in Numbers : Numerals[v] = Numerals[u] => v = u
  <2> SUFFICES ASSUME NEW v \in Numbers, NEW u \in Numbers, Numerals[v] = Numerals[u]
               PROVE  v = u
    OBVIOUS
  <2>1. /\ \/ v = 1 \/ v = 2 \/ v = 3 \/ v = 4 \/ v = 5 \/ v = 6 \/ v = 7
           \/ v = 8 \/ v = 9 \/ v = 10 \/ v = 11 \/ v = 12 \/ v = 13
        /\ \/ u = 1 \/ u = 2 \/ u = 3 \/ u = 4 \/ u = 5 \/ u = 6 \/ u = 7
           \/ u = 8 \/ u = 9 \/ u = 10 \/ u = 11 \/ u = 12 \/ u = 13
    BY <1>1, <1>4, Zenon
  <2> QED
    BY <1>3, <2>1, SMTT(30)
<1> QED
  BY <1>1, <1>2, <1>5, <1>6, Zenon

\* A numeral stands for its number.
LEMMA NumberIs ==
  ASSUME NEW v \in Numbers
  PROVE  Number(Numerals[v]) = v
BY NumbersAre, Zenon DEF Number

\* The numbers that Connect names.
LEMMA Named ==
  /\ Zero \in Numbers /\ Number("4096") \in Numbers
  /\ One = 2 /\ Number("3002") = 5 /\ MaxErrorCode = 8 /\ Numerals[5] = "3002"
  /\ {"3000", "3002", "3003"} \subseteq ErrorCodes /\ "none" \notin ErrorCodes
<1>1. /\ Numerals[1] = "0" /\ Numerals[2] = "1" /\ Numerals[4] = "3000"
      /\ Numerals[5] = "3002" /\ Numerals[6] = "3003" /\ Numerals[7] = "4096"
      /\ Numerals[8] = "9999"
  BY DEF Numerals
<1>2. {1, 2, 4, 5, 6, 7, 8} \subseteq Numbers
  BY NumbersAre, SMTT(30)
<1>3. /\ Number("0") = 1 /\ Number("1") = 2 /\ Number("3002") = 5
      /\ Number("4096") = 7 /\ Number("9999") = 8
  BY <1>1, <1>2, NumberIs, Zenon
<1>4. MaxErrorCode = 8
  BY <1>3, Zenon DEF MaxErrorCode
<1>5. {4, 5, 6} \subseteq 1..8 /\ \A v \in 1..8 : v \in 1..13
  BY SMTT(30)
<1>6. {"3000", "3002", "3003"} \subseteq ErrorCodes
  BY <1>1, <1>4, <1>5, Zenon DEF ErrorCodes
<1>7. "none" \notin ErrorCodes
  BY <1>4, <1>5, NumbersAre, Zenon DEF ErrorCodes
<1> QED
  BY <1>1, <1>2, <1>3, <1>4, <1>6, <1>7, Zenon DEF Zero, One

\* ParseUint reads a number back, and what it reads was spelled like that.
LEMMA CodeReadsBack ==
  ASSUME NEW v \in 1..8 PROVE ParseUint(<<Numerals[v]>>, 16) = {v}
<1>1. v \in Numbers /\ BitLength[v] <= 16 /\ Numerals[v] # "01"
  BY NumbersAre, SMTT(30)
<1>2. \A u \in Numbers : <<Numerals[v]>> \in Spellings(u) => u = v
  <2> SUFFICES ASSUME NEW u \in Numbers, <<Numerals[v]>> \in Spellings(u) PROVE u = v
    BY Zenon
  <2>1. <<Numerals[v]>> = <<Numerals[u]>> \/ <<Numerals[v]>> = <<"01">>
    BY Zenon DEF Spellings, FormatUint
  <2>2. Numerals[v] = Numerals[u]
    BY <1>1, <2>1
  <2> QED
    BY <1>1, <2>2, NumbersAre, Zenon
<1>3. <<Numerals[v]>> \in Spellings(v)
  BY Zenon DEF Spellings, FormatUint
<1> QED
  BY <1>1, <1>2, <1>3, Zenon DEF ParseUint

-----------------------------------------------------------------------------
(***************************************************************************)
(* The place of a delimiter.                                               *)
(***************************************************************************)
LessOnNat == {ss \in Nat \X Nat : ss[1] < ss[2]}

\* A set of natural numbers has a least one, which is its Min.
LEMMA LeastIs ==
  ASSUME NEW S \in SUBSET Nat, S # {}
  PROVE  Min(S) \in S /\ \A j \in S : Min(S) <= j
<1>1. IsWellFoundedOn(LessOnNat, Nat)
  BY NatLessThanWellFounded, Zenon DEF OpToRel, LessOnNat
<1>2. \E x \in S : \A y \in S : ~(<<y, x>> \in LessOnNat)
  BY <1>1, WFMin, Zenon
<1>3. \A x, y \in Nat : <<y, x>> \in LessOnNat <=> y < x
  BY DEF LessOnNat
<1>4. PICK x \in S : \A y \in S : ~(y < x)
  BY <1>2, <1>3, Zenon
<1>5. \A y \in S : x <= y
  BY <1>4, SMTT(30)
<1> QED
  BY <1>5, Zenon DEF Min

\* The first d in s is at i.
FirstAt(s, d, i) == i \in 1..Len(s) /\ s[i] = d /\ \A j \in 1..Len(s) : s[j] = d => i <= j

\* IndexByte finds the first one, if there is one.
LEMMA IndexFinds ==
  ASSUME NEW s, NEW d, Index(s, d) # 0
  PROVE  FirstAt(s, d, Index(s, d))
<1> DEFINE I == {j \in 1..Len(s) : s[j] = d}
<1>1. Index(s, d) = IF I # {} THEN Min(I) ELSE 0
  BY Zenon DEF Index, SelectInSeq
<1>2. I \in SUBSET Nat
  OBVIOUS
<1>3. Min(I) \in I /\ \A j \in I : Min(I) <= j
  <2> HIDE DEF I
  <2> QED
    BY <1>1, <1>2, LeastIs, Zenon
<1> QED
  BY <1>1, <1>3, Zenon DEF FirstAt

LEMMA IndexFirst ==
  ASSUME NEW s, NEW d, NEW i, FirstAt(s, d, i)
  PROVE  Index(s, d) = i
<1> DEFINE I == {j \in 1..Len(s) : s[j] = d}
<1>1. Index(s, d) = IF I # {} THEN Min(I) ELSE 0
  BY Zenon DEF Index, SelectInSeq
<1>2. I \in SUBSET Nat /\ i \in I /\ \A j \in I : i <= j
  BY SMTT(30) DEF FirstAt
<1> HIDE DEF I
<1>3. I # {} /\ Min(I) \in I /\ Min(I) <= i /\ i <= Min(I)
  BY <1>2, LeastIs, Zenon
<1>4. Min(I) = i
  <2> DEFINE m == Min(I)
  <2>1. m \in Nat /\ i \in Nat /\ m <= i /\ i <= m
    BY <1>2, <1>3, Zenon
  <2> HIDE DEF m
  <2>2. m = i
    BY <2>1, SMTT(30)
  <2> QED
    BY <2>2, Zenon DEF m
<1> QED
  BY <1>1, <1>3, <1>4, Zenon

\* A sequence of length one.
LEMMA OneElement ==
  ASSUME NEW S, NEW s \in Seq(S), Len(s) = 1 PROVE s = <<s[1]>>
OBVIOUS

\* The first elements of a sequence, and the rest.
LEMMA Parts ==
  ASSUME NEW K, NEW s \in Seq(K), NEW i \in 1..Len(s)
  PROVE  /\ SubSeq(s, 1, i - 1) \in Seq(K) /\ Len(SubSeq(s, 1, i - 1)) = i - 1
         /\ \A j \in 1..(i - 1) : SubSeq(s, 1, i - 1)[j] = s[j]
         /\ SubSeq(s, i + 1, Len(s)) \in Seq(K)
         /\ Len(SubSeq(s, i + 1, Len(s))) = Len(s) - i
         /\ \A j \in 1..(Len(s) - i) : SubSeq(s, i + 1, Len(s))[j] = s[i + j]
<1>1. Len(s) \in Nat /\ \A j \in 1..Len(s) : s[j] \in K
  OBVIOUS
<1>2. \A j \in 1..(i - 1) : s[j] \in K
  BY <1>1, SMTT(30)
<1>3. \A j \in (i + 1)..Len(s) : s[j] \in K
  BY <1>1, SMTT(30)
<1>4. /\ SubSeq(s, 1, i - 1) \in Seq(K) /\ Len(SubSeq(s, 1, i - 1)) = i - 1
      /\ \A j \in 1..(i - 1) : SubSeq(s, 1, i - 1)[j] = s[j]
  BY <1>1, <1>2, SMTT(30)
<1>5. /\ SubSeq(s, i + 1, Len(s)) \in Seq(K)
      /\ Len(SubSeq(s, i + 1, Len(s))) = Len(s) - i
      /\ \A j \in 1..(Len(s) - i) : SubSeq(s, i + 1, Len(s))[j] = s[i + j]
  BY <1>1, <1>3, SMTT(30)
<1> QED
  BY <1>4, <1>5, Zenon

-----------------------------------------------------------------------------
(***************************************************************************)
(* What hello makes of the server's answer.                                *)
(***************************************************************************)
\* The status of what a parser returns; with success it is one of the values,
\* with an error what parseError makes of a frame that begins like one.
LEMMA ParseFacts ==
  ASSUME NEW resp, NEW values
  PROVE  /\ Parse(resp, values).status \in {"success", "error", "corrupted", "unknown"}
         /\ Parse(resp, values).status = "success" => Parse(resp, values).value \in values
         /\ Parse(resp, values).status = "error" =>
              /\ Index(resp, "|") # 0
              /\ SubSeq(resp, 1, Index(resp, "|") - 1) = <<"err">>
              /\ Parse(resp, values) = parseError(Data(resp))
<1> DEFINE i == Index(resp, "|")
           status == SubSeq(resp, 1, i - 1)
           p == Parse(resp, values)
<1>1. /\ Corrupted.status = "corrupted" /\ Unknown.status = "unknown"
      /\ \A v : Success(v).status = "success" /\ Success(v).value = v
  BY DEF Corrupted, Unknown, Success
<1>2. \A data : parseError(data).status \in {"error", "corrupted"}
  BY <1>1, Zenon DEF parseError
<1>3. \/ p = Corrupted
      \/ values # {} /\ p = Success(The(values))
      \/ i # 0 /\ status = <<"err">> /\ p = parseError(Data(resp))
      \/ p = Unknown
  <2>1. CASE i = 0
    BY <2>1, SMTT(30) DEF Parse
  <2>2. CASE i # 0 /\ i > 0 /\ status = <<"ok">>
    BY <2>2, SMTT(30) DEF Parse
  <2>3. CASE i # 0 /\ i > 0 /\ status # <<"ok">> /\ status = <<"err">>
    BY <2>3, Zenon DEF Parse
  <2>4. CASE i # 0 /\ ~(i > 0 /\ status = <<"ok">>) /\ ~(i > 0 /\ status = <<"err">>)
    BY <2>4, Zenon DEF Parse
  <2> QED
    BY <2>1, <2>2, <2>3, <2>4, Zenon
<1>4. values # {} => The(values) \in values
  BY DEF The
<1> HIDE DEF p
<1>5. /\ p.status \in {"success", "error", "corrupted", "unknown"}
      /\ p.status = "success" => p.value \in values
      /\ p.status = "error" =>
           i # 0 /\ status = <<"err">> /\ p = parseError(Data(resp))
  BY <1>1, <1>2, <1>3, <1>4, Zenon
<1> QED
  BY <1>5, Zenon DEF p

\* The limit of a HELLO that is understood is a number of at most 31 bits, and
\* not zero.
LEMMA HelloLimit ==
  ASSUME NEW resp, parseHelloResponse(resp).status = "success"
  PROVE  LET max == parseHelloResponse(resp).value.maxMessageSize
         IN max \in Numbers /\ BitLength[max] <= 31 /\ max # Zero
<1> DEFINE layout == <<<<"version", "u64">>, <<"maxMessageSize", "u31">>,
                       <<"authRequired", "bool">>, <<"role", "text">>>>
           fields == Split(Data(resp))
           h == parseHelloResponse(resp).value
           names == {layout[n][1] : n \in 1..Len(layout)}
           at(name) == CHOOSE m \in 1..Len(layout) : layout[m][1] = name
<1>1. h \in ReadStruct(fields, layout) /\ h.maxMessageSize # Zero
  BY ParseFacts, Zenon DEF parseHelloResponse
<1>2. /\ Len(layout) = 4
      /\ layout[1][1] = "version" /\ layout[2][1] = "maxMessageSize"
      /\ layout[3][1] = "authRequired" /\ layout[4][1] = "role"
      /\ layout[2][2] = "u31"
  OBVIOUS
<1> HIDE DEF layout, fields, h
<1>3. 1..4 = {1, 2, 3, 4}
  OBVIOUS
<1>4. "maxMessageSize" \in names /\ at("maxMessageSize") = 2
  BY <1>2, <1>3, Zenon
<1>5. /\ \A n \in 1..Len(layout) : ReadField(layout[n][2], fields[n]) # {}
      /\ h = [name \in names |-> The(ReadField(layout[at(name)][2], fields[at(name)]))]
  BY <1>1, Zenon DEF ReadStruct
<1>6. h.maxMessageSize = The(ReadField("u31", fields[2]))
  BY <1>2, <1>4, <1>5, Zenon
<1>7. ReadField("u31", fields[2]) # {}
  BY <1>2, <1>3, <1>5, Zenon
<1>8. ReadField("u31", fields[2]) = ParseUint(fields[2], 31)
  BY DEF ReadField
<1>9. h.maxMessageSize \in ParseUint(fields[2], 31)
  BY <1>6, <1>7, <1>8, Zenon DEF The
<1> QED
  BY <1>1, <1>9, Zenon DEF ParseUint, h

\* A frame that refuses with a code.
IsRefusal(frame, code) ==
  /\ Len(frame) > 3 /\ frame[1] = "err" /\ frame[2] = "|"
  /\ frame[3] = code /\ frame[4] = "|"

\* The codes up to MaxErrorCode are read as they were written.
LEMMA RefusalRead ==
  ASSUME NEW K, NEW frame \in Seq(K), NEW v \in 1..8, IsRefusal(frame, Numerals[v])
  PROVE  /\ parseHelloResponse(frame).status = "error"
         /\ parseHelloResponse(frame).value.Code = v
<1> DEFINE data == SubSeq(frame, 2 + 1, Len(frame))
<1>0. Len(frame) \in Nat /\ Len(frame) > 3 /\ 2 \in 1..Len(frame)
  BY SMTT(30) DEF IsRefusal
<1>n. Numerals[v] # "|"
  <2>1. v \in 1..13
    BY SMTT(30)
  <2> QED
    BY <2>1, NumbersAre, Zenon
<1>1. Index(frame, "|") = 2
  <2>1. \A j \in 1..Len(frame) : frame[j] = "|" => 2 <= j
    <3>1. frame[1] # "|"
      BY Zenon DEF IsRefusal
    <3>2. \A j \in 1..Len(frame) : j # 1 => 2 <= j
      BY <1>0, SMTT(30)
    <3> QED
      BY <3>1, <3>2, Zenon
  <2> QED
    <3>1. frame[2] = "|"
      BY Zenon DEF IsRefusal
    <3>2. FirstAt(frame, "|", 2)
      BY <1>0, <2>1, <3>1, Zenon DEF FirstAt
    <3> QED
      BY <3>2, IndexFirst, Zenon
<1>2. SubSeq(frame, 1, 2 - 1) = <<"err">>
  <2>1. /\ SubSeq(frame, 1, 2 - 1) \in Seq(K) /\ Len(SubSeq(frame, 1, 2 - 1)) = 1
        /\ SubSeq(frame, 1, 2 - 1)[1] = "err"
    BY <1>0, Parts, SMTT(30) DEF IsRefusal
  <2> QED
    BY <2>1, OneElement, Zenon
<1>3. Data(frame) = data
  BY <1>1, Zenon DEF Data
<1>4. /\ data \in Seq(K) /\ Len(data) \in Nat /\ Len(data) > 1
      /\ data[1] = Numerals[v] /\ data[2] = "|"
  BY <1>0, Parts, SMTT(30) DEF IsRefusal
<1> HIDE DEF data
<1>5. Index(data, "|") = 2
  <2>1. 2 \in 1..Len(data) /\ \A j \in 1..Len(data) : j # 1 => 2 <= j
    BY <1>4, SMTT(30)
  <2>2. data[1] # "|"
    BY <1>4, <1>n, Zenon
  <2> QED
    <3>1. FirstAt(data, "|", 2)
      BY <1>4, <2>1, <2>2, Zenon DEF FirstAt
    <3> QED
      BY <3>1, IndexFirst, Zenon
<1>6. SubSeq(data, 1, 2 - 1) = <<Numerals[v]>>
  <2>1. /\ SubSeq(data, 1, 2 - 1) \in Seq(K) /\ Len(SubSeq(data, 1, 2 - 1)) = 1
        /\ SubSeq(data, 1, 2 - 1)[1] = Numerals[v]
    BY <1>4, Parts, SMTT(30)
  <2> QED
    BY <2>1, OneElement, Zenon
<1>7. {c \in ParseUint(SubSeq(data, 1, 2 - 1), 16) : c <= MaxErrorCode} = {v}
  <2>1. ParseUint(SubSeq(data, 1, 2 - 1), 16) = {v} /\ MaxErrorCode = 8
    BY <1>6, CodeReadsBack, Named, Zenon
  <2> QED
    BY <2>1, SMTT(30)
<1>8. The({v}) = v
  BY DEF The
<1>9. parseError(data).status = "error" /\ parseError(data).value.Code = v
  <2>1. parseError(data) = [status |-> "error",
                            value |-> [Code |-> v, Message |-> SubSeq(data, 3, Len(data))]]
    <3>1. parseError(data) =
            IF {v} = {} THEN Corrupted
            ELSE [status |-> "error",
                  value |-> [Code |-> The({v}), Message |-> SubSeq(data, 2 + 1, Len(data))]]
      <4>1. 2 # 0
        OBVIOUS
      <4> QED
        BY <1>5, <1>7, <4>1, Zenon DEF parseError
    <3>2. {v} # {} /\ 2 + 1 = 3
      OBVIOUS
    <3> QED
      BY <1>8, <3>1, <3>2, Zenon
  <2> QED
    BY <2>1
<1>10. ASSUME NEW values PROVE Parse(frame, values) = parseError(data)
  <2>1. <<"err">> # <<"ok">>
    OBVIOUS
  <2> QED
    BY <1>1, <1>2, <1>3, <2>1, SMTT(30) DEF Parse
<1> QED
  BY <1>9, <1>10, Zenon DEF parseHelloResponse

\* A code was read where the frame has one that is spelled so.
LEMMA RefusalWas ==
  ASSUME NEW K, NEW frame \in Seq(K), parseHelloResponse(frame).status = "error"
  PROVE  LET v == parseHelloResponse(frame).value.Code
         IN v \in Numbers /\ IsRefusal(frame, frame[3]) /\ <<frame[3]>> \in Spellings(v)
<1> DEFINE i == Index(frame, "|")
           data == SubSeq(frame, 2 + 1, Len(frame))
           j == Index(data, "|")
           code == {c \in ParseUint(SubSeq(data, 1, j - 1), 16) : c <= MaxErrorCode}
           v == parseHelloResponse(frame).value.Code
<1>1. /\ i # 0 /\ SubSeq(frame, 1, i - 1) = <<"err">>
      /\ parseHelloResponse(frame) = parseError(Data(frame))
  BY ParseFacts, Zenon DEF parseHelloResponse
<1>2. i \in 1..Len(frame) /\ frame[i] = "|"
  BY <1>1, IndexFinds, Zenon DEF FirstAt
<1>3. i = 2 /\ frame[1] = "err"
  <2> HIDE DEF i
  <2>1. Len(<<"err">>) = 1 /\ <<"err">>[1] = "err"
    OBVIOUS
  <2>2. /\ Len(SubSeq(frame, 1, i - 1)) = i - 1
        /\ \A n \in 1..(i - 1) : SubSeq(frame, 1, i - 1)[n] = frame[n]
    BY <1>2, Parts, Zenon
  <2>3. i - 1 = 1
    BY <1>1, <2>1, <2>2, Zenon
  <2> QED
    <3>1. i = 2
      BY <1>2, <2>3, SMTT(30)
    <3>2. 1 \in 1..(i - 1)
      BY <2>3, SMTT(30)
    <3> QED
      BY <1>1, <2>1, <2>2, <3>1, <3>2, Zenon
<1>4. Data(frame) = data
  BY <1>3, Zenon DEF Data
<1>5. /\ data \in Seq(K) /\ Len(data) = Len(frame) - 2
      /\ \A n \in 1..(Len(frame) - 2) : data[n] = frame[2 + n]
  <2>1. 2 \in 1..Len(frame)
    BY <1>2, <1>3, Zenon
  <2> QED
    BY <2>1, Parts, ZenonT(40)
<1> HIDE DEF i, data
<1>6. j # 0 /\ code # {} /\ v = The(code)
  <2>1. parseError(data).status = "error" /\ v = parseError(data).value.Code
    BY <1>1, <1>4, Zenon
  <2>2. Corrupted.status # "error"
    BY DEF Corrupted
  <2>3. ~(j = 0 \/ code = {})
    BY <2>1, <2>2, Zenon DEF parseError
  <2>4. parseError(data) =
          [status |-> "error",
           value |-> [Code |-> The(code), Message |-> SubSeq(data, j + 1, Len(data))]]
    BY <2>3, Zenon DEF parseError
  <2> HIDE DEF v, code, j
  <2> QED
    BY <2>1, <2>3, <2>4, SMTT(30)
<1>7. v \in code
  <2> HIDE DEF code, v
  <2> QED
    BY <1>6, Zenon DEF The
<1>8. v \in Numbers /\ SubSeq(data, 1, j - 1) \in Spellings(v)
  BY <1>7, Zenon DEF ParseUint
<1> HIDE DEF v, code
<1>9. j \in 1..Len(data) /\ data[j] = "|"
  BY <1>6, IndexFinds, Zenon DEF FirstAt
<1> HIDE DEF j
<1>10. PICK t : SubSeq(data, 1, j - 1) = <<t>>
  BY <1>8, Zenon DEF Spellings, FormatUint
<1>11. j = 2 /\ data[1] = t
  <2>1. Len(<<t>>) = 1 /\ <<t>>[1] = t
    OBVIOUS
  <2>2. /\ Len(SubSeq(data, 1, j - 1)) = j - 1
        /\ \A n \in 1..(j - 1) : SubSeq(data, 1, j - 1)[n] = data[n]
    BY <1>5, <1>9, Parts, Zenon
  <2>3. j - 1 = 1
    BY <1>10, <2>1, <2>2, Zenon
  <2> QED
    <3>1. j = 2
      BY <1>9, <2>3, SMTT(30)
    <3>2. 1 \in 1..(j - 1)
      BY <2>3, SMTT(30)
    <3> QED
      BY <1>10, <2>1, <2>2, <3>1, <3>2, Zenon
<1>12. Len(frame) > 3 /\ frame[3] = t /\ frame[4] = "|"
  <2>1. Len(frame) \in Nat
    OBVIOUS
  <2> QED
    BY <1>5, <1>9, <1>11, <2>1, SMTT(30)
<1>13. v \in Numbers /\ IsRefusal(frame, frame[3]) /\ <<frame[3]>> \in Spellings(v)
  BY <1>2, <1>3, <1>8, <1>10, <1>12, Zenon DEF IsRefusal
<1> QED
  BY <1>13, Zenon DEF v

\* hello takes the limit from the answer of the server's settings only, says
\* "auth" to code 3002 only, and otherwise keeps the code it was refused with.
LEMMA VerdictFacts ==
  ASSUME NEW K, NEW frame \in Seq(K)
  PROVE  LET info == parseHelloResponse(frame)
             verdict == HelloVerdict(info)
         IN /\ verdict = "none" => info.status = "success"
            /\ verdict = "auth" => RefusalCode(frame) = "3002"
            /\ RefusalCode(frame) \in ErrorCodes => verdict = Reported(RefusalCode(frame))
<1> DEFINE info == parseHelloResponse(frame)
           verdict == HelloVerdict(info)
<1>1. info.status \in {"success", "error", "corrupted", "unknown"}
  BY ParseFacts, Zenon DEF parseHelloResponse
<1>r. \A code : IsRefusal(frame, code) => RefusalCode(frame) = code
  BY Zenon DEF IsRefusal, RefusalCode
<1>c. ASSUME RefusalCode(frame) \in ErrorCodes
      PROVE  \E v \in 1..8 : IsRefusal(frame, Numerals[v]) /\ RefusalCode(frame) = Numerals[v]
  <2>1. PICK v \in 1..8 : RefusalCode(frame) = Numerals[v]
    BY <1>c, Named, Zenon DEF ErrorCodes
  <2>2. RefusalCode(frame) # "none"
    BY <1>c, Named, Zenon
  <2>3. Len(frame) > 3 /\ <<frame[1], frame[2], frame[4]>> = <<"err", "|", "|">>
    BY <2>2, Zenon DEF RefusalCode
  <2>4. RefusalCode(frame) = frame[3]
    BY <2>3, Zenon DEF RefusalCode
  <2>5. frame[1] = "err" /\ frame[2] = "|" /\ frame[4] = "|"
    BY <2>3
  <2> QED
    BY <2>1, <2>3, <2>4, <2>5, Zenon DEF IsRefusal
<1>2. CASE info.status = "error"
  <2> DEFINE v == info.value.Code
  <2>1. v \in Numbers /\ IsRefusal(frame, frame[3]) /\ <<frame[3]>> \in Spellings(v)
    BY <1>2, RefusalWas, Zenon
  <2>2. verdict = IF v = Number("3002") THEN "auth" ELSE Numerals[v]
    BY <1>2, Zenon DEF HelloVerdict
  <2>3. ASSUME RefusalCode(frame) \in ErrorCodes PROVE verdict = Reported(RefusalCode(frame))
    <3>1. PICK u \in 1..8 : IsRefusal(frame, Numerals[u]) /\ RefusalCode(frame) = Numerals[u]
      BY <1>c, <2>3, Zenon
    <3>2. v = u
      BY <3>1, RefusalRead, Zenon
    <3> HIDE DEF v, verdict
    <3>3. v = 5 <=> Numerals[v] = "3002"
      <4>1. 5 \in Numbers
        BY NumbersAre, SMTT(30)
      <4> QED
        BY <2>1, <4>1, NumbersAre, Named, Zenon
    <3> QED
      BY <2>2, <3>1, <3>2, <3>3, Named, Zenon DEF Reported
  <2> HIDE DEF v
  <2>4. verdict # "none"
    BY <2>1, <2>2, NumbersAre, Zenon
  <2>5. ASSUME verdict = "auth" PROVE RefusalCode(frame) = "3002"
    <3>1. v = 5
      BY <2>1, <2>2, <2>5, NumbersAre, Named, Zenon
    <3>2. <<frame[3]>> = <<"3002">>
      <4>1. v # One
        BY <3>1, Named, SMTT(30)
      <4>2. Spellings(v) = {<<Numerals[v]>>}
        BY <4>1, Zenon DEF Spellings, FormatUint
      <4> QED
        BY <2>1, <3>1, <4>2, Named, Zenon
    <3>3. frame[3] = "3002"
      BY <3>2
    <3> QED
      BY <1>r, <2>1, <3>3, Zenon
  <2> QED
    BY <1>2, <2>3, <2>4, <2>5, Zenon
<1>3. CASE info.status # "error"
  <2>1. RefusalCode(frame) \notin ErrorCodes
    BY <1>3, <1>c, RefusalRead, Zenon
  <2>2. verdict \in {"none", "version", "corrupted", "unknown"}
        /\ (verdict = "none" => info.status = "success")
    <3>1. CASE info.status = "success"
      BY <3>1, Zenon DEF HelloVerdict
    <3>2. CASE info.status \in {"corrupted", "unknown"}
      <4>1. info.status # "success" /\ info.status # "error"
        BY <3>2
      <4>2. verdict = info.status
        BY <4>1, Zenon DEF HelloVerdict
      <4> QED
        BY <3>2, <4>2, Zenon
    <3> QED
      BY <1>1, <1>3, <3>1, <3>2, Zenon
  <2>3. verdict # "auth"
    BY <2>2
  <2> QED
    BY <2>1, <2>2, <2>3, Zenon
<1> QED
  BY <1>2, <1>3, Zenon

\* What a refusal of the server says.
LEMMA RefusalIs ==
  ASSUME NEW code
  PROVE  /\ Refusal(code) \in Seq({"err", "|", code, "refused"})
         /\ RefusalCode(Refusal(code)) = code
<1> DEFINE frame == Refusal(code)
<1>1. /\ frame \in Seq({"err", "|", code, "refused"}) /\ Len(frame) = 5 /\ 5 > 3
      /\ frame[1] = "err" /\ frame[2] = "|" /\ frame[3] = code /\ frame[4] = "|"
  BY DEF Refusal
<1> HIDE DEF frame
<1>2. RefusalCode(frame) = code
  BY <1>1, Zenon DEF RefusalCode
<1> QED
  BY <1>1, <1>2, Zenon DEF frame

\* hello accepts the answer of the server's settings only, and takes the limit
\* from it; its error tells of the code of a refusal.
LEMMA HelloFacts ==
  ASSUME ConnTypes, Answering, NEW frame \in HelloFrames(session, settings.token)
  PROVE  /\ HelloVerdict(Answers[frame]) = "none" =>
              /\ Answers[frame].value.maxMessageSize = Limit(session)
              /\ Answers[frame].value.maxMessageSize \in Numbers
         /\ HelloVerdict(Answers[frame]) = "auth" => RefusalCode(frame) = "3002"
         /\ RefusalCode(frame) \in ErrorCodes =>
              HelloVerdict(Answers[frame]) = Reported(RefusalCode(frame))
<1>1. session \in Servers
  BY Zenon DEF ConnTypes, Answering
<1>2. frame = session.hello \/ \E code \in {"3000", "3002", "3003"} : frame = Refusal(code)
  BY Zenon DEF HelloFrames
<1>3. frame \in Frames /\ Answers[frame] = parseHelloResponse(frame)
  <2>1. frame \in Frames
    BY <1>1, <1>2, Zenon DEF Frames
  <2> QED
    BY <2>1, Zenon DEF Answers
<1>4. \E K : frame \in Seq(K)
  <2>1. CASE frame = session.hello
    <3>1. frame \in Seq(STRING)
      BY <1>1, <2>1, ConnectAssumption, Zenon
    <3> QED
      BY <3>1, Zenon
  <2>2. ASSUME NEW code, frame = Refusal(code) PROVE \E K : frame \in Seq(K)
    <3>1. frame \in Seq({"err", "|", code, "refused"})
      BY <2>2, RefusalIs, Zenon
    <3> QED
      BY <3>1, Zenon
  <2> QED
    BY <1>2, <2>1, <2>2, Zenon
<1>5. /\ HelloVerdict(Answers[frame]) = "none" => Answers[frame].status = "success"
      /\ HelloVerdict(Answers[frame]) = "auth" => RefusalCode(frame) = "3002"
      /\ RefusalCode(frame) \in ErrorCodes =>
           HelloVerdict(Answers[frame]) = Reported(RefusalCode(frame))
  BY <1>3, <1>4, VerdictFacts, Zenon
<1>6. ASSUME HelloVerdict(Answers[frame]) = "none"
      PROVE  /\ Answers[frame].value.maxMessageSize = Limit(session)
             /\ Answers[frame].value.maxMessageSize \in Numbers
  <2>1. ASSUME NEW code \in {"3000", "3002", "3003"} PROVE frame # Refusal(code)
    <3>1. SUFFICES ASSUME frame = Refusal(code) PROVE FALSE
      BY Zenon
    <3>2. RefusalCode(frame) = code /\ code \in ErrorCodes
      BY <3>1, RefusalIs, Named, Zenon
    <3>3. Reported(code) # "none"
      BY Zenon DEF Reported
    <3> QED
      BY <1>5, <1>6, <3>2, <3>3, Zenon
  <2>2. frame = session.hello
    BY <1>2, <2>1, Zenon
  <2>3. Answers[frame].value.maxMessageSize \in Numbers
    BY <1>3, <1>5, <1>6, HelloLimit, Zenon
  <2> QED
    BY <2>2, <2>3, Zenon DEF Limit
<1> QED
  BY <1>5, <1>6, Zenon

\* The types are kept by every step.
LEMMA TypesKept == ConnTypes /\ [Next]_vars => ConnTypes'
<1> SUFFICES ASSUME ConnTypes, [Next]_vars PROVE ConnTypes'
  BY Zenon
<1> USE ConnectAssumption DEF ConnTypes, Places, Goto
<1>1. CASE applyOptions
  BY <1>1, Zenon DEF applyOptions, serverVars
<1>2. CASE NewTCPClient
  BY <1>2, Zenon DEF NewTCPClient, clientVars, callVars, serverVars
<1>3. CASE dial
  BY <1>3, Zenon DEF dial, clientVars, callVars, serverVars
<1>4. CASE dialError
  BY <1>4, Zenon DEF dialError, ConnectError, clientVars, serverVars
<1>5. CASE HelloTooLong
  BY <1>5, Zenon DEF HelloTooLong, HelloError, ConnectError, clientVars, serverVars
<1>6. CASE HelloLost
  BY <1>6, Zenon DEF HelloLost, HelloError, ConnectError, clientVars, serverVars
<1>7. CASE HelloRefused
  BY <1>7, Zenon DEF HelloRefused, HelloError, ConnectError, clientVars, serverVars
<1>8. CASE HelloAccepted
  <2>1. maxMessageSize' \in Numbers
    BY <1>8, HelloFacts, Zenon DEF HelloAccepted, SetMaxMessageSizeUnsafe
  <2> QED
    BY <1>8, <2>1, Zenon DEF HelloAccepted, callVars, serverVars
<1>9. CASE SendTooLong \/ Cancelled \/ Exhausted
  BY <1>9, Zenon DEF SendTooLong, Cancelled, Exhausted, Return, clientVars, serverVars
<1>10. CASE SendDelivered \/ SendLost
  BY <1>10, Zenon DEF SendDelivered, SendLost, clientVars, callVars, serverVars
<1>11. ASSUME NEW size \in RequestSizes, SendAnswered(size) PROVE ConnTypes'
  BY <1>11, Zenon DEF SendAnswered, Return, clientVars, serverVars
<1>12. CASE Reconnect
  BY <1>12, SMTT(30) DEF Reconnect, clientVars, serverVars
<1>13. ASSUME NEW size \in RequestSizes, Call(size) PROVE ConnTypes'
  BY <1>13, Zenon DEF Call, clientVars, serverVars
<1>14. ASSUME NEW s \in Servers \cup {Down}, Restart(s) PROVE ConnTypes'
  BY <1>14, Zenon DEF Restart, clientVars, callVars
<1>15. CASE UNCHANGED vars
  BY <1>15, Zenon DEF vars, clientVars, callVars, serverVars
<1> QED
  BY <1>1, <1>2, <1>3, <1>4, <1>5, <1>6, <1>7, <1>8, <1>9, <1>10, <1>11, Zenon,
     <1>12, <1>13, <1>14, <1>15 DEF Next, ClientStep

-----------------------------------------------------------------------------
\* The client's limit follows the server it is connected to.
LEMMA LimitKept == ConnTypes /\ LimitAgreed /\ [Next]_vars => LimitAgreed'
<1> SUFFICES ASSUME ConnTypes, LimitAgreed, [Next]_vars PROVE LimitAgreed'
  OBVIOUS
<1> USE DEF LimitAgreed, Goto
<1>1. CASE applyOptions \/ NewTCPClient \/ dial \/ dialError
  BY <1>1, Zenon DEF applyOptions, NewTCPClient, dial, dialError, ConnectError
<1>2. CASE HelloTooLong \/ HelloLost \/ HelloRefused
  BY <1>2, Zenon DEF HelloTooLong, HelloLost, HelloRefused, HelloError, ConnectError
<1>3. CASE HelloAccepted
  <2>1. maxMessageSize' = Limit(session)
    BY <1>3, HelloFacts, Zenon DEF HelloAccepted, SetMaxMessageSizeUnsafe
  <2>2. session' = session /\ pc' \in {"idle", "send"}
    BY <1>3, Zenon DEF HelloAccepted
  <2> QED
    BY <2>1, <2>2, Zenon DEF Limit
<1>4. CASE SendTooLong
  BY <1>4, Zenon DEF SendTooLong, Return, clientVars, Limit
<1>5. CASE Cancelled \/ Exhausted
  BY <1>5, Zenon DEF Cancelled, Exhausted, Return
<1>6. CASE SendDelivered
  BY <1>6, Zenon DEF SendDelivered, clientVars, callVars, Limit
<1>7. CASE SendLost
  BY <1>7, Zenon DEF SendLost
<1>8. ASSUME NEW size \in RequestSizes, SendAnswered(size) PROVE LimitAgreed'
  BY <1>8, Zenon DEF SendAnswered, Return, clientVars, Limit
<1>9. CASE Reconnect
  BY <1>9, Zenon DEF Reconnect
<1>10. ASSUME NEW size \in RequestSizes, Call(size) PROVE LimitAgreed'
  BY <1>10, Zenon DEF Call, clientVars, Limit
<1>11. ASSUME NEW s \in Servers \cup {Down}, Restart(s) PROVE LimitAgreed'
  BY <1>11, Zenon DEF Restart, clientVars, callVars
<1>12. CASE UNCHANGED vars
  BY <1>12, Zenon DEF vars, clientVars, callVars, Limit
<1> QED
  BY <1>1, <1>2, <1>3, <1>4, <1>5, <1>6, <1>7, <1>8, <1>9, <1>10, <1>11, <1>12, Zenon
     DEF Next, ClientStep

\* A request on its way is within the limit its server announced, whatever
\* limits the server came back with before (Send, hello).
THEOREM RequestsFit == Spec => []WithinServerLimit
<1>1. Init => ConnTypes /\ LimitAgreed
  BY Named, SMTT(30) DEF Init, ConnTypes, Places, LimitAgreed
<1>2. ConnTypes /\ LimitAgreed /\ [Next]_vars => (ConnTypes /\ LimitAgreed)'
  BY TypesKept, LimitKept, Zenon
<1>3. ConnTypes /\ LimitAgreed => WithinServerLimit
  BY DEF LimitAgreed, WithinServerLimit
<1> QED
  BY <1>1, <1>2, <1>3, PTL DEF Spec

-----------------------------------------------------------------------------
\* Limit and buffers are only ever changed together.
LEMMA BufferKept == ConnTypes /\ BufferAgreed /\ [Next]_vars => BufferAgreed'
<1> SUFFICES ASSUME ConnTypes, BufferAgreed, [Next]_vars PROVE BufferAgreed'
  OBVIOUS
<1>1. CASE HelloAccepted
  BY <1>1, Zenon DEF HelloAccepted, SetMaxMessageSizeUnsafe, BufferAgreed
<1>2. ASSUME NEW size \in RequestSizes, SendAnswered(size) PROVE BufferAgreed'
  <2>1. size \in Int /\ maxMessageSize \in Int
    BY ConnectAssumption, SMTT(30) DEF Numbers, ConnTypes
  <2>2. ~(size <= maxMessageSize /\ size > bufferSize)
    BY <2>1, SMTT(30) DEF BufferAgreed
  <2> QED
    BY <1>2, <2>2, Zenon DEF SendAnswered, Return, clientVars, BufferAgreed
<1>3. ASSUME UNCHANGED <<maxMessageSize, bufferSize, panicked>> PROVE BufferAgreed'
  BY <1>3, Zenon DEF BufferAgreed
<1>4. CASE applyOptions \/ NewTCPClient \/ dial \/ dialError
  BY <1>3, <1>4, Zenon DEF applyOptions, NewTCPClient, dial, dialError, ConnectError,
                    clientVars, historyVars
<1>5. CASE HelloTooLong \/ HelloLost \/ HelloRefused
  BY <1>3, <1>5, Zenon DEF HelloTooLong, HelloLost, HelloRefused, HelloError, ConnectError,
                    clientVars
<1>6. CASE SendTooLong \/ Cancelled \/ Exhausted \/ SendDelivered \/ SendLost \/ Reconnect
  BY <1>3, <1>6, Zenon DEF SendTooLong, Cancelled, Exhausted, SendDelivered, SendLost,
                    Reconnect, Return, clientVars, historyVars
<1>7. CASE \/ \E size \in RequestSizes : Call(size)
           \/ \E s \in Servers \cup {Down} : Restart(s)
           \/ UNCHANGED vars
  BY <1>3, <1>7, Zenon DEF Call, Restart, vars, clientVars, historyVars
<1> QED
  BY <1>1, <1>2, <1>4, <1>5, <1>6, <1>7, Zenon DEF Next, ClientStep

\* A frame that passes the check against maxMessageSize fits the buffer it is
\* read into (readFrameInto, SetMaxMessageSizeUnsafe).
THEOREM FramesFitBuffers == Spec => []BufferFits
<1>1. Init => ConnTypes /\ BufferAgreed
  BY Named, SMTT(30) DEF Init, ConnTypes, Places, BufferAgreed
<1>2. ConnTypes /\ BufferAgreed /\ [Next]_vars => (ConnTypes /\ BufferAgreed)'
  BY TypesKept, BufferKept
<1>3. ConnTypes /\ BufferAgreed => BufferFits
  BY Zenon DEF BufferAgreed, BufferFits
<1> QED
  BY <1>1, <1>2, <1>3, PTL DEF Spec

-----------------------------------------------------------------------------
(***************************************************************************)
(* The options.                                                            *)
(***************************************************************************)
\* build succeeds on usable configurations only; the empty one means no TLS.
LEMMA BuildFacts ==
  ASSUME NEW c, c.CAFile \in Files, c.CertFile \in Files, c.KeyFile \in Files
  PROVE  /\ build(c).err # "auth"
         /\ build(c).err = "none" => UsableTLS(c) /\ build(c).tls = ~Empty(c)
<1>u. Unset \notin {"good", "bad", "1.2", "1.3"}
  BY Zenon DEF Unset
<1>0. /\ NilTLS.err = "none" /\ NilTLS.tls = FALSE
      /\ \A e : TLSError(e).err = e
  BY Zenon DEF NilTLS, TLSError
<1>1. CASE Empty(c)
  <2>1. build(c) = NilTLS
    BY <1>1, Zenon DEF build
  <2>2. UsableTLS(c)
    BY <1>u, <1>1, Zenon DEF Empty, UsableTLS
  <2> QED
    BY <1>0, <1>1, <2>1, <2>2, Zenon
<1>2. CASE ~Empty(c) /\ tlsMinVersion(c.MinVersion) # "none"
  <2>1. build(c) = TLSError("minVersion")
    BY <1>2, Zenon DEF build
  <2> QED
    BY <1>0, <2>1, Zenon
<1>3. CASE /\ ~Empty(c) /\ tlsMinVersion(c.MinVersion) = "none"
           /\ c.CAFile # Unset /\ certPool(c.CAFile) # "none"
  <2>1. build(c) = TLSError("caFile")
    BY <1>3, Zenon DEF build
  <2> QED
    BY <1>0, <2>1, Zenon
<1>4. CASE /\ ~Empty(c) /\ tlsMinVersion(c.MinVersion) = "none"
           /\ ~(c.CAFile # Unset /\ certPool(c.CAFile) # "none")
           /\ (c.CertFile = Unset) # (c.KeyFile = Unset)
  <2>1. build(c) = TLSError("keyPair")
    BY <1>4, Zenon DEF build
  <2> QED
    BY <1>0, <2>1, Zenon
<1>5. CASE /\ ~Empty(c) /\ tlsMinVersion(c.MinVersion) = "none"
           /\ ~(c.CAFile # Unset /\ certPool(c.CAFile) # "none")
           /\ ~((c.CertFile = Unset) # (c.KeyFile = Unset))
           /\ "bad" \in {c.CertFile, c.KeyFile}
  <2>1. build(c) = TLSError("load")
    BY <1>5, Zenon DEF build
  <2> QED
    BY <1>0, <2>1, Zenon
<1>6. CASE /\ ~Empty(c) /\ tlsMinVersion(c.MinVersion) = "none"
           /\ ~(c.CAFile # Unset /\ certPool(c.CAFile) # "none")
           /\ ~((c.CertFile = Unset) # (c.KeyFile = Unset))
           /\ "bad" \notin {c.CertFile, c.KeyFile}
  <2>1. build(c) = [tls |-> TRUE, err |-> "none"]
    BY <1>6, Zenon DEF build
  <2>2. c.MinVersion \in {Unset, "1.2", "1.3"} /\ c.CAFile # "bad"
    BY <1>u, <1>6, Zenon DEF tlsMinVersion, certPool
  <2>3. <<c.CertFile, c.KeyFile>> \in {<<Unset, Unset>>, <<"good", "good">>}
    BY <1>u, <1>6, Zenon DEF Files
  <2>4. build(c).tls = TRUE /\ build(c).err = "none"
    BY <2>1, SMTT(30)
  <2> QED
    BY <1>6, <2>2, <2>3, <2>4, Zenon DEF UsableTLS
<1> QED
  BY <1>1, <1>2, <1>3, <1>4, <1>5, <1>6, Zenon

\* The last option of some kinds, with one option more.
LEMMA LastOptionStep ==
  ASSUME NEW kinds, NEW k \in Nat
  PROVE  LastOption(kinds, k + 1) =
           IF opts[k + 1].kind \in kinds THEN {k + 1} ELSE LastOption(kinds, k)
<1>1. \A n \in 1..k : (n + 1)..(k + 1) = (n + 1)..k \cup {k + 1}
  BY SMTT(30)
<1>2. 1..(k + 1) = 1..k \cup {k + 1} /\ ((k + 1) + 1)..(k + 1) = {} /\ k + 1 \notin 1..k
  OBVIOUS
<1>3. CASE opts[k + 1].kind \in kinds
  BY <1>1, <1>2, <1>3, Zenon DEF LastOption
<1>4. CASE opts[k + 1].kind \notin kinds
  <2>1. \A n \in 1..k : (\A m \in (n + 1)..(k + 1) : opts[m].kind \notin kinds)
                      <=> (\A m \in (n + 1)..k : opts[m].kind \notin kinds)
    <3>1. \A n \in 1..k : \A m : m \in (n + 1)..(k + 1) <=>
                                 m \in (n + 1)..k \/ m = k + 1
      BY <1>1, SMTT(30)
    <3> QED
      BY <1>4, <3>1, Zenon
  <2>2. \A n : n \in LastOption(kinds, k + 1) <=> n \in LastOption(kinds, k)
    BY <1>2, <1>4, <2>1, Zenon DEF LastOption
  <2> QED
    BY <1>4, <2>2, Zenon
<1> QED
  BY <1>3, <1>4, Zenon

\* One option more: the settings become what it asks for, or an error.
LEMMA ApplyFacts ==
  ASSUME NEW o \in Options, NEW s, s.tls \in BOOLEAN, s.err = "none",
         s = [token |-> s.token, tls |-> s.tls, err |-> s.err]
  PROVE  LET t == Apply(o, s)
         IN /\ t = [token |-> t.token, tls |-> t.tls, err |-> t.err]
            /\ t.tls \in BOOLEAN /\ t.err # "auth"
            /\ t.err = "none" =>
                 /\ o.kind = "tls" => UsableTLS(o.config)
                 /\ t.tls = IF o.kind \in {"tls", "tlsConfig"} THEN AsksTLS(o) ELSE s.tls
                 /\ t.token = IF o.kind = "token" THEN o.token ELSE s.token
<1> DEFINE t == Apply(o, s)
<1> SUFFICES /\ t = [token |-> t.token, tls |-> t.tls, err |-> t.err]
             /\ t.tls \in BOOLEAN /\ t.err # "auth"
             /\ t.err = "none" =>
                  /\ o.kind = "tls" => UsableTLS(o.config)
                  /\ t.tls = IF o.kind \in {"tls", "tlsConfig"} THEN AsksTLS(o) ELSE s.tls
                  /\ t.token = IF o.kind = "token" THEN o.token ELSE s.token
  OBVIOUS
<1>1. CASE o.kind = "nil"
  <2>1. t = s
    BY <1>1, Zenon DEF Apply
  <2> HIDE DEF t
  <2> QED
    BY <1>1, <2>1, Zenon
<1>2. CASE o.kind = "token"
  <2>1. t = [token |-> o.token, tls |-> s.tls, err |-> s.err]
    BY <1>2, Zenon DEF Apply
  <2> HIDE DEF t
  <2> QED
    BY <1>2, <2>1, Zenon
<1>3. CASE o.kind = "tlsConfig"
  <2>1. t = [token |-> s.token, tls |-> o.set, err |-> s.err]
    BY <1>3, Zenon DEF Apply
  <2>2. o.set \in BOOLEAN
    BY <1>3, Zenon DEF Options
  <2> HIDE DEF t
  <2>3. AsksTLS(o) = o.set
    BY <1>3, Zenon DEF AsksTLS
  <2> QED
    BY <1>3, <2>1, <2>2, <2>3, Zenon
<1>4. CASE o.kind = "tls"
  <2> DEFINE b == build(o.config)
  <2>1. /\ o.config.CAFile \in Files /\ o.config.CertFile \in Files
        /\ o.config.KeyFile \in Files
    BY <1>4, Zenon DEF Options
  <2>2. /\ b.err # "auth"
        /\ b.err = "none" => UsableTLS(o.config) /\ b.tls = ~Empty(o.config)
    BY <2>1, BuildFacts, Zenon
  <2>3. t = IF b.err = "none" THEN [s EXCEPT !.tls = b.tls] ELSE [NoSettings EXCEPT !.err = b.err]
    BY <1>4, Zenon DEF Apply
  <2>t. Empty(o.config) \in BOOLEAN
    BY DEF Empty
  <2>4. AsksTLS(o) = ~Empty(o.config)
    BY <1>4, Zenon DEF AsksTLS
  <2> HIDE DEF t, b
  <2>5. CASE b.err = "none"
    <3>1. t = [token |-> s.token, tls |-> b.tls, err |-> s.err]
      BY <2>3, <2>5, Zenon
    <3> QED
      BY <1>4, <2>2, <2>4, <2>5, <2>t, <3>1, Zenon
  <2>6. CASE b.err # "none"
    <3>1. t = [token |-> Unset, tls |-> FALSE, err |-> b.err]
      BY <2>3, <2>6, Zenon DEF NoSettings
    <3> QED
      BY <2>2, <2>6, <3>1, Zenon
  <2> QED
    BY <2>5, <2>6, Zenon
<1> QED
  BY <1>1, <1>2, <1>3, <1>4, Zenon DEF Options

\* The settings are those asked for by the options applied so far.
LEMMA OptionsKept == OptionsApplied /\ [Next]_vars => OptionsApplied'
<1> SUFFICES ASSUME OptionsApplied, [Next]_vars PROVE OptionsApplied'
  OBVIOUS
<1>1. CASE applyOptions
  <2> DEFINE o == opts[applied + 1]
             k == applied + 1
             t == Apply(o, settings)
  <2>1. /\ pc = "new" /\ applied < Len(opts) /\ applied' = applied + 1
        /\ settings' = t /\ opts' = opts /\ dialled' = dialled
        /\ (settings'.err = "none" /\ pc' = pc) \/ (settings'.err # "none" /\ pc' = "failed")
    BY <1>1, Zenon DEF applyOptions, historyVars, Goto
  <2>2. /\ opts \in Seq(Options) /\ applied \in 0..Len(opts) /\ settings.err = "none"
        /\ settings.tls \in BOOLEAN /\ dialled = {} /\ Asked(applied)
        /\ settings = [token |-> settings.token, tls |-> settings.tls, err |-> settings.err]
    BY <2>1, Zenon DEF OptionsApplied
  <2>3. o \in Options /\ applied \in Nat /\ k \in 0..Len(opts) /\ k \in Nat
        /\ 1..k = 1..applied \cup {k}
    BY <2>1, <2>2, SMTT(30)
  <2>4. /\ t = [token |-> t.token, tls |-> t.tls, err |-> t.err]
        /\ t.tls \in BOOLEAN /\ t.err # "auth"
        /\ t.err = "none" =>
             /\ o.kind = "tls" => UsableTLS(o.config)
             /\ t.tls = IF o.kind \in {"tls", "tlsConfig"} THEN AsksTLS(o) ELSE settings.tls
             /\ t.token = IF o.kind = "token" THEN o.token ELSE settings.token
    BY <2>2, <2>3, ApplyFacts, SMTT(30)
  <2>5. ASSUME NEW kinds
        PROVE  LastOption(kinds, k) =
                 IF o.kind \in kinds THEN {k} ELSE LastOption(kinds, applied)
    BY <2>3, LastOptionStep, Zenon
  <2>6. ASSUME t.err = "none" PROVE Asked(applied)'
    <3> HIDE DEF t
    <3>1. \A n \in 1..k : opts[n].kind = "tls" => UsableTLS(opts[n].config)
      BY <2>2, <2>3, <2>4, <2>6, Zenon DEF Asked
    <3>2. t.tls = (\E n \in LastOption({"tls", "tlsConfig"}, k) : AsksTLS(opts[n]))
      <4>1. CASE o.kind \in {"tls", "tlsConfig"}
        <5>1. LastOption({"tls", "tlsConfig"}, k) = {k}
          BY <2>5, <4>1, Zenon
        <5>2. t.tls = AsksTLS(opts[k])
          BY <2>4, <2>6, <4>1, Zenon
        <5>3. (\E n \in {k} : AsksTLS(opts[n])) <=> AsksTLS(opts[k])
          OBVIOUS
        <5>4. AsksTLS(opts[k]) \in BOOLEAN
          BY <2>4, <5>2, Zenon
        <5> QED
          BY <5>1, <5>2, <5>3, <5>4, Zenon
      <4>2. CASE o.kind \notin {"tls", "tlsConfig"}
        <5>1. LastOption({"tls", "tlsConfig"}, k) = LastOption({"tls", "tlsConfig"}, applied)
          BY <2>5, <4>2, Zenon
        <5>2. t.tls = settings.tls
          BY <2>4, <2>6, <4>2, Zenon
        <5> QED
          BY <2>2, <5>1, <5>2, Zenon DEF Asked
      <4> QED
        BY <4>1, <4>2, Zenon
    <3>3. /\ LastOption({"token"}, k) = {} => t.token = Unset
          /\ \A n \in LastOption({"token"}, k) : t.token = opts[n].token
      <4>1. CASE o.kind = "token"
        <5>1. LastOption({"token"}, k) = {k}
          BY <2>5, <4>1, Zenon
        <5> QED
          BY <2>4, <2>6, <4>1, <5>1, Zenon
      <4>2. CASE o.kind # "token"
        <5>1. LastOption({"token"}, k) = LastOption({"token"}, applied)
          BY <2>5, <4>2, Zenon
        <5>2. t.token = settings.token
          BY <2>4, <2>6, <4>2, Zenon
        <5> QED
          BY <2>2, <5>1, <5>2, Zenon DEF Asked
      <4> QED
        BY <4>1, <4>2, Zenon
    <3>4. settings'.tls = t.tls /\ settings'.token = t.token
      BY <2>1, Zenon
    <3> QED
      BY <2>1, <3>1, <3>2, <3>3, <3>4, Zenon DEF Asked, LastOption
  <2> HIDE DEF t
  <2> QED
    BY <2>1, <2>2, <2>3, <2>4, <2>6, Zenon DEF OptionsApplied
<1>2. ASSUME UNCHANGED <<opts, applied, settings>>, pc # "new",
             pc \in {"failed"} => pc' = "failed", pc' # "new",
             \/ dialled' = dialled
             \/ pc = "dial" /\ dialled' = dialled \cup {IF settings.tls THEN "tls" ELSE "plain"}
      PROVE  OptionsApplied'
  <2>1. \A k : Asked(k)' <=> Asked(k)
    BY <1>2, Zenon DEF Asked, LastOption
  <2>2. dialled' # {} =>
          /\ settings.err = "none" /\ applied = Len(opts)
          /\ dialled' = {IF settings.tls THEN "tls" ELSE "plain"}
    BY <1>2, Zenon DEF OptionsApplied
  <2> QED
    BY <1>2, <2>1, <2>2, Zenon DEF OptionsApplied
<1>3. CASE NewTCPClient
  <2>1. /\ UNCHANGED <<opts, applied, settings, dialled>> /\ pc = "new"
        /\ applied = Len(opts) /\ pc' = "dial"
    BY <1>3, Zenon DEF NewTCPClient, clientVars, historyVars, Goto
  <2>2. \A k : Asked(k)' <=> Asked(k)
    BY <2>1, Zenon DEF Asked, LastOption
  <2> QED
    BY <2>1, <2>2, Zenon DEF OptionsApplied
<1>4. CASE dial \/ dialError
  BY <1>2, <1>4, Zenon DEF dial, dialError, ConnectError, clientVars, Goto
<1>5. CASE HelloTooLong \/ HelloLost \/ HelloRefused
  BY <1>2, <1>5, Zenon DEF HelloTooLong, HelloLost, HelloRefused, HelloError, ConnectError,
                    Answering, clientVars, Goto
<1>6. CASE HelloAccepted
  BY <1>2, <1>6, Zenon DEF HelloAccepted, Answering, Goto
<1>7. CASE SendTooLong \/ Cancelled \/ Exhausted \/ SendDelivered \/ SendLost \/ Reconnect
  BY <1>2, <1>7, Zenon DEF SendTooLong, Cancelled, Exhausted, SendDelivered, SendLost,
                    Reconnect, Return, clientVars, historyVars, Goto
<1>8. CASE \/ \E size \in RequestSizes : Call(size) \/ SendAnswered(size)
  BY <1>2, <1>8, Zenon DEF Call, SendAnswered, Return, clientVars, historyVars, Goto
<1>9. CASE UNCHANGED vars \/ \E s \in Servers \cup {Down} : Restart(s)
  <2>1. UNCHANGED <<opts, applied, settings, dialled, pc>>
    BY <1>9, Zenon DEF Restart, vars, clientVars, historyVars
  <2>2. \A k : Asked(k)' <=> Asked(k)
    BY <2>1, Zenon DEF Asked, LastOption
  <2> QED
    BY <2>1, <2>2, Zenon DEF OptionsApplied
<1> QED
  BY <1>1, <1>3, <1>4, <1>5, <1>6, <1>7, <1>8, <1>9, Zenon DEF Next, ClientStep

\* Before the first option nothing is asked for.
LEMMA OptionsFirst == Init => OptionsApplied
<1> SUFFICES ASSUME Init PROVE OptionsApplied
  OBVIOUS
<1>1. /\ opts \in Seq(Options) /\ applied = 0 /\ pc = "new" /\ dialled = {}
      /\ settings = [token |-> Unset, tls |-> FALSE, err |-> "none"]
  BY ConnectAssumption, Zenon DEF Init, NoSettings
<1>2. 1..0 = {} /\ Len(opts) \in Nat
  BY <1>1, SMTT(30)
<1>3. LastOption({"tls", "tlsConfig"}, 0) = {} /\ LastOption({"token"}, 0) = {}
  BY <1>2, Zenon DEF LastOption
<1>4. Asked(0)
  BY <1>1, <1>2, <1>3, Zenon DEF Asked
<1> QED
  BY <1>1, <1>2, <1>4, SMTT(30) DEF OptionsApplied

\* With an unusable TLSConfig nothing is dialled; otherwise transport and token
\* of every connection are those of the last options that speak of them
\* (applyOptions in options.go, dial and hello in tcp_client.go).
THEOREM OptionsAreDecisive == Spec => []OptionsDecide
<1>1. Init => OptionsApplied
  BY OptionsFirst, Zenon
<1>2. OptionsApplied => OptionsDecide
  <2> SUFFICES ASSUME OptionsApplied PROVE OptionsDecide
    OBVIOUS
  <2>1. CASE dialled = {}
    BY <2>1, Zenon DEF OptionsDecide
  <2>2. CASE dialled # {}
    <3>1. /\ settings.err = "none" /\ applied = Len(opts)
          /\ dialled = {IF settings.tls THEN "tls" ELSE "plain"}
      BY <2>2, Zenon DEF OptionsApplied
    <3>2. Asked(Len(opts))
      BY <3>1, Zenon DEF OptionsApplied
    <3> QED
      BY <3>1, <3>2, Zenon DEF Asked, OptionsDecide
  <2> QED
    BY <2>1, <2>2, Zenon
<1> QED
  BY <1>1, <1>2, OptionsKept, PTL DEF Spec

-----------------------------------------------------------------------------
\* A refusal is known from the refusal until the next dial.
LEMMA RefusalKept ==
  ConnTypes /\ LimitAgreed /\ OptionsApplied /\ RefusalKnown /\ [Next]_vars => RefusalKnown'
<1> SUFFICES ASSUME ConnTypes, LimitAgreed, OptionsApplied, RefusalKnown, [Next]_vars
             PROVE  RefusalKnown'
  BY Zenon
<1>a. attempt \in Nat /\ MaxReconnect \in Nat \ {0} /\ pc \in Places
  BY ConnectAssumption, Zenon DEF ConnTypes
<1>n. pc = "new" => session = Down /\ refusal = "none" /\ result = "none"
  BY DEF LimitAgreed, RefusalKnown
<1>u. "none" \notin ErrorCodes
  BY Named, Zenon
<1>e. ASSUME NEW e, ConnectError(e), pc \in {"dial", "hello"}, session' = Down,
             Tells(e)'
      PROVE  RefusalKnown'
  <2>0. result = "none" /\ attempt' = attempt
    BY <1>e, Zenon DEF RefusalKnown, ConnectError
  <2>1. CASE attempt = 0
    <3>1. pc' = "failed" /\ result' = e
      BY <1>e, <2>1, Zenon DEF ConnectError, Goto
    <3> QED
      BY <1>e, <3>1, Zenon DEF RefusalKnown, AuthFailureReported, Tells, Reported
  <2>2. CASE attempt # 0
    <3>1. pc' = "retry" /\ lastErr' = e /\ result' = result
      BY <1>e, <2>2, Zenon DEF ConnectError, Goto
    <3> QED
      BY <1>e, <2>0, <2>2, <3>1, Zenon DEF RefusalKnown, AuthFailureReported, Tells, Reported
  <2> QED
    BY <2>1, <2>2, Zenon
<1>1. CASE applyOptions
  <2>1. /\ pc = "new" /\ session' = session /\ refusal' = refusal
        /\ (pc' = pc /\ result' = result) \/ (pc' = "failed" /\ result' = settings'.err)
    BY <1>1, Zenon DEF applyOptions, historyVars, Goto
  <2>2. settings'.err # "auth"
    BY OptionsKept, Zenon DEF OptionsApplied
  <2> QED
    BY <1>n, <1>u, <2>1, <2>2, Zenon DEF RefusalKnown, AuthFailureReported
<1>2. CASE NewTCPClient
  <2>1. /\ pc = "new" /\ pc' = "dial" /\ session' = session /\ refusal' = refusal
        /\ result' = result
    BY <1>2, Zenon DEF NewTCPClient, callVars, historyVars, Goto
  <2> QED
    BY <1>n, <2>1, Zenon DEF RefusalKnown, AuthFailureReported, Tells, Reported
<1>3. CASE dial
  <2>1. pc = "dial" /\ pc' = "hello" /\ refusal' = "none" /\ result' = result
    BY <1>3, Zenon DEF dial, callVars, Goto
  <2> QED
    BY <2>1, Zenon DEF RefusalKnown, AuthFailureReported, Tells, Reported
<1>4. CASE dialError
  <2>1. /\ pc = "dial" /\ ConnectError("dial") /\ refusal' = "none" /\ session' = session
    BY <1>4, Zenon DEF dialError
  <2>2. session = Down
    BY <2>1, Zenon DEF LimitAgreed
  <2> QED
    BY <1>e, <1>u, <2>1, <2>2, Zenon DEF Tells
<1>5. CASE HelloTooLong \/ HelloLost
  <2>1. PICK e \in {"size", "closed"} :
          pc = "hello" /\ ConnectError(e) /\ session' = Down /\ refusal' = refusal
    BY <1>5, Zenon DEF HelloTooLong, HelloLost, HelloError
  <2>2. refusal = "none"
    BY <2>1, Zenon DEF RefusalKnown
  <2> QED
    BY <1>e, <1>u, <2>1, <2>2, Zenon DEF Tells
<1>6. CASE HelloRefused
  <2>1. PICK frame \in HelloFrames(session, settings.token) :
          HelloError(HelloVerdict(Answers[frame])) /\ refusal' = RefusalCode(frame)
    BY <1>6, Zenon DEF HelloRefused
  <2> DEFINE verdict == HelloVerdict(Answers[frame])
  <2>2. pc = "hello" /\ ConnectError(verdict) /\ session' = Down
    BY <1>6, <2>1, Zenon DEF HelloRefused, HelloError, Answering
  <2>3. /\ verdict = "auth" => refusal' = "3002"
        /\ refusal' \in ErrorCodes => verdict = Reported(refusal')
    BY <1>6, <2>1, HelloFacts, Zenon DEF HelloRefused
  <2> HIDE DEF verdict
  <2> QED
    BY <1>e, <2>2, <2>3, Zenon DEF Tells, Reported
<1>7. CASE HelloAccepted
  <2>1. /\ pc = "hello" /\ pc' \in {"idle", "send"} /\ refusal' = refusal
        /\ result' = result
    BY <1>7, Zenon DEF HelloAccepted, Answering, callVars, Goto
  <2>2. refusal = "none" /\ result = "none"
    BY <2>1, Zenon DEF RefusalKnown
  <2> QED
    BY <2>1, <2>2, Zenon DEF RefusalKnown, AuthFailureReported, Tells, Reported
<1>8. CASE \E size \in RequestSizes : Call(size)
  <2>1. /\ pc' = "send" /\ attempt' = 0 /\ result' = "none" /\ refusal' = refusal
        /\ session' = session
    BY <1>8, Zenon DEF Call, historyVars, Goto
  <2> QED
    BY <2>1, SMTT(30) DEF RefusalKnown, AuthFailureReported, Tells, Reported
<1>9. CASE SendTooLong \/ Cancelled
  <2>1. /\ pc' = "idle" /\ result' \in {"size", "context"} /\ refusal' = refusal
        /\ session' = session
    BY <1>9, Zenon DEF SendTooLong, Cancelled, Return, historyVars, Goto
  <2> QED
    BY <2>1, Zenon DEF RefusalKnown, AuthFailureReported, Tells, Reported
<1>10. CASE SendDelivered
  <2>1. /\ pc = "send" /\ pc' = "read" /\ result' = result /\ refusal' = refusal
        /\ session' = session /\ attempt' = attempt
    BY <1>10, Zenon DEF SendDelivered, callVars, historyVars, Goto
  <2> QED
    BY <2>1, Zenon DEF RefusalKnown, AuthFailureReported, Tells, Reported
<1>11. CASE SendLost
  <2>1. /\ pc \in {"send", "read"} /\ session' = Down /\ lastErr' = "closed"
        /\ pc' = "retry" /\ result' = result /\ refusal' = refusal /\ attempt' = attempt
    BY <1>11, Zenon DEF SendLost, historyVars, Goto
  <2>2. result = "none" /\ (attempt # 0 => refusal = "none")
    BY <1>a, <2>1, SMTT(30) DEF RefusalKnown
  <2> QED
    BY <1>u, <2>1, <2>2, Zenon DEF RefusalKnown, AuthFailureReported, Tells, Reported
<1>12. CASE \E size \in RequestSizes : SendAnswered(size)
  <2>1. /\ session # Down /\ pc' = "idle" /\ refusal' = refusal
        /\ result' \in {"size", "ok", "3000"}
    BY <1>12, Zenon DEF SendAnswered, Return, Goto
  <2>2. refusal = "none"
    BY <2>1, Zenon DEF RefusalKnown
  <2> QED
    BY <1>u, <2>1, <2>2, Zenon DEF RefusalKnown, AuthFailureReported, Tells, Reported
<1>13. CASE Reconnect
  <2>1. /\ pc = "retry" /\ pc' = "dial" /\ session' = Down /\ result' = result
    BY <1>13, Zenon DEF Reconnect, Goto
  <2> QED
    BY <2>1, Zenon DEF RefusalKnown, AuthFailureReported, Tells, Reported
<1>14. CASE Exhausted
  <2>1. /\ pc = "retry" /\ attempt = MaxReconnect /\ pc' = "idle" /\ result' = lastErr
        /\ refusal' = refusal /\ session' = session
    BY <1>14, Zenon DEF Exhausted, Return, historyVars, Goto
  <2>2. attempt # 0
    BY <1>a, <2>1, Zenon
  <2>3. Tells(lastErr)
    BY <2>1, <2>2, Zenon DEF RefusalKnown
  <2> QED
    BY <2>1, <2>3, Zenon DEF RefusalKnown, AuthFailureReported, Tells, Reported
<1>15. CASE \E s \in Servers \cup {Down} : Restart(s)
  <2>1. UNCHANGED <<pc, attempt, lastErr, result, refusal>> /\ session' = Down
    BY <1>15, Zenon DEF Restart, callVars, historyVars
  <2> QED
    BY <2>1, Zenon DEF RefusalKnown, AuthFailureReported, Tells, Reported
<1>16. CASE UNCHANGED vars
  <2>1. UNCHANGED <<pc, attempt, lastErr, result, refusal, session>>
    BY <1>16, Zenon DEF vars, callVars, historyVars
  <2> QED
    BY <2>1, Zenon DEF RefusalKnown, AuthFailureReported, Tells, Reported
<1> QED
  BY <1>1, <1>2, <1>3, <1>4, <1>5, <1>6, <1>7, <1>8, <1>9, <1>10, <1>11, <1>12, Zenon,
     <1>13, <1>14, <1>15, <1>16 DEF Next, ClientStep

\* Whatever the server answers, the caller of NewTCPClient, or of a call, gets
\* ErrAuthFailed only when the last HELLO was refused with code 3002, and gets the
\* code of any refusal unless the context ended or the request was too long
\* (hello in tcp_client.go, sendWithReconnect in client.go).
THEOREM RefusalIsReported == Spec => []AuthFailureReported
<1> DEFINE IInv == ConnTypes /\ LimitAgreed /\ OptionsApplied /\ RefusalKnown
<1>1. Init => ConnTypes /\ LimitAgreed
  BY Named DEF Init, ConnTypes, Places, LimitAgreed
<1>2. Init => RefusalKnown
  BY Named, Zenon DEF Init, RefusalKnown, AuthFailureReported
<1>3. Init => OptionsApplied
  BY OptionsFirst
<1>4. IInv /\ [Next]_vars => IInv'
  BY TypesKept, LimitKept, OptionsKept, RefusalKept, Zenon
<1>5. IInv => AuthFailureReported
  BY DEF RefusalKnown
<1> QED
  BY <1>1, <1>2, <1>3, <1>4, <1>5, PTL DEF Spec

=============================================================================
