------------------------------ MODULE Response ------------------------------
(***************************************************************************)
(* The parsers of response.go and inspect.go as pure operators.            *)
(*                                                                         *)
(* A frame is a sequence of tokens: the delimiters "|" and ";" and the     *)
(* pieces of text between them.  A text is a sequence of tokens; a decimal *)
(* number is one token.  Numbers are known by their place in Numerals, the *)
(* values around the widths the parsers ask for.                           *)
(***************************************************************************)
EXTENDS Integers, Sequences, SequencesExt

Numerals == <<"0", "1", "60", "3000", "3002", "3003", "4096", "9999", "10000", "65536",
              "2147483648", "4294967296", "18446744073709551616">>

BitLength == <<0, 1, 6, 12, 12, 12, 13, 14, 14, 17, 32, 33, 65>>

Numbers == 1..Len(Numerals)

Number(text) == CHOOSE v \in Numbers : Numerals[v] = text

Zero == Number("0")
One == Number("1")
MaxErrorCode == Number("9999")
TwoTo31 == Number("2147483648")
TwoTo32 == Number("4294967296")
TwoTo64 == Number("18446744073709551616")

\* strconv.FormatUint
FormatUint(v) == <<Numerals[v]>>

\* The texts strconv.ParseUint reads as v; leading zeros are allowed.
Spellings(v) == {FormatUint(v)} \cup (IF v = One THEN {<<"01">>} ELSE {})

(***************************************************************************)
(* A parser that may fail yields a set: of the one value, or empty.        *)
(***************************************************************************)
The(S) == CHOOSE v \in S : TRUE

\* Faulty variant: any width is accepted.
ParseUintWide(text, width) ==
  {v \in Numbers : text \in Spellings(v)}

\* strconv.ParseUint(text, 10, width)
ParseUint(text, width) ==
  {v \in Numbers : text \in Spellings(v) /\ BitLength[v] <= width}

parseBoolField(text) == {b \in BOOLEAN : text = <<IF b THEN "1" ELSE "0">>}

\* bytes.IndexByte, with 0 for -1, and bytes.Split at ";".
Index(s, delimiter) == SelectInSeq(s, LAMBDA t : t = delimiter)

Split(data) ==
  FoldLeft(LAMBDA fields, t : IF t = ";" THEN Append(fields, <<>>)
                              ELSE [fields EXCEPT ![Len(fields)] = Append(@, t)],
           <<<<>>>>, data)

ReadField(type, text) ==
  CASE type = "bool" -> parseBoolField(text)
    [] type = "text" -> {text}
    [] type = "u31"  -> ParseUint(text, 31)
    [] type = "u32"  -> ParseUint(text, 32)
    [] type = "u64"  -> ParseUint(text, 64)

(***************************************************************************)
(* A layout lists the fields of a struct in the order of the frame, each   *)
(* with its name and type.  All failures are ErrCorruptedResponse, so the  *)
(* order in which fields are looked at does not show.                      *)
(***************************************************************************)
ReadStruct(fields, layout) ==
  IF \/ Len(fields) # Len(layout)
     \/ \E n \in 1..Len(layout) : ReadField(layout[n][2], fields[n]) = {}
  THEN {}
  ELSE {[name \in {layout[n][1] : n \in 1..Len(layout)} |->
           LET n == CHOOSE m \in 1..Len(layout) : layout[m][1] = name
           IN The(ReadField(layout[n][2], fields[n]))]}

\* A loop that reads Len(layout) fields at a time, up to the end.
ReadList(fields, layout) ==
  LET width == Len(layout)
      entry(g) == ReadStruct(SubSeq(fields, (g - 1) * width + 1, g * width), layout)
      count == Len(fields) \div width
  IN IF Len(fields) % width # 0 \/ \E g \in 1..count : entry(g) = {}
     THEN {}
     ELSE {[g \in 1..count |-> The(entry(g))]}

-----------------------------------------------------------------------------
Success(v) == [status |-> "success", value |-> v]
Corrupted == [status |-> "corrupted", value |-> <<>>]
Unknown == [status |-> "unknown", value |-> <<>>]

\* Faulty variant: the message ends at the next delimiter.
parseErrorCut(data) ==
  LET i == Index(data, "|")
      rest == SubSeq(data, i + 1, Len(data))
      code == {c \in ParseUint(SubSeq(data, 1, i - 1), 16) : c <= MaxErrorCode}
  IN IF i = 0 \/ code = {} THEN Corrupted
     ELSE [status |-> "error",
           value |-> [Code |-> The(code),
                      Message |-> SubSeq(rest, 1, Index(rest \o <<"|">>, "|") - 1)]]

parseError(data) ==
  LET i == Index(data, "|")
      code == {c \in ParseUint(SubSeq(data, 1, i - 1), 16) : c <= MaxErrorCode}
  IN IF i = 0 \/ code = {} THEN Corrupted
     ELSE [status |-> "error",
           value |-> [Code |-> The(code),
                      Message |-> SubSeq(data, i + 1, Len(data))]]

\* What follows the status.
Data(resp) == SubSeq(resp, Index(resp, "|") + 1, Len(resp))

\* What all parsers have in common; values holds what the data stands for, or
\* nothing if it cannot be parsed.
Parse(resp, values) ==
  LET i == Index(resp, "|")
      status == SubSeq(resp, 1, i - 1)
  IN CASE i = 0 -> Corrupted
       [] i > 0 /\ status = <<"ok">> ->
            IF values = {} THEN Corrupted ELSE Success(The(values))
       [] i > 0 /\ status = <<"err">> -> parseError(Data(resp))
       [] OTHER -> Unknown

parseResponse(resp) == Parse(resp, ParseUint(Data(resp), 64))

parseHelloResponse(resp) ==
  Parse(resp,
    {h \in ReadStruct(Split(Data(resp)),
                      <<<<"version", "u64">>, <<"maxMessageSize", "u31">>,
                        <<"authRequired", "bool">>, <<"role", "text">>>>) :
       h.maxMessageSize # Zero})

\* The loop over the delimiters, from the field that begins at n.
respDataToValues(data) ==
  LET end(n) == n - 1 + Index(SubSeq(data, n, Len(data)) \o <<";">>, ";")
      values[n \in 1..(Len(data) + 1)] ==
        LET rest == IF end(n) > Len(data) THEN {<<>>} ELSE values[end(n) + 1]
        IN {<<v>> \o vs : v \in ParseUint(SubSeq(data, n, end(n) - 1), 64),
                          vs \in rest}
  IN values[1]

parseMultiResponse(resp) == Parse(resp, respDataToValues(Data(resp)))

parseRateLimitResponse(resp) ==
  Parse(resp,
    ReadStruct(Split(Data(resp)),
               <<<<"Allowed", "bool">>, <<"Current", "u64">>,
                 <<"Remaining", "u64">>, <<"ResetAfter", "u32">>>>))

\* Faulty variant: two fields are taken for each other.
parseQuotaAcquireResponseSwapped(resp) ==
  Parse(resp,
    ReadStruct(Split(Data(resp)),
               <<<<"Acquired", "bool">>, <<"Used", "u64">>,
                 <<"Allocated", "u64">>, <<"Remaining", "u64">>,
                 <<"ExpiresAfter", "u32">>>>))

parseQuotaAcquireResponse(resp) ==
  Parse(resp,
    ReadStruct(Split(Data(resp)),
               <<<<"Acquired", "bool">>, <<"Allocated", "u64">>,
                 <<"Used", "u64">>, <<"Remaining", "u64">>,
                 <<"ExpiresAfter", "u32">>>>))

parseQuotaInfoResponse(resp) ==
  Parse(resp,
    LET fields == Split(Data(resp))
        quota == <<<<"Limit", "u64">>, <<"Used", "u64">>, <<"Remaining", "u64">>>>
        client == <<<<"ClientID", "text">>, <<"Amount", "u64">>, <<"ExpiresAt", "u32">>>>
    IN IF Len(fields) < 3 THEN {}
       ELSE {[quota |-> q, Clients |-> cs] :
               q \in ReadStruct(SubSeq(fields, 1, 3), quota),
               cs \in ReadList(SubSeq(fields, 4, Len(fields)), client)})

parseScanResponse(resp) ==
  Parse(resp,
    LET fields == Split(Data(resp))
    IN {[Cursor |-> fields[1], Keys |-> keys] :
          keys \in ReadList(Tail(fields),
                            <<<<"Key", "text">>, <<"Window", "u32">>>>)})

parseLimitEventResponse(resp) ==
  Parse(resp,
    ReadStruct(Split(Data(resp)),
               <<<<"Key", "text">>, <<"Window", "u32">>, <<"Current", "u64">>,
                 <<"ResetAfter", "u32">>>>))

parseQuotaEventResponse(resp) ==
  Parse(resp,
    ReadStruct(Split(Data(resp)),
               <<<<"Event", "text">>, <<"Name", "text">>, <<"ClientID", "text">>,
                 <<"Amount", "u64">>, <<"Used", "u64">>, <<"Remaining", "u64">>,
                 <<"ExpiresAt", "u32">>>>))

\* json.Unmarshal (external) accepts a report, which is one token here.
parseInspectResponse(resp) ==
  Parse(resp, {d \in {Data(resp)} : d = <<"{report}">>})
=============================================================================
