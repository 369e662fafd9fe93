------------------------- MODULE VictronParserProofs -------------------------
(***************************************************************************)
(* The parser writes within its arrays for every input and every length of *)
(* the arrays, if the memory at the start does not make it do otherwise,   *)
(* and its queue of entries stays within its own even then.                *)
(***************************************************************************)
EXTENDS VictronParser, TLAPS

Entries == [id : QueuedIds, data : Int \union Seq(TOKENS) \union BOOLEAN]

\* InBounds is inductive once the data of an entry has a type.
IInv == InBounds /\ fields \in Seq(Entries)

\* A byte is counted modulo MODULUS.
LEMMA CountedRange ==
    ASSUME NEW token \in TOKENS, NEW sum \in Int, Counted(sum, token)
    PROVE  checksum' \in 0 .. MODULUS - 1
BY ParserAssumption DEF Counted

\* The queue that an entry is put in has room for it.
LEMMA QueueHasRoom ==
    ASSUME IInv
    PROVE  Queue \in Seq(Entries) /\ Len(Queue) < MAX_FIELDS_COUNT
BY ParserAssumption DEF IInv, InBounds, Queue

\* What a sequence of entries that is short enough says of InBounds.
LEMMA EntriesQueued ==
    ASSUME NEW queue \in Seq(Entries)
    PROVE  \A i \in DOMAIN queue : queue[i].id \in QueuedIds
<1> SUFFICES ASSUME NEW i \in DOMAIN queue PROVE queue[i].id \in QueuedIds
  OBVIOUS
<1>1. queue[i] \in Entries
  OBVIOUS
<1> QED BY <1>1 DEF Entries

\* The number in the data of a line.
LEMMA AtoiInt == ASSUME NEW data \in Seq(TOKENS) PROVE Atoi(data) \in Int
BY ParserAssumption DEF Atoi

\* processEntry makes an entry of every queued id.
LEMMA EntryMade ==
    ASSUME NEW id \in QueuedIds, NEW data \in Seq(TOKENS)
    PROVE  [id |-> id, data |-> Value(id, data)] \in Entries
<1>1. Atoi(data) \in Int /\ Signed(Atoi(data), 256) \in Int
  BY AtoiInt DEF Signed
<1>2. CASE id \in WideIds
  BY <1>1, <1>2 DEF Value, Entries
<1>3. CASE id \notin WideIds /\ id \in ByteIds
  BY <1>1, <1>3 DEF Value, Entries
<1>4. CASE id \notin WideIds /\ id \notin ByteIds /\ id \in TextIds
  BY <1>4 DEF Value, Entries
<1>5. CASE id \notin WideIds /\ id \notin ByteIds /\ id \notin TextIds
  <2>1. Value(id, data) = (data = <<"ON">>)
    BY <1>5 DEF Value
  <2>2. Value(id, data) \in BOOLEAN
    BY <2>1, Zenon
  <2> QED BY <2>2 DEF Entries
<1> QED BY <1>2, <1>3, <1>4, <1>5

\* The string that a text is copied to is a sequence of tokens.
LEMMA CopiedTyped ==
    ASSUME NEW string \in Copied, fieldData \in Seq(TOKENS), fieldIndex \in Int
    PROVE  string \in Seq(TOKENS)
<1> DEFINE copy == IF CopyLength < Len(fieldData)
                   THEN SubSeq(fieldData, 1, CopyLength) ELSE fieldData
<1>1. copy \in Seq(TOKENS)
  <2>1. CASE CopyLength < Len(fieldData)
    <3>1. SubSeq(fieldData, 1, CopyLength) \in Seq(TOKENS)
      BY <2>1 DEF CopyLength
    <3> QED BY <2>1, <3>1
  <2> QED BY <2>1
<1>2. string = copy \/ \E g \in GARBAGE : string = copy \o g
  BY DEF Copied
<1> HIDE DEF copy
<1>3. ASSUME NEW g \in GARBAGE
      PROVE  copy \o g \in Seq(TOKENS)
  <2>1. g \in Seq(TOKENS)
    BY ParserAssumption
  <2> QED BY <1>1, <2>1
<1> QED BY <1>1, <1>2, <1>3

\* A write within the array, or at its end.
LEMMA PutTyped ==
    ASSUME NEW data \in Seq(TOKENS), NEW index \in Nat, NEW token \in TOKENS, NEW max \in Nat,
           Len(data) <= max, index < max
    PROVE  Put(data, index, token) \in Seq(TOKENS) /\ Len(Put(data, index, token)) <= max
<1>1. CASE index < Len(data)
  <2>1. Put(data, index, token) = [data EXCEPT ![index + 1] = token] /\ index + 1 \in 1 .. Len(data)
    BY <1>1 DEF Put
  <2> QED BY <2>1
<1>2. CASE ~(index < Len(data))
  <2>1. Put(data, index, token) = Append(data, token) /\ Len(data) \in Nat /\ Len(data) < max
    BY <1>2 DEF Put
  <2> QED BY <2>1
<1> QED BY <1>1, <1>2

\* A write at an index that is in step with its array.
LEMMA PutAtEnd ==
    ASSUME NEW data, NEW token, Len(data) \in Nat
    PROVE  Put(data, Len(data), token) = Append(data, token)
BY DEF Put

\* Each outcome of an entry keeps the queue within its array.
LEMMA EntryInBounds ==
    ASSUME IInv, NEW token \in TOKENS, ProcessEntry(token)
    PROVE  /\ fields' \in Seq(Entries) /\ Len(fields') <= MAX_FIELDS_COUNT
           /\ checksum' \in 0 .. MODULUS - 1
           /\ DOMAIN metrics' = METRICS
<1>0. /\ Queue \in Seq(Entries) /\ Len(Queue) < MAX_FIELDS_COUNT
      /\ checksum \in Int /\ 0 \in Int /\ DOMAIN metrics = METRICS /\ MAX_FIELDS_COUNT \in Nat
  BY QueueHasRoom, ParserAssumption DEF IInv, InBounds
<1>1. CASE Lower \in QueuedIds /\ QueueEntry /\ Counted(checksum, token)
  <2>1. fieldData \in Seq(TOKENS) /\ fieldIndex \in Int
    BY DEF IInv, InBounds
  <2>2. PICK string \in IF Lower \in TextIds THEN Copied ELSE {fieldData} :
                fields' = Append(Queue, [id |-> Lower, data |-> Value(Lower, string)])
    BY <1>1 DEF QueueEntry
  <2>s. string \in Seq(TOKENS)
    BY <2>1, <2>2, CopiedTyped
  <2>e. [id |-> Lower, data |-> Value(Lower, string)] \in Entries
    BY <1>1, <2>s, EntryMade
  <2>3. fields' \in Seq(Entries) /\ Len(fields') = Len(Queue) + 1
    BY <1>0, <2>2, <2>e
  <2>4. Len(Queue) \in Nat
    BY <1>0
  <2> QED BY <1>0, <1>1, <2>3, <2>4, CountedRange DEF QueueEntry
<1>2. CASE IsChecksum /\ EndBlock(token)
  <2>1. fields' = <<>> /\ DOMAIN metrics' = METRICS
    BY <1>2 DEF EndBlock, ProcessFields
  <2>2. checksum' \in 0 .. MODULUS - 1
    BY <1>0, <1>2, CountedRange DEF EndBlock
  <2> QED BY <1>0, <2>1, <2>2
<1>3. CASE fields' = Queue /\ Counted(checksum, token) /\ UNCHANGED metrics
  BY <1>0, <1>3, CountedRange
<1> QED BY <1>1, <1>2, <1>3 DEF ProcessEntry

LEMMA InitIInv == ParserInit => IInv
<1> SUFFICES ASSUME ParserInit PROVE IInv
  OBVIOUS
<1>1. /\ labelData \in Seq(TOKENS) /\ Len(labelData) <= MAX_LABEL_LENGTH
      /\ fieldData \in Seq(TOKENS) /\ Len(fieldData) <= MAX_FIELD_LENGTH
      /\ labelIndex \in Int /\ fieldIndex \in Int
  BY ParserAssumption DEF ParserInit, Garbage
<1>2. state \in STATES /\ checksum \in 0 .. MODULUS - 1 /\ DOMAIN metrics = METRICS
  BY DEF ParserInit
<1>3. sane = Sane /\ fields = <<>>
  BY DEF ParserInit
<1>4. Sane \in BOOLEAN
  BY DEF Sane
<1>5. Len(fields) <= MAX_FIELDS_COUNT /\ fields \in Seq(Entries)
      /\ \A i \in DOMAIN fields : fields[i].id \in QueuedIds
  BY <1>3, ParserAssumption
<1> QED BY <1>1, <1>2, <1>3, <1>4, <1>5, Zenon DEF IInv, InBounds

\* The parser's memory after a token, in parts.
Text ==
    /\ labelData \in Seq(TOKENS) /\ Len(labelData) <= MAX_LABEL_LENGTH /\ labelIndex \in Int
    /\ fieldData \in Seq(TOKENS) /\ Len(fieldData) <= MAX_FIELD_LENGTH /\ fieldIndex \in Int
Rest ==
    /\ state \in STATES
    /\ fields \in Seq(Entries) /\ Len(fields) <= MAX_FIELDS_COUNT
    /\ checksum \in 0 .. MODULUS - 1
    /\ DOMAIN metrics = METRICS

LEMMA InvParts == IInv <=> Text /\ Rest /\ (sane => Sane) /\ sane \in BOOLEAN
<1>1. IInv => Text /\ Rest /\ (sane => Sane) /\ sane \in BOOLEAN
  BY DEF IInv, InBounds, Text, Rest
<1>2. ASSUME Text, Rest, sane => Sane, sane \in BOOLEAN
      PROVE  IInv
  <2>1. \A i \in DOMAIN fields : fields[i].id \in QueuedIds
    BY <1>2, EntriesQueued DEF Rest
  <2> QED BY <1>2, <2>1, Zenon DEF IInv, InBounds, Text, Rest
<1> QED BY <1>1, <1>2

\* One token keeps the arrays and the queue.
LEMMA ParseTyped ==
    ASSUME IInv, NEW token \in TOKENS, Parse(token)
    PROVE  Text' /\ Rest'
<1>0. /\ state \in STATES
      /\ labelData \in Seq(TOKENS) /\ Len(labelData) <= MAX_LABEL_LENGTH /\ labelIndex \in Int
      /\ fieldData \in Seq(TOKENS) /\ Len(fieldData) <= MAX_FIELD_LENGTH /\ fieldIndex \in Int
      /\ fields \in Seq(Entries) /\ Len(fields) <= MAX_FIELDS_COUNT
      /\ checksum \in 0 .. MODULUS - 1 /\ checksum \in Int
      /\ DOMAIN metrics = METRICS
      /\ MAX_LABEL_LENGTH \in Nat /\ MAX_FIELD_LENGTH \in Nat /\ MAX_FIELDS_COUNT \in Nat
  BY ParserAssumption DEF IInv, InBounds
<1> USE DEF Text, Rest, labelBuffer, fieldBuffer
<1>1. CASE LabelSplit(token)
  <2>1. <<>> \in Seq(TOKENS) /\ Len(<<>>) <= MAX_FIELD_LENGTH
    BY <1>0
  <2> QED BY <1>0, <1>1, <2>1, CountedRange DEF LabelSplit, STATES
<1>2. CASE LabelAsync(token)
  BY <1>0, <1>2 DEF LabelAsync, STATES
<1>3. CASE LabelText(token)
  <2>1. CASE labelIndex >= MAX_LABEL_LENGTH
    BY <1>0, <1>3, <2>1, CountedRange DEF LabelText, STATES
  <2>2. CASE ~(labelIndex >= MAX_LABEL_LENGTH)
    <3>1. /\ labelData' = Put(labelData, labelIndex, token) /\ labelIndex' = labelIndex + 1
          /\ UNCHANGED <<state, fieldBuffer, fields, metrics>> /\ labelIndex \in Nat
          /\ labelIndex < MAX_LABEL_LENGTH
      BY <1>0, <1>3, <2>2 DEF LabelText
    <3>2. labelData' \in Seq(TOKENS) /\ Len(labelData') <= MAX_LABEL_LENGTH
      BY <1>0, <3>1, PutTyped
    <3>3. checksum' \in 0 .. MODULUS - 1
      BY <1>0, <1>3, CountedRange DEF LabelText
    <3> QED BY <1>0, <3>1, <3>2, <3>3
  <2> QED BY <2>1, <2>2
<1>4. CASE FieldEnd(token)
  BY <1>0, <1>4, EntryInBounds DEF FieldEnd, STATES
<1>5. CASE FieldText(token)
  <2>1. CASE fieldIndex >= MAX_FIELD_LENGTH
    BY <1>0, <1>5, <2>1, CountedRange DEF FieldText, STATES
  <2>2. CASE ~(fieldIndex >= MAX_FIELD_LENGTH)
    <3>1. /\ fieldData' = Put(fieldData, fieldIndex, token) /\ fieldIndex' = fieldIndex + 1
          /\ UNCHANGED <<state, labelBuffer, fields, metrics>> /\ fieldIndex \in Nat
          /\ fieldIndex < MAX_FIELD_LENGTH
      BY <1>0, <1>5, <2>2 DEF FieldText
    <3>2. fieldData' \in Seq(TOKENS) /\ Len(fieldData') <= MAX_FIELD_LENGTH
      BY <1>0, <3>1, PutTyped
    <3>3. checksum' \in 0 .. MODULUS - 1
      BY <1>0, <1>5, CountedRange DEF FieldText
    <3> QED BY <1>0, <3>1, <3>2, <3>3
  <2> QED BY <2>1, <2>2
<1>6. CASE Stray(token)
  BY <1>0, <1>6, ParserAssumption DEF Stray, Garbage
<1>7. CASE Start(token)
  <2>1. <<>> \in Seq(TOKENS) /\ Len(<<>>) <= MAX_LABEL_LENGTH
    BY <1>0
  <2> QED BY <1>0, <1>7, <2>1, CountedRange DEF Start, STATES
<1>8. CASE Skip(token)
  BY <1>0, <1>8, CountedRange DEF Skip
<1> QED BY <1>1, <1>2, <1>3, <1>4, <1>5, <1>6, <1>7, <1>8 DEF Parse

\* Sane memory stays so: an index is set when its state is entered, and grows
\* only while it is below the length of its array.
LEMMA SaneNext ==
    ASSUME IInv, Sane, NEW token, Parse(token)
    PROVE  Sane'
<1>0. /\ labelIndex \in Int /\ fieldIndex \in Int /\ state # "CHECKSUM"
      /\ MAX_LABEL_LENGTH \in Nat /\ MAX_FIELD_LENGTH \in Nat
  BY ParserAssumption DEF IInv, InBounds, Sane
<1> USE DEF labelBuffer, fieldBuffer
<1>1. CASE LabelSplit(token) \/ LabelAsync(token) \/ FieldEnd(token)
  BY <1>0, <1>1 DEF LabelSplit, LabelAsync, FieldEnd, Sane
<1>2. CASE LabelText(token)
  <2>1. CASE labelIndex >= MAX_LABEL_LENGTH
    BY <1>2, <2>1 DEF LabelText, Sane
  <2>2. CASE ~(labelIndex >= MAX_LABEL_LENGTH)
    BY <1>0, <1>2, <2>2 DEF LabelText, Sane
  <2> QED BY <2>1, <2>2
<1>3. CASE FieldText(token)
  <2>1. CASE fieldIndex >= MAX_FIELD_LENGTH
    BY <1>3, <2>1 DEF FieldText, Sane
  <2>2. CASE ~(fieldIndex >= MAX_FIELD_LENGTH)
    BY <1>0, <1>3, <2>2 DEF FieldText, Sane
  <2> QED BY <2>1, <2>2
<1>4. CASE Stray(token)
  BY <1>0, <1>4 DEF Stray, Sane
<1>5. CASE Start(token)
  BY <1>0, <1>5 DEF Start, Sane
<1>6. CASE Skip(token)
  BY <1>0, <1>6 DEF Skip, Sane
<1> QED BY <1>1, <1>2, <1>3, <1>4, <1>5, <1>6 DEF Parse

LEMMA NextIInv == IInv /\ [ParserNext]_parser => IInv'
<1> SUFFICES ASSUME IInv, [ParserNext]_parser PROVE IInv'
  OBVIOUS
<1>0. Text /\ Rest /\ (sane => Sane) /\ sane \in BOOLEAN
  BY InvParts
<1>1. ASSUME NEW token \in TOKENS, Parse(token)
      PROVE  Text' /\ Rest' /\ (sane' => Sane') /\ sane' \in BOOLEAN
  <2>1. sane' = sane
    BY <1>1 DEF Parse
  <2> QED BY <1>0, <1>1, <2>1, ParseTyped, SaneNext
<1>2. ASSUME UNCHANGED parser
      PROVE  Text' /\ Rest' /\ (sane' => Sane') /\ sane' \in BOOLEAN
  <2>1. Text' /\ Rest'
    BY <1>0, <1>2 DEF parser, labelBuffer, fieldBuffer, Text, Rest
  <2>2. sane' = sane /\ (Sane' <=> Sane)
    BY <1>2 DEF parser, labelBuffer, fieldBuffer, Sane
  <2> QED BY <1>0, <2>1, <2>2
<1>3. Text' /\ Rest' /\ (sane' => Sane') /\ sane' \in BOOLEAN
  BY <1>1, <1>2 DEF ParserNext
<1>4. \A i \in DOMAIN fields' : fields'[i].id \in QueuedIds
  BY <1>3, EntriesQueued DEF Rest
<1> QED BY <1>3, <1>4, Zenon DEF IInv, InBounds, Text, Rest

\* Unless the memory at the start leads the first write astray, parse and
\* processEntry never write beyond labelData or fieldData and copy at most one
\* byte too many, whatever the serial line carries and in whatever order; the
\* queue of entries never exceeds its array in any case.
THEOREM AlwaysInBounds == ParserSpec => []InBounds
<1>1. IInv => InBounds
  BY DEF IInv
<1> QED BY InitIInv, NextIInv, <1>1, PTL DEF ParserSpec
=============================================================================
