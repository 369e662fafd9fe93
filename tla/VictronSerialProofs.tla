------------------------- MODULE VictronSerialProofs -------------------------
(***************************************************************************)
(* What the display of the shed is worth, for every block that fits into   *)
(* the queue, every reading, every frame, every gap and every length of    *)
(* the arrays, if the memory was sane at the start.  The invariant says,   *)
(* for each place of a line that is sent, where the parser is: nothing of  *)
(* a block whose start was lost or that has a frame elsewhere than before  *)
(* a label, where it should be from the second line on, and with the queue *)
(* of exactly this block from the second whole block on.                   *)
(***************************************************************************)
EXTENDS VictronSerial, VictronParserProofs, WellFoundedInduction

AtStart == line = 1 /\ place = 0

\* What is known of the charger, whatever is lost.
ChargerTyped ==
    /\ line \in 1 .. CHECKSUM_LINE
    /\ place \in 0 .. IF line = CHECKSUM_LINE THEN 6 ELSE 4
    /\ frame \in Seq(TOKENS)
    /\ \A i \in DOMAIN frame : frame[i] = START <=> i = Len(frame)
    /\ frame # <<>> => ~bare /\ (whole => place = 2)
    /\ sum \in 0 .. MODULUS - 1
    /\ AtStart => sum = 0
    /\ reading \in READINGS /\ last \in READINGS
    /\ whole \in BOOLEAN /\ bare \in BOOLEAN
    /\ lose \in Nat /\ (whole => lose = 0)
    /\ clean \in 0 .. 2 /\ plain \in 0 .. 2 /\ plain <= clean
    /\ AtStart /\ plain > 0 /\ bare => whole

\* What is queued of the first n lines of a reading.
Entry(r, j) == [id |-> LINES[j], data |-> Value(LINES[j], <<r[LINES[j]]>>)]

Collected(queue, r, n) ==
    /\ queue \in Seq(Entries) /\ Len(queue) <= n
    /\ \A k \in DOMAIN queue : \E j \in 1 .. n : queue[k] = Entry(r, j)
    /\ \A j \in 1 .. n : LINES[j] \in QueuedIds => \E k \in DOMAIN queue : queue[k] = Entry(r, j)
    /\ \A k, l \in DOMAIN queue : queue[k].id = "FW" /\ queue[l].id = "SER#" => k < l

\* The parser may meet the first whole block in the middle of anything; it is
\* in step from the second LF on.
Synchronised == clean > 0 \/ line > 2 \/ (line = 2 /\ place >= 2)

Adrift ==
    /\ line = 1 /\ place = 1 => state \in {"LABEL", "IDLE", "ASYNC"}
    /\ line = 1 /\ place = 2 =>
          IF frame = <<>> THEN state \in {"LABEL", "IDLE"}
          ELSE state \in {"IDLE", "ASYNC"} \/ (state = "LABEL" /\ Head(frame) = ASYNC)
    /\ line = 1 /\ place = 3 => state \in {"LABEL", "IDLE"}
    /\ line = 1 /\ place = 4 => state \in {"FIELD", "IDLE"}
    /\ line = 2 /\ place = 0 => state \in {"FIELD", "IDLE"}
    /\ line = 2 /\ place = 1 => state = "IDLE"

\* The entry of the checksum waits for the CR of the next block, or the byte of
\* the checksum was one.
Ended ==
    \/ state = "FIELD" /\ labelData = <<CHEC, KSUM>> /\ sent # END
    \/ state = "IDLE" /\ fields = <<>> /\ sent = END

\* The index of the array that is being filled is behind what it holds.
Follows ==
    /\ state = "LABEL" => labelIndex = Len(labelData)
    /\ state = "FIELD" => fieldIndex = Len(fieldData)

InStep ==
    /\ Follows
    /\ AtStart \/ BlockSent => Ended
    /\ place = 0 /\ line > 1 => /\ state = "FIELD" /\ labelData = <<LINES[line - 1]>>
                                /\ fieldData = <<reading[LINES[line - 1]]>>
    /\ place = 1 => state = "IDLE"
    /\ place = 2 => \/ state = "LABEL" /\ labelData = <<>> /\ (frame # <<>> => Head(frame) = ASYNC)
                    \/ state = "ASYNC" /\ frame # <<>>
    /\ place = 3 => /\ state = "LABEL"
                    /\ labelData = IF line < CHECKSUM_LINE THEN <<LINES[line]>> ELSE <<CHEC>>
    /\ place = 4 => IF line < CHECKSUM_LINE
                    THEN state = "FIELD" /\ labelData = <<LINES[line]>> /\ fieldData = <<>>
                    ELSE state = "LABEL" /\ labelData = <<CHEC, KSUM>>
    /\ place = 5 => state = "FIELD" /\ labelData = <<CHEC, KSUM>> /\ fieldData = <<>>

\* In the second whole block the queue holds what came of the block, and
\* nothing else.
QueueExact ==
    /\ clean > 0 /\ place = 0 /\ line > 1 => Collected(fields, reading, line - 2)
    /\ clean > 0 /\ place \in 1 .. 5 => Collected(fields, reading, line - 1)
    /\ clean > 0 /\ BlockSent => IF state = "FIELD" THEN Collected(fields, reading, Len(LINES))
                                 ELSE Shows(metrics, reading)
    /\ clean = 2 /\ AtStart => IF state = "FIELD" THEN Collected(fields, last, Len(LINES))
                               ELSE Shows(metrics, last)
    /\ clean = 2 /\ ~AtStart /\ ~BlockSent => Shows(metrics, last)

\* The sum of the parser is that of the charger.
SumsAgree ==
    /\ plain > 0 /\ AtStart => sent # END
    /\ plain = 2 /\ AtStart => checksum = 0
    /\ plain > 0 /\ bare /\ ~AtStart /\ ~BlockSent => checksum = sum
    /\ plain > 0 /\ bare /\ BlockSent /\ sent # END => checksum = 0

WholeBlock ==
    whole /\ sane =>
        /\ ~Synchronised => Adrift
        /\ Synchronised => InStep
        /\ QueueExact
        /\ SumsAgree

SInv == IInv /\ ChargerTyped /\ WholeBlock

-----------------------------------------------------------------------------
(* The constants and the charger. *)

\* The lines of a block.
LEMMA Lines ==
    /\ Len(LINES) \in Nat /\ Len(LINES) >= 1 /\ Len(LINES) < MAX_FIELDS_COUNT
    /\ CHECKSUM_LINE = Len(LINES) + 1 /\ MAX_FIELDS_COUNT \in Nat
    /\ MAX_LABEL_LENGTH \in Nat /\ MAX_LABEL_LENGTH >= 2
    /\ MAX_FIELD_LENGTH \in Nat /\ MAX_FIELD_LENGTH >= 2
    /\ \A i \in 1 .. Len(LINES) : /\ LINES[i] \in TOKENS \ {START, END, SPLIT, ASYNC, CHEC}
                                  /\ LINES[i] \in LABELS
<1>1. /\ Len(LINES) \in Nat /\ DOMAIN LINES = 1 .. Len(LINES)
      /\ \A i \in 1 .. Len(LINES) : LINES[i] \in TOKENS \ {START, END, SPLIT, ASYNC, CHEC}
  BY LinesAssumption
<1>2. \A i \in 1 .. Len(LINES) : LINES[i] \in LABELS
  BY <1>1 DEF LABELS
<1>3. /\ MAX_FIELDS_COUNT \in Nat /\ MAX_LABEL_LENGTH \in Nat /\ MAX_FIELD_LENGTH \in Nat
      /\ MAX_LABEL_LENGTH >= 2 /\ MAX_FIELD_LENGTH >= 2
  BY LinesAssumption, ParserAssumption
<1>4. Len(LINES) >= 1 /\ Len(LINES) < MAX_FIELDS_COUNT
  BY <1>1, <1>3, LinesAssumption
<1> QED BY <1>1, <1>2, <1>3, <1>4 DEF CHECKSUM_LINE

\* The value of a line.
LEMMA Readings ==
    ASSUME NEW r \in READINGS, NEW i \in 1 .. Len(LINES)
    PROVE  r[LINES[i]] \in TOKENS \ {START, END}
BY Lines, ReadingsAssumption

\* What is sent, by its place in the line.
LEMMA Moves ==
    ASSUME ChargerTyped, NEW token \in NextTokens, SendText(token)
    PROVE  /\ token \in TOKENS
           /\ sum' = (sum + WEIGHT[token]) % MODULUS /\ sent' = token
           /\ frame = <<>> /\ frame' = <<>> /\ place \in 0 .. 5
           /\ IF line < CHECKSUM_LINE /\ place = 4 THEN line' = line + 1 /\ place' = 0
                                                   ELSE line' = line /\ place' = place + 1
           /\ place = 0 => token = END
           /\ place = 1 => token = START
           /\ place = 2 => token = IF line < CHECKSUM_LINE THEN LINES[line] ELSE CHEC
           /\ place = 3 => token = IF line < CHECKSUM_LINE THEN SPLIT ELSE KSUM
           /\ place = 4 => token = IF line < CHECKSUM_LINE THEN reading[LINES[line]] ELSE SPLIT
           /\ place = 5 => line = CHECKSUM_LINE /\ (sum + WEIGHT[token]) % MODULUS = 0
<1>1. /\ frame = <<>> /\ ~BlockSent
      /\ line \in 1 .. CHECKSUM_LINE /\ CHECKSUM_LINE \in Nat
      /\ place \in 0 .. IF line = CHECKSUM_LINE THEN 6 ELSE 4
  BY Lines DEF ChargerTyped, SendText
<1>2. place \in 0 .. 5 /\ (place = 5 => line = CHECKSUM_LINE)
  BY <1>1 DEF BlockSent
<1>3. CASE place = 5
  <2>1. token \in CHECK_BYTES /\ (sum + WEIGHT[token]) % MODULUS = 0
    BY <1>1, <1>3 DEF NextTokens
  <2> QED BY <1>1, <1>2, <1>3, <2>1, SerialAssumption DEF SendText
<1>4. CASE place < 5
  <2>1. token = Line[place + 1]
    BY <1>1, <1>4 DEF NextTokens
  <2>2. CASE line < CHECKSUM_LINE
    <3>1. line \in 1 .. Len(LINES)
      BY <1>1, <2>2, Lines
    <3>2. reading[LINES[line]] \in TOKENS /\ LINES[line] \in TOKENS
      BY <3>1, Lines, Readings DEF ChargerTyped
    <3>3. /\ place = 0 => token = END
          /\ place = 1 => token = START
          /\ place = 2 => token = LINES[line]
          /\ place = 3 => token = SPLIT
          /\ place = 4 => token = reading[LINES[line]]
      BY <1>1, <1>4, <2>1, <2>2 DEF Line
    <3>4. token \in TOKENS
      BY <1>2, <1>4, <3>2, <3>3, ParserAssumption DEF START, END, SPLIT
    <3> QED BY <1>1, <1>2, <1>4, <2>2, <3>3, <3>4 DEF SendText
  <2>3. CASE line = CHECKSUM_LINE
    <3>3. /\ place = 0 => token = END
          /\ place = 1 => token = START
          /\ place = 2 => token = CHEC
          /\ place = 3 => token = KSUM
          /\ place = 4 => token = SPLIT
      BY <1>1, <1>4, <2>1, <2>3 DEF Line
    <3>4. token \in TOKENS
      BY <1>2, <1>4, <3>3, ParserAssumption, SerialAssumption DEF START, END, SPLIT
    <3> QED BY <1>1, <1>2, <1>4, <2>3, <3>3, <3>4 DEF SendText
  <2> QED BY <1>1, <2>2, <2>3
<1> QED BY <1>2, <1>3, <1>4

\* A token of a frame.
LEMMA FrameMoves ==
    ASSUME ChargerTyped, NEW token \in NextTokens, SendFrame
    PROVE  /\ token \in TOKENS /\ token = Head(frame) /\ frame # <<>>
           /\ frame' = Tail(frame) /\ frame' \in Seq(TOKENS)
           /\ \A i \in DOMAIN frame' : frame'[i] = START <=> i = Len(frame')
           /\ token = START <=> frame' = <<>>
           /\ UNCHANGED <<line, place, sum, sent>>
<1>1. frame \in Seq(TOKENS) /\ frame # <<>> /\ frame' = Tail(frame) /\ token = Head(frame)
  BY DEF ChargerTyped, SendFrame, NextTokens
<1>2. Len(frame) \in Nat /\ Len(frame) >= 1 /\ Len(frame') = Len(frame) - 1
      /\ \A i \in 1 .. Len(frame') : frame'[i] = frame[i + 1]
  BY <1>1
<1>3. \A i \in 1 .. Len(frame) : frame[i] = START <=> i = Len(frame)
  BY <1>1 DEF ChargerTyped
<1>4. \A i \in 1 .. Len(frame') : frame'[i] = START <=> i = Len(frame')
  BY <1>2, <1>3
<1>5. token = START <=> frame' = <<>>
  <2>1. token = frame[1] /\ 1 \in 1 .. Len(frame)
    BY <1>1, <1>2
  <2>2. frame' \in Seq(TOKENS)
    BY <1>1
  <2>3. Len(frame') = 0 <=> frame' = <<>>
    BY <2>2
  <2>4. frame[1] = START <=> 1 = Len(frame)
    BY <1>3, <2>1
  <2> QED BY <1>2, <2>1, <2>3, <2>4
<1> QED BY <1>1, <1>4, <1>5 DEF SendFrame, text

LEMMA NextTokensTyped ==
    ASSUME ChargerTyped, NEW token \in NextTokens, SendText(token) \/ SendFrame
    PROVE  token \in TOKENS
BY Moves, FrameMoves

-----------------------------------------------------------------------------
(* One token in the parser. *)

\* The state and the token decide which step it is, and no write goes astray.
LEMMA ParseCases ==
    ASSUME IInv, Sane, NEW token, Parse(token)
    PROVE  /\ state = "IDLE" /\ token = START => Start(token)
           /\ state = "IDLE" /\ token # START => Skip(token)
           /\ state = "ASYNC" /\ token = START => Start(token)
           /\ state = "ASYNC" /\ token # START => Skip(token)
           /\ state = "LABEL" /\ token = SPLIT => LabelSplit(token)
           /\ state = "LABEL" /\ token = ASYNC => LabelAsync(token)
           /\ state = "LABEL" /\ token \notin {SPLIT, ASYNC} => LabelText(token)
           /\ state = "FIELD" /\ token = END => FieldEnd(token)
           /\ state = "FIELD" /\ token # END => FieldText(token)
<1>1. ~Stray(token)
  <2>1. labelIndex \in Int /\ fieldIndex \in Int
    BY DEF IInv, InBounds
  <2> QED BY <2>1 DEF Stray, Sane
<1> QED BY <1>1 DEF Parse, Start, Skip, LabelSplit, LabelAsync, LabelText, FieldEnd, FieldText,
                    SPLIT, ASYNC

\* The entry of a line of text that fits into its array.
LEMMA TextEntry ==
    ASSUME NEW token, NEW label, NEW value, FieldEnd(token), Queue = fields,
           labelData = <<label>>, fieldData = <<value>>, fieldIndex = Len(fieldData)
    PROVE  /\ IF label \in QueuedIds
              THEN fields' = Append(fields, [id |-> label, data |-> Value(label, fieldData)])
              ELSE fields' = fields
           /\ Counted(checksum, token)
           /\ UNCHANGED <<metrics, labelBuffer, fieldBuffer>> /\ state' = "IDLE"
<1>1. Lower = label /\ ~IsChecksum
  BY DEF Lower, Upper, IsChecksum, KSUM
<1>2. Copied = {fieldData}
  BY Lines DEF Copied, CopyLength
<1> QED BY <1>1, <1>2 DEF FieldEnd, ProcessEntry, QueueEntry

\* The entry of the checksum.
LEMMA ChecksumEntry ==
    ASSUME NEW token, FieldEnd(token), labelData = <<CHEC, KSUM>>
    PROVE  /\ ProcessFields(Queue) /\ Counted(0, token)
           /\ UNCHANGED <<labelBuffer, fieldBuffer>> /\ state' = "IDLE"
<1>1. Lower = CHEC /\ IsChecksum
  BY DEF Lower, Upper, IsChecksum
<1>2. CHEC \notin QueuedIds
  BY DEF CHEC, QueuedIds, WideIds, ByteIds, TextIds
<1> QED BY <1>1, <1>2 DEF FieldEnd, ProcessEntry, EndBlock

\* A half of a label that fits.
LEMMA LabelFits ==
    ASSUME NEW token, LabelText(token), Len(labelData) < MAX_LABEL_LENGTH, Len(labelData) \in Nat,
           labelIndex = Len(labelData)
    PROVE  /\ state' = "LABEL" /\ labelData' = Append(labelData, token)
           /\ labelIndex' = Len(labelData) + 1
           /\ Counted(checksum, token) /\ UNCHANGED <<fieldBuffer, fields, metrics>>
BY Lines, PutAtEnd DEF LabelText

\* A value that fits.
LEMMA FieldFits ==
    ASSUME NEW token, FieldText(token), fieldData = <<>>, fieldIndex = 0
    PROVE  /\ state' = "FIELD" /\ fieldData' = <<token>> /\ fieldIndex' = 1
           /\ Counted(checksum, token) /\ UNCHANGED <<labelBuffer, fields, metrics>>
<1>1. Put(fieldData, fieldIndex, token) = <<token>>
  BY DEF Put
<1> QED BY <1>1, Lines DEF FieldText

\* Which step it is in a parser that is in step.
LEMMA InStepCases ==
    ASSUME IInv, Sane, ChargerTyped, InStep, NEW token \in NextTokens,
           SendText(token), Parse(token)
    PROVE  /\ place = 0 => IF state = "FIELD" THEN FieldEnd(token) ELSE Skip(token)
           /\ place = 1 => Start(token)
           /\ place = 2 => LabelText(token)
           /\ place = 3 => IF line < CHECKSUM_LINE THEN LabelSplit(token) ELSE LabelText(token)
           /\ place = 4 => IF line < CHECKSUM_LINE THEN FieldText(token) ELSE LabelSplit(token)
           /\ place = 5 => IF token = END THEN FieldEnd(token) ELSE FieldText(token)
<1>1. frame = <<>> /\ line \in 1 .. CHECKSUM_LINE
  BY Moves DEF ChargerTyped
<1>2. CASE place = 0
  <2>1. token = END /\ END # START
    BY <1>2, Moves DEF END, START
  <2>2. state \in {"FIELD", "IDLE"}
    BY <1>1, <1>2, Lines DEF InStep, Ended, AtStart
  <2> QED BY <1>2, <2>1, <2>2, ParseCases
<1>3. CASE place = 1
  BY <1>3, Moves, ParseCases DEF InStep
<1>4. CASE place = 2
  <2>1. token \notin {SPLIT, ASYNC}
    BY <1>1, <1>4, Moves, Lines DEF SPLIT, ASYNC, CHEC
  <2> QED BY <1>1, <1>4, <2>1, ParseCases DEF InStep
<1>5. CASE place = 3
  <2>1. token = IF line < CHECKSUM_LINE THEN SPLIT ELSE KSUM
    BY <1>5, Moves
  <2> QED BY <1>5, <2>1, ParseCases DEF InStep, SPLIT, ASYNC, KSUM
<1>6. CASE place = 4
  <2>1. IF line < CHECKSUM_LINE THEN state = "FIELD" ELSE state = "LABEL"
    BY <1>6 DEF InStep
  <2>2. IF line < CHECKSUM_LINE THEN token # END ELSE token = SPLIT
    <3>1. CASE line < CHECKSUM_LINE
      <4>1. line \in 1 .. Len(LINES)
        BY <1>1, <3>1, Lines
      <4> QED BY <1>6, <3>1, <4>1, Moves, Readings DEF ChargerTyped
    <3> QED BY <1>6, <3>1, Moves
  <2> QED BY <1>6, <2>1, <2>2, ParseCases
<1>7. CASE place = 5
  BY <1>7, ParseCases DEF InStep
<1> QED BY <1>2, <1>3, <1>4, <1>5, <1>6, <1>7, Moves

-----------------------------------------------------------------------------
(* Where the parser is. *)

\* A parser in step stays in step with a token of the block.
LEMMA TextInStep ==
    ASSUME IInv, Sane, ChargerTyped, InStep, NEW token \in NextTokens,
           SendText(token), Parse(token), UNCHANGED reading
    PROVE  InStep'
<1>1. /\ frame' = <<>> /\ place \in 0 .. 5 /\ sent' = token
      /\ IF line < CHECKSUM_LINE /\ place = 4 THEN line' = line + 1 /\ place' = 0
                                              ELSE line' = line /\ place' = place + 1
  BY Moves
<1>2. line \in 1 .. CHECKSUM_LINE /\ CHECKSUM_LINE \in Nat /\ (place = 5 => line = CHECKSUM_LINE)
  BY Moves, Lines DEF ChargerTyped
<1>3. ~AtStart'
  BY <1>1, <1>2 DEF AtStart
<1>4. BlockSent' <=> place = 5
  BY <1>1, <1>2 DEF BlockSent
<1>5. CASE place = 0
  <2>1. state' = "IDLE"
    <3>1. state \in {"FIELD", "IDLE"}
      BY <1>2, <1>5 DEF InStep, Ended, AtStart
    <3>2. IF state = "FIELD" THEN FieldEnd(token) ELSE Skip(token)
      BY <1>5, InStepCases
    <3> QED BY <3>1, <3>2 DEF FieldEnd, Skip
  <2> QED BY <1>1, <1>3, <1>4, <1>5, <2>1 DEF InStep, Follows
<1>6. CASE place = 1
  <2>1. state' = "LABEL" /\ labelData' = <<>> /\ labelIndex' = 0
    BY <1>6, InStepCases DEF Start
  <2> QED BY <1>1, <1>3, <1>4, <1>6, <2>1 DEF InStep, Follows
<1>7. CASE place = 2
  <2>1. /\ labelData = <<>> /\ labelIndex = 0
        /\ token = IF line < CHECKSUM_LINE THEN LINES[line] ELSE CHEC
    BY <1>1, <1>7, Moves DEF InStep, Follows
  <2>2. state' = "LABEL" /\ labelData' = <<token>> /\ labelIndex' = 1
    BY <1>7, <2>1, InStepCases, LabelFits, Lines
  <2> QED BY <1>1, <1>3, <1>4, <1>7, <2>1, <2>2 DEF InStep, Follows
<1>8. CASE place = 3 /\ line < CHECKSUM_LINE
  <2>1. state' = "FIELD" /\ labelData' = <<LINES[line]>> /\ fieldData' = <<>> /\ fieldIndex' = 0
    BY <1>8, InStepCases DEF InStep, LabelSplit, labelBuffer
  <2> QED BY <1>1, <1>2, <1>3, <1>4, <1>8, <2>1 DEF InStep, Follows
<1>9. CASE place = 3 /\ line = CHECKSUM_LINE
  <2>1. labelData = <<CHEC>> /\ labelIndex = 1 /\ token = KSUM
    BY <1>2, <1>9, Moves DEF InStep, Follows
  <2>2. state' = "LABEL" /\ labelData' = <<CHEC, KSUM>> /\ labelIndex' = 2
    BY <1>2, <1>9, <2>1, InStepCases, LabelFits, Lines
  <2> QED BY <1>1, <1>2, <1>3, <1>4, <1>9, <2>2 DEF InStep, Follows
<1>10. CASE place = 4 /\ line < CHECKSUM_LINE
  <2>1. /\ state' = "FIELD" /\ labelData' = <<LINES[line]>>
        /\ fieldData' = <<reading[LINES[line]]>> /\ fieldIndex' = 1
    <3>1. fieldData = <<>> /\ fieldIndex = 0 /\ labelData = <<LINES[line]>>
      BY <1>10 DEF InStep, Follows
    <3>2. FieldText(token) /\ token = reading[LINES[line]]
      BY <1>10, InStepCases, Moves
    <3> QED BY <3>1, <3>2, FieldFits DEF labelBuffer
  <2>2. line' - 1 = line /\ place' = 0 /\ reading' = reading
    BY <1>1, <1>2, <1>10
  <2> QED BY <1>3, <1>4, <1>10, <2>1, <2>2 DEF InStep, Follows
<1>11. CASE place = 4 /\ line = CHECKSUM_LINE
  <2>1. state' = "FIELD" /\ labelData' = <<CHEC, KSUM>> /\ fieldData' = <<>> /\ fieldIndex' = 0
    BY <1>2, <1>11, InStepCases DEF InStep, LabelSplit, labelBuffer
  <2> QED BY <1>1, <1>2, <1>3, <1>4, <1>11, <2>1 DEF InStep, Follows
<1>12. CASE place = 5
  <2>1. labelData = <<CHEC, KSUM>> /\ fieldData = <<>> /\ fieldIndex = 0
    BY <1>12 DEF InStep, Follows
  <2>2. Ended' /\ Follows'
    <3>1. CASE token = END
      <4>1. state' = "IDLE" /\ fields' = <<>>
        BY <1>12, <2>1, <3>1, InStepCases, ChecksumEntry DEF ProcessFields
      <4> QED BY <1>1, <3>1, <4>1 DEF Ended, Follows
    <3>2. CASE token # END
      <4>1. state' = "FIELD" /\ labelData' = <<CHEC, KSUM>> /\ fieldData' = <<token>> /\ fieldIndex' = 1
        BY <1>12, <2>1, <3>2, InStepCases, FieldFits DEF labelBuffer
      <4> QED BY <1>1, <3>2, <4>1 DEF Ended, Follows
    <3> QED BY <3>1, <3>2
  <2> QED BY <1>1, <1>2, <1>12, <2>2 DEF InStep
<1> QED BY <1>1, <1>2, <1>5, <1>6, <1>7, <1>8, <1>9, <1>10, <1>11, <1>12

\* A frame ends where it began: before a label.
LEMMA FrameInStep ==
    ASSUME IInv, Sane, ChargerTyped, InStep, whole, NEW token \in NextTokens,
           SendFrame, Parse(token), UNCHANGED reading
    PROVE  InStep'
<1>1. /\ frame # <<>> /\ place = 2 /\ UNCHANGED <<line, place, sent>>
      /\ token = Head(frame) /\ (token = START <=> frame' = <<>>)
  BY FrameMoves DEF ChargerTyped
<1>2. IF token = START THEN state' = "LABEL" /\ labelData' = <<>> /\ labelIndex' = 0
                        ELSE state' = "ASYNC"
  <2>1. CASE state = "LABEL"
    <3>1. token = ASYNC /\ ASYNC # START
      BY <1>1, <2>1 DEF InStep, ASYNC, START
    <3> QED BY <2>1, <3>1, ParseCases DEF LabelAsync
  <2>2. CASE state = "ASYNC"
    BY <2>2, ParseCases DEF Start, Skip
  <2> QED BY <1>1, <2>1, <2>2 DEF InStep
<1> QED BY <1>1, <1>2 DEF InStep, AtStart, BlockSent, Follows

\* A parser in the middle of anything is not in step before the second LF, and
\* is from then on.
LEMMA TextAdrift ==
    ASSUME IInv, ChargerTyped, ~Synchronised, Adrift, Sane,
           NEW token \in NextTokens, SendText(token), Parse(token), UNCHANGED <<reading, clean>>
    PROVE  IF Synchronised' THEN InStep' ELSE Adrift'
<1>1. /\ frame = <<>> /\ frame' = <<>> /\ place \in 0 .. 5
      /\ IF line < CHECKSUM_LINE /\ place = 4 THEN line' = line + 1 /\ place' = 0
                                              ELSE line' = line /\ place' = place + 1
  BY Moves
<1>2. /\ line \in {1, 2} /\ (line = 2 => place < 2) /\ CHECKSUM_LINE >= 2 /\ CHECKSUM_LINE \in Nat
      /\ clean' = clean /\ clean = 0 /\ place \in 0 .. 4
      /\ line = 1 => line < CHECKSUM_LINE
  BY <1>1, Lines DEF ChargerTyped, Synchronised
<1>3. CASE line = 1 /\ place = 0
  <2>1. state' \in {"LABEL", "IDLE", "ASYNC"}
    <3>1. token = END /\ END \notin {START, SPLIT, ASYNC}
      BY <1>3, Moves DEF END, START, SPLIT, ASYNC
    <3>2. state \in {"IDLE", "LABEL", "FIELD", "ASYNC"}
      BY DEF IInv, InBounds, STATES, Sane
    <3> QED BY <3>1, <3>2, ParseCases DEF Skip, LabelText, FieldEnd
  <2> QED BY <1>1, <1>2, <1>3, <2>1 DEF Synchronised, Adrift
<1>4. CASE line = 1 /\ place = 1
  <2>1. state' \in {"LABEL", "IDLE"}
    <3>1. token = START /\ START \notin {SPLIT, ASYNC}
      BY <1>4, Moves DEF START, SPLIT, ASYNC
    <3>2. state \in {"LABEL", "IDLE", "ASYNC"}
      BY <1>4 DEF Adrift
    <3> QED BY <3>1, <3>2, ParseCases DEF Start, LabelText
  <2> QED BY <1>1, <1>2, <1>4, <2>1 DEF Synchronised, Adrift
<1>5. CASE line = 1 /\ place = 2
  <2>1. state' \in {"LABEL", "IDLE"}
    <3>1. token \notin {START, SPLIT, ASYNC}
      BY <1>2, <1>5, Moves, Lines
    <3>2. state \in {"LABEL", "IDLE"}
      BY <1>1, <1>5 DEF Adrift
    <3> QED BY <3>1, <3>2, ParseCases DEF Skip, LabelText
  <2> QED BY <1>1, <1>2, <1>5, <2>1 DEF Synchronised, Adrift
<1>6. CASE line = 1 /\ place = 3
  <2>1. state' \in {"FIELD", "IDLE"}
    <3>1. token = SPLIT /\ SPLIT # START
      BY <1>2, <1>6, Moves DEF SPLIT, START
    <3>2. state \in {"LABEL", "IDLE"}
      BY <1>6 DEF Adrift
    <3> QED BY <3>1, <3>2, ParseCases DEF Skip, LabelSplit
  <2> QED BY <1>1, <1>2, <1>6, <2>1 DEF Synchronised, Adrift
<1>7. CASE line = 1 /\ place = 4
  <2>1. state' \in {"FIELD", "IDLE"}
    <3>1. token \notin {START, END}
      BY <1>2, <1>7, Moves, Lines, Readings DEF ChargerTyped
    <3>2. state \in {"FIELD", "IDLE"}
      BY <1>7 DEF Adrift
    <3> QED BY <3>1, <3>2, ParseCases DEF Skip, FieldText
  <2> QED BY <1>1, <1>2, <1>7, <2>1 DEF Synchronised, Adrift
<1>8. CASE line = 2 /\ place = 0
  <2>1. state' = "IDLE"
    <3>1. token = END /\ END # START
      BY <1>8, Moves DEF END, START
    <3>2. state \in {"FIELD", "IDLE"}
      BY <1>8 DEF Adrift
    <3> QED BY <3>1, <3>2, ParseCases DEF Skip, FieldEnd
  <2> QED BY <1>1, <1>2, <1>8, <2>1 DEF Synchronised, Adrift
<1>9. CASE line = 2 /\ place = 1
  <2>1. state' = "LABEL" /\ labelData' = <<>> /\ labelIndex' = 0
    <3>1. token = START /\ state = "IDLE"
      BY <1>9, Moves DEF Adrift
    <3> QED BY <3>1, ParseCases DEF Start
  <2> QED BY <1>1, <1>2, <1>9, <2>1 DEF Synchronised, InStep, AtStart, BlockSent, Follows
<1> QED BY <1>2, <1>3, <1>4, <1>5, <1>6, <1>7, <1>8, <1>9

\* A frame does not move it.
LEMMA FrameAdrift ==
    ASSUME IInv, Sane, ChargerTyped, ~Synchronised, Adrift, whole,
           NEW token \in NextTokens, SendFrame, Parse(token), UNCHANGED clean
    PROVE  ~Synchronised' /\ Adrift'
<1>1. /\ frame # <<>> /\ place = 2 /\ UNCHANGED <<line, place>>
      /\ token = Head(frame) /\ (token = START <=> frame' = <<>>)
  BY FrameMoves DEF ChargerTyped
<1>2. line = 1 /\ ~Synchronised'
  BY <1>1, Lines DEF Synchronised, ChargerTyped
<1>3. IF token = START THEN state' \in {"LABEL", "IDLE"} ELSE state' \in {"IDLE", "ASYNC"}
  <2>1. CASE state \in {"IDLE", "ASYNC"}
    BY <2>1, ParseCases DEF Start, Skip
  <2>2. CASE state = "LABEL" /\ token = ASYNC
    <3>1. ASYNC # START
      BY DEF ASYNC, START
    <3> QED BY <2>2, <3>1, ParseCases DEF LabelAsync
  <2> QED BY <1>1, <1>2, <2>1, <2>2 DEF Adrift
<1> QED BY <1>1, <1>2, <1>3 DEF Adrift

-----------------------------------------------------------------------------
(* What the queue holds. *)

LEMMA CollectedNone == ASSUME NEW r PROVE Collected(<<>>, r, 0)
BY DEF Collected

\* The entry of the next line.
LEMMA CollectedNext ==
    ASSUME NEW r \in READINGS, NEW n \in 1 .. Len(LINES), NEW queue, NEW next,
           Collected(queue, r, n - 1),
           next = IF LINES[n] \in QueuedIds THEN Append(queue, Entry(r, n)) ELSE queue
    PROVE  Collected(next, r, n)
<1>0. /\ queue \in Seq(Entries) /\ Len(queue) \in Nat /\ DOMAIN queue = 1 .. Len(queue)
      /\ n \in Nat /\ Len(LINES) \in Nat
  BY Lines DEF Collected
<1>1. /\ queue \in Seq(Entries) /\ Len(queue) \in Nat /\ Len(queue) <= n - 1
      /\ \A k \in 1 .. Len(queue) : \E j \in 1 .. n - 1 : queue[k] = Entry(r, j)
      /\ \A j \in 1 .. n - 1 : LINES[j] \in QueuedIds => \E k \in 1 .. Len(queue) : queue[k] = Entry(r, j)
      /\ \A k, l \in 1 .. Len(queue) : queue[k].id = "FW" /\ queue[l].id = "SER#" => k < l
      /\ n \in Nat /\ Len(LINES) \in Nat
  BY <1>0 DEF Collected
<1>2. CASE LINES[n] \notin QueuedIds
  <2>1. \A j \in 1 .. n : j \in 1 .. n - 1 \/ j = n
    BY <1>1
  <2>2. \A j \in 1 .. n - 1 : j \in 1 .. n
    BY <1>1
  <2>3. next = queue /\ DOMAIN next = 1 .. Len(queue)
    BY <1>1, <1>2
  <2>4. Len(next) <= n
    BY <1>1, <2>3
  <2> QED BY <1>1, <1>2, <2>1, <2>2, <2>3, <2>4 DEF Collected
<1>3. CASE LINES[n] \in QueuedIds
  <2> DEFINE entry == Entry(r, n)
  <2>1. entry \in Entries /\ entry.id = LINES[n]
    <3>1. <<r[LINES[n]]>> \in Seq(TOKENS)
      BY Readings
    <3> QED BY <1>3, <3>1, EntryMade DEF Entry
  <2>2. next = Append(queue, entry)
    BY <1>3
  <2> HIDE DEF entry
  <2>3. /\ next \in Seq(Entries) /\ Len(next) = Len(queue) + 1
        /\ \A k \in 1 .. Len(queue) : next[k] = queue[k]
        /\ next[Len(queue) + 1] = entry
        /\ DOMAIN next = 1 .. Len(queue) + 1
    BY <1>1, <2>1, <2>2
  <2>4. \A k \in 1 .. Len(queue) + 1 : k \in 1 .. Len(queue) \/ k = Len(queue) + 1
    BY <1>1
  <2>5. \A k \in DOMAIN next : \E j \in 1 .. n : next[k] = Entry(r, j)
    <3> SUFFICES ASSUME NEW k \in DOMAIN next PROVE \E j \in 1 .. n : next[k] = Entry(r, j)
      OBVIOUS
    <3>1. CASE k \in 1 .. Len(queue)
      <4>1. PICK j \in 1 .. n - 1 : queue[k] = Entry(r, j)
        BY <1>1, <3>1
      <4>2. j \in 1 .. n
        BY <1>1
      <4> QED BY <2>3, <3>1, <4>1, <4>2
    <3>2. CASE k = Len(queue) + 1
      BY <1>1, <2>3, <3>2 DEF entry
    <3> QED BY <2>3, <2>4, <3>1, <3>2
  <2>6. ASSUME NEW j \in 1 .. n, LINES[j] \in QueuedIds
        PROVE  \E k \in DOMAIN next : next[k] = Entry(r, j)
    <3>1. CASE j = n
      <4>1. Len(queue) + 1 \in DOMAIN next
        BY <1>1, <2>3
      <4> QED BY <2>3, <3>1, <4>1 DEF entry
    <3>2. CASE j # n
      <4>1. j \in 1 .. n - 1
        BY <1>1, <3>2
      <4>2. PICK k \in 1 .. Len(queue) : queue[k] = Entry(r, j)
        BY <1>1, <2>6, <4>1
      <4>3. k \in DOMAIN next
        BY <1>1, <2>3
      <4> QED BY <2>3, <4>2, <4>3
    <3> QED BY <3>1, <3>2
  <2>7. ASSUME NEW k \in DOMAIN next, NEW l \in DOMAIN next,
               next[k].id = "FW", next[l].id = "SER#"
        PROVE  k < l
    <3>1. CASE k \in 1 .. Len(queue) /\ l \in 1 .. Len(queue)
      BY <1>1, <2>3, <2>7, <3>1
    <3>2. CASE k \in 1 .. Len(queue) /\ l = Len(queue) + 1
      BY <1>1, <3>2
    <3>3. CASE k = Len(queue) + 1 /\ l \in 1 .. Len(queue)
      <4>1. PICK j \in 1 .. n - 1 : queue[l] = Entry(r, j)
        BY <1>1, <3>3
      <4>2. LINES[j] = "SER#" /\ LINES[n] = "FW"
        BY <2>1, <2>3, <2>7, <3>3, <4>1 DEF Entry
      <4>3. n \in DOMAIN LINES /\ j \in DOMAIN LINES /\ ~(n < j)
        BY <1>1, LinesAssumption
      <4> QED BY <4>2, <4>3, LinesAssumption
    <3>4. CASE k = Len(queue) + 1 /\ l = Len(queue) + 1
      BY <2>3, <2>7, <3>4
    <3> QED BY <2>3, <2>4, <3>1, <3>2, <3>3, <3>4
  <2>8. Len(next) <= n
    BY <1>1, <2>3
  <2> QED BY <2>3, <2>5, <2>6, <2>7, <2>8 DEF Collected
<1> QED BY <1>2, <1>3

\* Of several entries there is an oldest.
LEMMA Oldest ==
    ASSUME NEW S \in SUBSET Nat, S # {}
    PROVE  \E i \in S : \A j \in S : i <= j
<1> DEFINE Less == {pair \in Nat \X Nat : pair[1] < pair[2]}
<1>1. IsWellFoundedOn(Less, Nat)
  BY NatLessThanWellFounded DEF OpToRel
<1>2. ASSUME NEW i \in Nat, NEW j \in Nat, <<j, i>> \notin Less PROVE i <= j
  BY <1>2
<1> HIDE DEF Less
<1>3. PICK i \in S : \A j \in S : ~ (<<j, i>> \in Less)
  BY <1>1, WFMin, Zenon
<1>4. \A j \in S : i <= j
  <2> TAKE j \in S
  <2> QED BY <1>2, <1>3
<1> QED BY <1>4

\* What becomes of the data of a line.
LEMMA ValueOf ==
    ASSUME NEW id, NEW data
    PROVE  /\ id \in WideIds => Value(id, data) = Atoi(data)
           /\ id \in ByteIds => Value(id, data) = Signed(Atoi(data), 256)
           /\ id \in TextIds => Value(id, data) = data
<1>0. /\ id \in WideIds => id \notin ByteIds /\ id \notin TextIds
      /\ id \in ByteIds => id \notin TextIds
  BY DEF WideIds, ByteIds, TextIds
<1>1. ASSUME id \in WideIds PROVE Value(id, data) = Atoi(data)
  BY <1>0, <1>1 DEF Value
<1>2. ASSUME id \in ByteIds PROVE Value(id, data) = Signed(Atoi(data), 256)
  BY <1>0, <1>2 DEF Value
<1>3. ASSUME id \in TextIds PROVE Value(id, data) = data
  BY <1>0, <1>3 DEF Value
<1> QED BY <1>1, <1>2, <1>3

LEMMA LoadOf == ASSUME NEW data PROVE Value("LOAD", data) = (data = <<"ON">>)
<1>1. "LOAD" \notin WideIds /\ "LOAD" \notin ByteIds /\ "LOAD" \notin TextIds
  BY DEF WideIds, ByteIds, TextIds
<1> QED BY <1>1 DEF Value

\* A number that fits into a type is unchanged.
LEMMA SmallMod ==
    ASSUME NEW m \in Int, NEW width \in Nat, 0 <= m, m < width PROVE m % width = m
OBVIOUS

LEMMA WordFits ==
    ASSUME NEW n \in Int, 0 <= n + 32768, n < 32768 PROVE Signed(n, 65536) = n
<1>1. 65536 \div 2 = 32768
  OBVIOUS
<1>2. (n + 32768) % 65536 = n + 32768
  <2>1. n + 32768 \in Int /\ n + 32768 < 65536
    OBVIOUS
  <2> QED BY <2>1, SmallMod
<1> QED BY <1>1, <1>2 DEF Signed

LEMMA ByteFits ==
    ASSUME NEW n \in Int, 0 <= n + 128, n < 128 PROVE Signed(n, 256) = n
<1>1. 256 \div 2 = 128
  OBVIOUS
<1>2. (n + 128) % 256 = n + 128
  <2>1. n + 128 \in Int /\ n + 128 < 256
    OBVIOUS
  <2> QED BY <2>1, SmallMod
<1> QED BY <1>1, <1>2 DEF Signed

LEMMA NumberFits ==
    ASSUME NEW id, NEW n \in Int, InRange(id, n)
    PROVE  /\ id \in {"I", "H20", "H21", "H22", "H23"} => Signed(n, 65536) = n
           /\ id = "HSDS" /\ n <= 127 => Signed(n, 256) = n
           /\ id = "CS" => Signed(n, 256) % 256 = n
           /\ id \in {"ERR", "MPPT"} => Signed(n, 256) = n
<1>1. ASSUME id \in {"I", "H20", "H21", "H22", "H23"} PROVE Signed(n, 65536) = n
  <2>1. -32768 <= n /\ n <= 32767
    BY <1>1 DEF InRange
  <2>2. 0 <= n + 32768 /\ n < 32768
    BY <2>1
  <2> QED BY <2>2, WordFits
<1>2. ASSUME id = "HSDS", n <= 127 PROVE Signed(n, 256) = n
  <2>1. 0 <= n
    BY <1>2 DEF InRange
  <2>2. 0 <= n + 128 /\ n < 128
    BY <1>2, <2>1
  <2> QED BY <2>2, ByteFits
<1>3. ASSUME id = "CS" PROVE Signed(n, 256) % 256 = n
  <2>1. 0 <= n /\ n <= 255
    BY <1>3 DEF InRange
  <2>2. CASE n <= 127
    <3>0. 0 <= n + 128 /\ n < 128
      BY <2>1, <2>2
    <3>1. Signed(n, 256) = n
      BY <3>0, ByteFits
    <3>2. n % 256 = n
      BY <2>1
    <3> QED BY <3>1, <3>2
  <2>3. CASE n > 127
    <3>1. Signed(n, 256) = n - 256
      BY <2>1, <2>3 DEF Signed
    <3>2. (n - 256) % 256 = n
      BY <2>1
    <3> QED BY <3>1, <3>2
  <2> QED BY <2>2, <2>3
<1>4. ASSUME id \in {"ERR", "MPPT"} PROVE Signed(n, 256) = n
  <2>1. -128 <= n /\ n <= 127
    BY <1>4 DEF InRange
  <2>2. 0 <= n + 128 /\ n < 128
    BY <2>1
  <2> QED BY <2>2, ByteFits
<1> QED BY <1>1, <1>2, <1>3, <1>4

\* The number of a value is shown as it is.
LEMMA NumberShown ==
    ASSUME NEW id, NEW m, <<id, m>> \in Sets, NEW value \in TOKENS,
           NEW n \in Int, n = NUMBER[value], InRange(id, n), ~(id = "HSDS" /\ n > 127)
    PROVE  Narrow(m, Value(id, <<value>>)) =
               IF id \in TextIds THEN <<value>>
               ELSE IF id = "LOAD" THEN value = "ON" ELSE n
<1>1. Atoi(<<value>>) = n
  BY DEF Atoi
<1>2. CASE id \in TextIds
  <2>1. Value(id, <<value>>) = <<value>>
    BY <1>2, ValueOf
  <2>2. m \in {"productId", "firmware", "serialNumber"}
    BY <1>2 DEF Sets, TextIds
  <2> QED BY <1>2, <2>1, <2>2 DEF Narrow
<1>3. CASE id = "LOAD"
  <2>1. Value(id, <<value>>) = (<<value>> = <<"ON">>)
    BY <1>3, LoadOf, Zenon
  <2>2. (<<value>> = <<"ON">>) <=> (value = "ON")
    OBVIOUS
  <2>3. m = "loadActive"
    BY <1>3 DEF Sets
  <2>4. Narrow(m, Value(id, <<value>>)) = Value(id, <<value>>)
    BY <2>3 DEF Narrow
  <2>5. "LOAD" \notin TextIds
    BY DEF TextIds
  <2> QED BY <1>3, <2>1, <2>2, <2>4, <2>5, Zenon
<1>4. CASE id \in WideIds
  <2>1. Value(id, <<value>>) = n
    BY <1>1, <1>4, ValueOf
  <2>2. Narrow(m, n) = n
    <3>1. CASE id \in {"I", "H20", "H21", "H22", "H23"}
      <4>2. Signed(n, 65536) = n
        BY <3>1, NumberFits
      <4>3. m \in {"current", "yieldToday", "maxPowerToday", "yieldYesterday", "maxPowerYesterday"}
        BY <3>1 DEF Sets
      <4> QED BY <4>2, <4>3 DEF Narrow
    <3>2. CASE id = "HSDS"
      <4>2. Signed(n, 256) = n
        BY <3>2, NumberFits
      <4>3. m = "daySequence"
        BY <3>2 DEF Sets
      <4> QED BY <4>2, <4>3 DEF Narrow
    <3>3. CASE id \in {"V", "VPV"}
      <4>1. m \in {"batteryVoltage", "panelVoltage"}
        BY <3>3 DEF Sets
      <4> QED BY <4>1 DEF Narrow
    <3> QED BY <1>4, <3>1, <3>2, <3>3 DEF Sets, WideIds
  <2>3. id \notin TextIds /\ id # "LOAD"
    BY <1>4 DEF WideIds, TextIds
  <2> QED BY <2>1, <2>2, <2>3
<1>5. CASE id \in ByteIds
  <2>1. Value(id, <<value>>) = Signed(n, 256)
    BY <1>1, <1>5, ValueOf
  <2>2. Narrow(m, Signed(n, 256)) = n
    <3>1. CASE id = "CS"
      <4>2. Signed(n, 256) % 256 = n
        BY <3>1, NumberFits
      <4>3. m = "operationState"
        BY <3>1 DEF Sets
      <4> QED BY <4>2, <4>3 DEF Narrow
    <3>2. CASE id \in {"ERR", "MPPT"}
      <4>2. Signed(n, 256) = n
        BY <3>2, NumberFits
      <4>3. m \in {"errorState", "trackerOperationMode"}
        BY <3>2 DEF Sets
      <4> QED BY <4>2, <4>3 DEF Narrow
    <3> QED BY <1>5, <3>1, <3>2 DEF ByteIds
  <2>3. id \notin TextIds /\ id # "LOAD"
    BY <1>5 DEF ByteIds, TextIds
  <2> QED BY <2>1, <2>2, <2>3
<1>6. id \in TextIds \union {"LOAD"} \union WideIds \union ByteIds
  BY DEF Sets, TextIds, WideIds, ByteIds
<1> QED BY <1>2, <1>3, <1>4, <1>5, <1>6

\* An id sets a metric of its own, except the firmware.
LEMMA OneIdEach ==
    ASSUME NEW id, NEW other, NEW m, <<id, m>> \in Sets, <<other, m>> \in Sets, other # id
    PROVE  {id, other} = {"FW", "SER#"} /\ m = "serialNumber"
BY DEF Sets

\* What was collected of all lines is what processFields shows.
LEMMA CollectedShown ==
    ASSUME NEW r \in READINGS, NEW queue, Collected(queue, r, Len(LINES)), ProcessFields(queue)
    PROVE  Shows(metrics', r)
<1> SUFFICES ASSUME NEW id, NEW m, <<id, m>> \in Sets, id \in DOMAIN r,
                    ~(id = "SER#" /\ m = "serialNumber" /\ "FW" \in DOMAIN r),
                    ~(id = "HSDS" /\ NUMBER[r[id]] > 127)
             PROVE  metrics'[m] = IF id \in TextIds THEN <<r[id]>>
                                  ELSE IF id = "LOAD" THEN r[id] = "ON" ELSE NUMBER[r[id]]
  <2>1. \A pair \in Sets : pair = <<pair[1], pair[2]>>
    BY DEF Sets
  <2> QED BY <2>1, Zenon DEF Shows
<1>1. m \in METRICS /\ id \in QueuedIds
  BY DEF METRICS, Sets, QueuedIds, WideIds, ByteIds, TextIds
<1>2. DOMAIN r = LABELS /\ r \in [LABELS -> TOKENS] /\ InRange(id, NUMBER[r[id]])
  BY ReadingsAssumption
<1>3. PICK j \in 1 .. Len(LINES) : LINES[j] = id
  BY <1>2, LinesAssumption DEF LABELS
<1>4. PICK k \in DOMAIN queue : queue[k] = Entry(r, j)
  BY <1>1, <1>3 DEF Collected
<1> DEFINE entries == {i \in DOMAIN queue : <<queue[i].id, m>> \in Sets}
           oldest == CHOOSE i \in entries : \A l \in entries : i <= l
<1>5. k \in entries
  BY <1>3, <1>4 DEF Entry
<1>6. oldest \in entries /\ oldest <= k
  <2>1. entries \in SUBSET Nat
    BY DEF Collected
  <2> HIDE DEF entries
  <2>2. \E i \in entries : \A l \in entries : i <= l
    BY <1>5, <2>1, Oldest
  <2> QED BY <1>5, <2>2
<1>7. metrics'[m] = Narrow(m, queue[oldest].data)
  <2>1. entries # {}
    BY <1>5
  <2> QED BY <1>1, <2>1, Zenon DEF ProcessFields
<1> HIDE DEF oldest
<1>8. PICK l \in 1 .. Len(LINES) : queue[oldest] = Entry(r, l)
  BY <1>6 DEF Collected
<1>9. LINES[l] \in LABELS /\ queue[oldest].id = LINES[l] /\ queue[k].id = id
  BY <1>3, <1>4, <1>8, Lines DEF Entry
<1>10. LINES[l] = id
  <2> SUFFICES ASSUME LINES[l] # id PROVE FALSE
    OBVIOUS
  <2>1. {id, LINES[l]} = {"FW", "SER#"} /\ m = "serialNumber"
    BY <1>6, <1>9, OneIdEach
  <2>2. id = "FW" /\ LINES[l] = "SER#"
    BY <1>2, <1>9, <2>1
  <2>3. k < oldest
    BY <1>6, <1>9, <2>2 DEF Collected
  <2>4. k \in Nat /\ oldest \in Nat
    BY <1>5, <1>6 DEF Collected
  <2> QED BY <1>6, <2>3, <2>4
<1>11. queue[oldest].data = Value(id, <<r[id]>>)
  BY <1>8, <1>10 DEF Entry
<1>12. r[id] \in TOKENS /\ NUMBER[r[id]] \in Int
  BY <1>2, ParserAssumption
<1>13. metrics'[m] = Narrow(m, Value(id, <<r[id]>>))
  BY <1>7, <1>11
<1> HIDE DEF entries
<1> QED BY <1>2, <1>12, <1>13, NumberShown

\* With the entries of a block there is room for one more.
LEMMA BlockFits ==
    ASSUME NEW r, NEW n \in 0 .. Len(LINES), Collected(fields, r, n)
    PROVE  Queue = fields
BY Lines DEF Collected, Queue

\* Each line adds its entry, and the checksum shows what was collected.
LEMMA TextQueue ==
    ASSUME IInv, Sane, ChargerTyped, InStep, clean > 0, QueueExact, NEW token \in NextTokens,
           SendText(token), Parse(token), UNCHANGED <<reading, last, clean>>
    PROVE  QueueExact'
<1>1. /\ place \in 0 .. 5
      /\ IF line < CHECKSUM_LINE /\ place = 4 THEN line' = line + 1 /\ place' = 0
                                              ELSE line' = line /\ place' = place + 1
  BY Moves
<1>2. /\ line \in 1 .. CHECKSUM_LINE /\ CHECKSUM_LINE = Len(LINES) + 1 /\ Len(LINES) \in Nat
      /\ (place = 5 => line = CHECKSUM_LINE) /\ reading \in READINGS /\ last \in READINGS
  BY Moves, Lines DEF ChargerTyped
<1>3. ~AtStart' /\ (BlockSent' <=> place = 5)
  BY <1>1, <1>2 DEF AtStart, BlockSent
<1>4. CASE AtStart
  <2>1. line' - 1 = 0 /\ place' = 1
    BY <1>1, <1>4 DEF AtStart
  <2> SUFFICES fields' = <<>> /\ (clean = 2 => Shows(metrics', last))
    <3>1. ASSUME fields' = <<>> PROVE Collected(fields', reading', line' - 1)
      BY <2>1, <3>1, CollectedNone
    <3>2. ~BlockSent'
      BY <1>3, <1>4 DEF AtStart
    <3> QED BY <1>3, <2>1, <3>1, <3>2 DEF QueueExact
  <2>2. CASE state = "FIELD"
    <3>1. labelData = <<CHEC, KSUM>> /\ FieldEnd(token)
      BY <1>4, <2>2, InStepCases DEF InStep, Ended, AtStart
    <3>2. ProcessFields(Queue)
      BY <3>1, ChecksumEntry
    <3>3. fields' = <<>>
      BY <3>2 DEF ProcessFields
    <3>4. ASSUME clean = 2 PROVE Shows(metrics', last)
      <4>1. Collected(fields, last, Len(LINES))
        BY <1>4, <2>2, <3>4 DEF QueueExact
      <4>2. Queue = fields
        BY <1>2, <4>1, BlockFits
      <4> QED BY <1>2, <3>2, <4>1, <4>2, CollectedShown
    <3> QED BY <3>3, <3>4
  <2>3. CASE state # "FIELD"
    <3>1. fields = <<>> /\ Skip(token)
      BY <1>4, <2>3, InStepCases DEF InStep, Ended, AtStart
    <3>2. fields' = <<>> /\ metrics' = metrics
      BY <3>1 DEF Skip
    <3>3. clean = 2 => Shows(metrics, last)
      BY <1>4, <2>3 DEF QueueExact
    <3> QED BY <3>2, <3>3
  <2> QED BY <2>2, <2>3
<1>5. CASE place = 0 /\ ~AtStart
  <2>1. line' = line /\ place' = 1 /\ line > 1 /\ line - 1 \in 1 .. Len(LINES)
    BY <1>1, <1>2, <1>5 DEF AtStart
  <2>2. /\ state = "FIELD" /\ labelData = <<LINES[line - 1]>>
        /\ fieldData = <<reading[LINES[line - 1]]>> /\ fieldIndex = Len(fieldData)
    BY <1>5, <2>1 DEF InStep, Follows
  <2>3. Collected(fields, reading, (line - 1) - 1)
    BY <1>2, <1>5, <2>1 DEF QueueExact
  <2>4. Queue = fields
    BY <1>2, <2>1, <2>3, BlockFits
  <2>5. FieldEnd(token)
    BY <1>5, <2>2, InStepCases
  <2>6. /\ fields' = IF LINES[line - 1] \in QueuedIds
                     THEN Append(fields, Entry(reading, line - 1)) ELSE fields
        /\ metrics' = metrics
    BY <2>2, <2>4, <2>5, TextEntry DEF Entry
  <2>7. Collected(fields', reading, line - 1)
    BY <1>2, <2>1, <2>3, <2>6, CollectedNext
  <2>8. clean = 2 => Shows(metrics, last)
    BY <1>5, <2>1 DEF QueueExact, BlockSent
  <2> QED BY <1>3, <1>5, <2>1, <2>6, <2>7, <2>8 DEF QueueExact
<1>6. CASE place \in 1 .. 4 \/ (place = 5 /\ token # END)
  <2>1. /\ UNCHANGED <<fields, metrics>>
        /\ place = 5 => state' = "FIELD"
    <3>1. CASE place \in 1 .. 4
      BY <3>1, InStepCases DEF Start, LabelText, LabelSplit, FieldText
    <3>2. CASE place = 5 /\ token # END
      <4>1. fieldData = <<>> /\ fieldIndex = 0
        BY <3>2 DEF InStep, Follows
      <4> QED BY <3>2, <4>1, InStepCases, FieldFits
    <3> QED BY <1>6, <3>1, <3>2
  <2>2. Collected(fields, reading, line - 1)
    BY <1>6 DEF QueueExact
  <2>3. ~AtStart /\ ~BlockSent
    BY <1>6 DEF AtStart, BlockSent
  <2>4. clean = 2 => Shows(metrics, last)
    BY <2>3 DEF QueueExact
  <2>5. CASE place = 5
    <3>1. line - 1 = Len(LINES) /\ place' = 6
      BY <1>1, <1>2, <2>5
    <3>2. BlockSent' /\ place' \notin 1 .. 5 /\ place' # 0 /\ state' = "FIELD"
      BY <1>3, <2>1, <2>5, <3>1
    <3>3. Collected(fields', reading', Len(LINES))
      BY <2>1, <2>2, <3>1
    <3> QED BY <1>3, <3>2, <3>3 DEF QueueExact
  <2>6. CASE place # 5 /\ place' = 0
    <3>1. line' - 2 = line - 1
      BY <1>1, <1>2, <2>6
    <3>2. ~BlockSent' /\ place' \notin 1 .. 5
      BY <1>3, <2>6
    <3>3. Collected(fields', reading', line' - 2)
      BY <2>1, <2>2, <3>1
    <3>4. clean' = 2 => Shows(metrics', last')
      BY <2>1, <2>4
    <3> QED BY <1>3, <3>2, <3>3, <3>4 DEF QueueExact
  <2>7. CASE place # 5 /\ place' # 0
    <3>1. line' = line /\ ~BlockSent'
      BY <1>1, <1>3, <2>7
    <3>2. Collected(fields', reading', line' - 1)
      BY <2>1, <2>2, <3>1
    <3>3. clean' = 2 => Shows(metrics', last')
      BY <2>1, <2>4
    <3> QED BY <1>3, <2>7, <3>1, <3>2, <3>3 DEF QueueExact
  <2> QED BY <2>5, <2>6, <2>7
<1>7. CASE place = 5 /\ token = END
  <2>1. labelData = <<CHEC, KSUM>> /\ FieldEnd(token)
    BY <1>7, InStepCases DEF InStep
  <2>2. Collected(fields, reading, Len(LINES))
    <3>1. line - 1 = Len(LINES)
      BY <1>2, <1>7
    <3> QED BY <1>7, <3>1 DEF QueueExact
  <2>3. Queue = fields
    BY <1>2, <2>2, BlockFits
  <2>4. ProcessFields(fields) /\ state' = "IDLE"
    BY <2>1, <2>3, ChecksumEntry
  <2>5. Shows(metrics', reading)
    BY <1>2, <2>2, <2>4, CollectedShown
  <2>6. place' = 6
    BY <1>1, <1>7
  <2> QED BY <1>3, <1>7, <2>4, <2>5, <2>6 DEF QueueExact
<1> QED BY <1>1, <1>4, <1>5, <1>6, <1>7

\* Both count every token of a block without frames, and both begin anew: the
\* parser after the checksum, the charger before the first token.
LEMMA TextSums ==
    ASSUME IInv, Sane, ChargerTyped, InStep, plain > 0, SumsAgree, NEW token \in NextTokens,
           SendText(token), Parse(token), UNCHANGED <<plain, bare>>
    PROVE  SumsAgree'
<1>1. /\ place \in 0 .. 5 /\ sent' = token /\ sum' = (sum + WEIGHT[token]) % MODULUS
      /\ IF line < CHECKSUM_LINE /\ place = 4 THEN line' = line + 1 /\ place' = 0
                                              ELSE line' = line /\ place' = place + 1
      /\ place = 5 => line = CHECKSUM_LINE /\ (sum + WEIGHT[token]) % MODULUS = 0
  BY Moves
<1>2. line \in 1 .. CHECKSUM_LINE /\ CHECKSUM_LINE \in Nat
  BY Lines DEF ChargerTyped
<1>3. ~AtStart' /\ (BlockSent' <=> place = 5)
  BY <1>1, <1>2 DEF AtStart, BlockSent
<1> SUFFICES ASSUME bare, ~(place = 5 /\ token = END) PROVE checksum' = sum'
  BY <1>1, <1>3 DEF SumsAgree
<1>4. CASE AtStart
  <2>1. /\ place = 0 /\ state = "FIELD" /\ labelData = <<CHEC, KSUM>> /\ sum = 0
    BY <1>4 DEF InStep, Ended, SumsAgree, AtStart, ChargerTyped
  <2>2. Counted(0, token)
    BY <2>1, InStepCases, ChecksumEntry
  <2> QED BY <1>1, <2>1, <2>2 DEF Counted
<1>5. CASE ~AtStart
  <2>1. checksum = sum
    BY <1>1, <1>5 DEF SumsAgree, BlockSent
  <2>2. Counted(checksum, token)
    <3>1. CASE place = 0
      <4>1. line > 1
        BY <1>2, <1>5, <3>1 DEF AtStart
      <4>2. state = "FIELD" /\ labelData = <<LINES[line - 1]>> /\ FieldEnd(token)
        BY <3>1, <4>1, InStepCases DEF InStep
      <4>3. Lower = LINES[line - 1] /\ ~IsChecksum
        BY <4>2 DEF Lower, Upper, IsChecksum, KSUM
      <4> QED BY <4>2, <4>3 DEF FieldEnd, ProcessEntry
    <3>2. CASE place \in 1 .. 5
      BY <3>2, InStepCases DEF Start, LabelText, LabelSplit, FieldText
    <3> QED BY <1>1, <3>1, <3>2
  <2> QED BY <1>1, <2>1, <2>2 DEF Counted
<1> QED BY <1>4, <1>5

-----------------------------------------------------------------------------
(* The steps of the charger. *)

\* A token of a block.
LEMMA TextTyped ==
    ASSUME ChargerTyped, NEW token \in NextTokens, SendText(token),
           UNCHANGED <<reading, last, history>>, lose' \in Nat, whole => lose' = 0
    PROVE  ChargerTyped'
<1>1. /\ token \in TOKENS /\ frame' = <<>> /\ place \in 0 .. 5
      /\ sum' = (sum + WEIGHT[token]) % MODULUS
      /\ IF line < CHECKSUM_LINE /\ place = 4 THEN line' = line + 1 /\ place' = 0
                                              ELSE line' = line /\ place' = place + 1
  BY Moves
<1>2. /\ line \in 1 .. CHECKSUM_LINE /\ CHECKSUM_LINE \in Nat
      /\ place \in 0 .. IF line = CHECKSUM_LINE THEN 6 ELSE 4
  BY Lines DEF ChargerTyped
<1>3. /\ line' \in 1 .. CHECKSUM_LINE
      /\ place' \in 0 .. IF line' = CHECKSUM_LINE THEN 6 ELSE 4
  BY <1>1, <1>2
<1>4. ~AtStart'
  BY <1>1, <1>2 DEF AtStart
<1>5. sum' \in 0 .. MODULUS - 1
  <2>1. sum \in Int /\ WEIGHT[token] \in Int /\ MODULUS \in Nat \ {0}
    BY <1>1, ParserAssumption DEF ChargerTyped
  <2>2. sum + WEIGHT[token] \in Int /\ \A m \in Int : m % MODULUS \in 0 .. MODULUS - 1
    BY <2>1
  <2> QED BY <1>1, <2>2
<1>6. frame' \in Seq(TOKENS) /\ \A i \in DOMAIN frame' : frame'[i] = START <=> i = Len(frame')
  BY <1>1
<1>7. /\ reading' \in READINGS /\ last' \in READINGS
      /\ whole' \in BOOLEAN /\ bare' \in BOOLEAN
      /\ lose' \in Nat /\ (whole' => lose' = 0)
      /\ clean' \in 0 .. 2 /\ plain' \in 0 .. 2 /\ plain' <= clean'
  BY DEF ChargerTyped, history
<1> QED BY <1>1, <1>3, <1>4, <1>5, <1>6, <1>7 DEF ChargerTyped

\* A token of a frame.
LEMMA FrameTyped ==
    ASSUME ChargerTyped, NEW token \in NextTokens, SendFrame,
           UNCHANGED <<reading, last, history>>, lose' \in Nat, whole => lose' = 0
    PROVE  ChargerTyped'
<1>1. /\ frame # <<>> /\ frame' \in Seq(TOKENS)
      /\ \A i \in DOMAIN frame' : frame'[i] = START <=> i = Len(frame')
      /\ UNCHANGED <<line, place, sum, sent>>
  BY FrameMoves
<1>2. ~bare /\ (whole => place = 2)
  BY <1>1 DEF ChargerTyped
<1> QED BY <1>1, <1>2 DEF ChargerTyped, history, AtStart, BlockSent

LEMMA SendTyped ==
    ASSUME ChargerTyped, NEW token \in NextTokens, Send(token),
           lose' \in Nat, whole => lose' = 0
    PROVE  ChargerTyped'
BY TextTyped, FrameTyped DEF Send

\* In a block that arrives whole, a token of it.
LEMMA TextWhole ==
    ASSUME IInv, ChargerTyped, WholeBlock, NEW token \in NextTokens, SendText(token), Parse(token),
           UNCHANGED <<reading, last, history>>
    PROVE  WholeBlock'
<1> SUFFICES ASSUME whole, sane, Sane
             PROVE  /\ IF Synchronised' THEN InStep' ELSE Adrift'
                    /\ QueueExact' /\ SumsAgree'
  <2>1. whole' = whole /\ sane' = sane /\ (sane => Sane)
    BY DEF history, Parse, IInv, InBounds
  <2> QED BY <2>1 DEF WholeBlock
<1>1. UNCHANGED <<reading, last, whole, bare, clean, plain>> /\ clean \in 0 .. 2 /\ plain \in 0 .. 2 /\ plain <= clean
  BY DEF history, ChargerTyped
<1>2. IF Synchronised THEN InStep ELSE Adrift
  BY DEF WholeBlock
<1>3. Synchronised => Synchronised'
  BY <1>1, Moves, Lines DEF Synchronised, ChargerTyped
<1>4. CASE Synchronised
  <2>1. InStep /\ InStep'
    BY <1>1, <1>2, <1>4, TextInStep
  <2>2. QueueExact'
    <3>1. CASE clean > 0
      BY <1>1, <2>1, <3>1, TextQueue DEF WholeBlock
    <3>2. CASE clean = 0
      BY <1>1, <3>2 DEF QueueExact
    <3> QED BY <1>1, <3>1, <3>2
  <2>3. SumsAgree'
    <3>1. CASE plain > 0
      BY <1>1, <2>1, <3>1, TextSums DEF WholeBlock
    <3>2. CASE plain = 0
      BY <1>1, <3>2 DEF SumsAgree
    <3> QED BY <1>1, <3>1, <3>2
  <2> QED BY <1>3, <1>4, <2>1, <2>2, <2>3
<1>5. CASE ~Synchronised
  <2>1. clean' = 0 /\ plain' = 0
    BY <1>1, <1>5 DEF Synchronised
  <2>2. QueueExact' /\ SumsAgree'
    BY <2>1 DEF QueueExact, SumsAgree
  <2> QED BY <1>1, <1>2, <1>5, <2>2, TextAdrift
<1> QED BY <1>4, <1>5

\* A token of a frame.
LEMMA FrameWhole ==
    ASSUME IInv, ChargerTyped, WholeBlock, NEW token \in NextTokens, SendFrame, Parse(token),
           UNCHANGED <<reading, last, history>>
    PROVE  WholeBlock'
<1> SUFFICES ASSUME whole, sane, Sane
             PROVE  /\ IF Synchronised' THEN InStep' ELSE Adrift'
                    /\ QueueExact' /\ SumsAgree'
  <2>1. whole' = whole /\ sane' = sane /\ (sane => Sane)
    BY DEF history, Parse, IInv, InBounds
  <2> QED BY <2>1 DEF WholeBlock
<1>1. /\ UNCHANGED <<reading, last, whole, bare, clean, plain>>
      /\ frame # <<>> /\ place = 2 /\ UNCHANGED <<line, place, sum, sent>>
      /\ token = Head(frame) /\ ~bare
  BY FrameMoves DEF history, ChargerTyped
<1>2. Synchronised' <=> Synchronised
  BY <1>1 DEF Synchronised
<1>3. IF Synchronised THEN InStep' ELSE Adrift'
  BY <1>1, FrameInStep, FrameAdrift DEF WholeBlock
<1>4. UNCHANGED <<fields, metrics>>
  <2>1. state \in {"LABEL", "IDLE", "ASYNC"} /\ (state = "LABEL" => token = ASYNC)
    <3>1. CASE Synchronised
      BY <1>1, <3>1 DEF WholeBlock, InStep
    <3>2. CASE ~Synchronised
      <4>1. line = 1
        BY <1>1, <3>2, Lines DEF Synchronised, ChargerTyped
      <4> QED BY <1>1, <3>2, <4>1 DEF WholeBlock, Adrift
    <3> QED BY <3>1, <3>2
  <2> QED BY <2>1, ParseCases DEF LabelAsync, Start, Skip
<1>5. ~AtStart /\ ~AtStart' /\ ~BlockSent /\ ~BlockSent'
  BY <1>1 DEF AtStart, BlockSent
<1>6. QueueExact'
  <2>1. clean > 0 => Collected(fields, reading, line - 1)
    BY <1>1 DEF WholeBlock, QueueExact
  <2>2. clean = 2 => Shows(metrics, last)
    BY <1>5 DEF WholeBlock, QueueExact
  <2> QED BY <1>1, <1>4, <1>5, <2>1, <2>2 DEF QueueExact
<1>7. SumsAgree'
  BY <1>1, <1>5 DEF SumsAgree
<1> QED BY <1>2, <1>3, <1>6, <1>7

\* What the parser reads.
LEMMA ReceiveSInv == ASSUME SInv, Receive PROVE SInv'
<1>1. PICK token \in NextTokens : Send(token) /\ Parse(token)
  BY DEF Receive
<1>2. token \in TOKENS /\ UNCHANGED <<reading, last, history>> /\ (SendText(token) \/ SendFrame)
  BY <1>1, NextTokensTyped DEF SInv, Send
<1>3. IInv'
  BY <1>1, <1>2, NextIInv DEF SInv, ParserNext
<1>4. ChargerTyped'
  BY <1>1, SendTyped DEF SInv, Receive, ChargerTyped
<1>5. WholeBlock'
  BY <1>1, <1>2, TextWhole, FrameWhole DEF SInv
<1> QED BY <1>3, <1>4, <1>5 DEF SInv

\* What it does not: nothing is claimed of a block with a gap.
LEMMA LoseSInv == ASSUME SInv, Lose PROVE SInv'
<1>1. PICK token \in NextTokens : Send(token)
  BY DEF Lose
<1>2. lose \in Nat /\ lose > 0 /\ ~whole /\ lose' \in Nat
  BY DEF SInv, ChargerTyped, Lose
<1>3. IInv'
  BY NextIInv DEF SInv, Lose
<1>4. ChargerTyped'
  BY <1>1, <1>2, SendTyped DEF SInv
<1>5. ~whole'
  BY <1>1, <1>2 DEF Send, history
<1> QED BY <1>3, <1>4, <1>5 DEF SInv, WholeBlock

LEMMA GapSInv == ASSUME SInv, NEW n \in GAPS, Gap(n) PROVE SInv'
<1>1. IInv'
  BY NextIInv DEF SInv, Gap
<1>2. ChargerTyped'
  <2>1. /\ UNCHANGED <<line, place, sum, frame, reading, last, bare>>
        /\ lose' = n /\ n \in Nat /\ ~whole' /\ whole' \in BOOLEAN /\ clean' = 0 /\ plain' = 0
    BY SerialAssumption DEF Gap, text
  <2>2. /\ (AtStart' <=> AtStart) /\ (BlockSent' <=> BlockSent)
    BY <2>1 DEF AtStart, BlockSent
  <2>3. (bare' <=> bare) /\ bare' \in BOOLEAN
    BY <2>1 DEF SInv, ChargerTyped
  <2> QED BY <2>1, <2>2, <2>3 DEF SInv, ChargerTyped
<1> QED BY <1>1, <1>2 DEF SInv, WholeBlock, Gap

\* A frame that begins: nothing is claimed of the block unless a label was next.
LEMMA FrameSInv == ASSUME SInv, NEW f \in FRAMES, Frame(f) PROVE SInv'
<1>1. IInv'
  BY NextIInv DEF SInv, Frame
<1>2. /\ frame = <<>> /\ frame' = f /\ bare /\ bare' = FALSE
      /\ whole' = (whole /\ place = 2)
      /\ UNCHANGED <<parser, line, place, sum, sent, lose, reading, last, clean, plain>>
  BY DEF Frame, text
<1>3. f \in Seq(TOKENS) /\ Head(f) = ASYNC /\ \A i \in DOMAIN f : f[i] = START <=> i = Len(f)
  BY FramesAssumption
<1>4. ChargerTyped'
  <2>1. (AtStart' <=> AtStart) /\ ~bare' /\ bare' \in BOOLEAN
    BY <1>2 DEF AtStart
  <2>2. whole' \in BOOLEAN /\ (whole' => whole /\ place = 2)
    <3>1. whole \in BOOLEAN
      BY DEF SInv, ChargerTyped
    <3> QED BY <1>2, <3>1, Zenon
  <2>3. (whole' => lose' = 0) /\ lose' \in Nat /\ (whole' => place' = 2)
    BY <1>2, <2>2 DEF SInv, ChargerTyped
  <2> QED BY <1>2, <1>3, <2>1, <2>2, <2>3 DEF SInv, ChargerTyped
<1>5. WholeBlock'
  <2>0. whole' => whole /\ place = 2
    BY <1>2, Zenon
  <2> SUFFICES ASSUME whole', sane'
               PROVE  /\ ~Synchronised' => Adrift'
                      /\ Synchronised' => InStep'
                      /\ QueueExact' /\ SumsAgree'
    BY DEF WholeBlock
  <2>1. place = 2 /\ whole /\ sane
    BY <1>2, <2>0 DEF parser
  <2>2. Synchronised' <=> Synchronised
    BY <1>2 DEF Synchronised
  <2>3. /\ ~Synchronised => Adrift
        /\ Synchronised => InStep
        /\ QueueExact /\ SumsAgree
    BY <2>1 DEF SInv, WholeBlock
  <2> USE DEF parser, labelBuffer, fieldBuffer
  <2>4. ~Synchronised => Adrift'
    BY <1>2, <1>3, <2>1, <2>3 DEF Adrift
  <2>5. Synchronised => InStep'
    BY <1>2, <1>3, <2>1, <2>3 DEF InStep, Follows, AtStart, BlockSent
  <2>6. QueueExact'
    BY <1>2, <2>3 DEF QueueExact, AtStart, BlockSent
  <2>7. SumsAgree'
    BY <1>2, <2>1, <2>3 DEF SumsAgree, AtStart, BlockSent
  <2> QED BY <2>2, <2>4, <2>5, <2>6, <2>7
<1> QED BY <1>1, <1>4, <1>5 DEF SInv

\* A block that follows a whole one begins in step.
LEMMA NextBlockSInv == ASSUME SInv, NextBlock PROVE SInv'
<1>1. IInv'
  BY NextIInv DEF SInv, NextBlock
<1>2. /\ BlockSent /\ frame = <<>> /\ frame' = <<>>
      /\ line' = 1 /\ place' = 0 /\ sum' = 0
      /\ last' = reading /\ reading' \in READINGS
      /\ clean' = IF whole THEN Next2(clean) ELSE 0
      /\ plain' = IF whole /\ bare /\ sent # END THEN Next2(plain) ELSE 0
      /\ (whole' <=> lose = 0) /\ bare'
      /\ UNCHANGED <<parser, sent, lose>>
  BY DEF NextBlock
<1>3. /\ clean \in 0 .. 2 /\ plain \in 0 .. 2 /\ plain <= clean /\ (whole => lose = 0)
      /\ lose \in Nat
  BY DEF SInv, ChargerTyped
<1>4. /\ clean' \in 0 .. 2 /\ plain' \in 0 .. 2 /\ plain' <= clean'
      /\ clean' > 0 => whole
      /\ clean' = 2 => clean > 0
      /\ plain' > 0 => whole /\ bare /\ sent # END
      /\ plain' = 2 => plain > 0
  BY <1>2, <1>3 DEF Next2
<1>5. ChargerTyped'
  <2>1. line' \in 1 .. CHECKSUM_LINE /\ place' \in 0 .. IF line' = CHECKSUM_LINE THEN 6 ELSE 4
    BY <1>2, Lines
  <2>2. sum' \in 0 .. MODULUS - 1
    BY <1>2, ParserAssumption
  <2>3. whole' \in BOOLEAN /\ bare' \in BOOLEAN
    BY DEF NextBlock
  <2>4. last' \in READINGS
    BY <1>2 DEF SInv, ChargerTyped
  <2> QED BY <1>2, <1>3, <1>4, <2>1, <2>2, <2>3, <2>4 DEF ChargerTyped
<1>6. WholeBlock'
  <2> SUFFICES ASSUME sane
               PROVE  /\ ~Synchronised' => Adrift'
                      /\ Synchronised' => InStep'
                      /\ QueueExact' /\ SumsAgree'
    BY <1>2 DEF WholeBlock, parser
  <2>1. /\ AtStart' /\ ~BlockSent' /\ UNCHANGED <<fields, checksum, metrics>>
        /\ UNCHANGED <<state, labelData, labelIndex, fieldData, fieldIndex>>
    BY <1>2 DEF AtStart, BlockSent, parser, labelBuffer, fieldBuffer
  <2>2. Adrift'
    BY <1>2 DEF Adrift
  <2>3. Synchronised' => whole
    BY <1>2, <1>4 DEF Synchronised
  <2>4. ASSUME whole PROVE InStep'
    <3>1. Synchronised
      BY <1>2, Lines DEF Synchronised, BlockSent
    <3>2. Ended /\ Follows
      BY <1>2, <2>4, <3>1 DEF SInv, WholeBlock, InStep
    <3>3. Ended' /\ Follows'
      BY <1>2, <2>1, <3>2 DEF Ended, Follows
    <3> QED BY <1>2, <3>3 DEF InStep
  <2>5. QueueExact'
    <3>1. ASSUME clean' = 2
          PROVE  IF state' = "FIELD" THEN Collected(fields', last', Len(LINES))
                 ELSE Shows(metrics', last')
      BY <1>2, <1>4, <2>1, <3>1 DEF SInv, WholeBlock, QueueExact
    <3> QED BY <1>2, <2>1, <3>1 DEF QueueExact
  <2>6. SumsAgree'
    <3>1. plain' > 0 => sent' # END
      BY <1>2, <1>4
    <3>2. plain' = 2 => checksum' = 0
      BY <1>2, <1>4, <2>1 DEF SInv, WholeBlock, SumsAgree
    <3> QED BY <2>1, <3>1, <3>2 DEF SumsAgree
  <2> QED BY <2>2, <2>3, <2>4, <2>5, <2>6
<1> QED BY <1>1, <1>5, <1>6 DEF SInv

LEMMA InitSInv == Init => SInv
<1> SUFFICES ASSUME Init PROVE SInv
  OBVIOUS
<1>1. IInv
  BY InitIInv DEF Init
<1>2. ChargerTyped
  <2>1. /\ line = CHECKSUM_LINE /\ place = 6 /\ frame = <<>> /\ lose = 0 /\ sum = 0
        /\ reading \in READINGS /\ last \in READINGS /\ clean = 0 /\ plain = 0
    BY DEF Init
  <2>2. whole \in BOOLEAN /\ bare \in BOOLEAN
    BY DEF Init
  <2>3. ~AtStart /\ line \in 1 .. CHECKSUM_LINE /\ sum \in 0 .. MODULUS - 1
    BY <2>1, Lines, ParserAssumption DEF AtStart
  <2> QED BY <2>1, <2>2, <2>3 DEF ChargerTyped
<1>3. WholeBlock
  BY DEF Init, WholeBlock
<1> QED BY <1>1, <1>2, <1>3 DEF SInv

LEMMA NextSInv == SInv /\ [Next]_vars => SInv'
<1>1. ASSUME SInv, Next PROVE SInv'
  BY <1>1, ReceiveSInv, LoseSInv, NextBlockSInv, GapSInv, FrameSInv DEF Next
<1>2. ASSUME SInv, UNCHANGED vars PROVE SInv'
  <2> USE <1>2 DEF vars, charger, parser, labelBuffer, fieldBuffer, text, history
  <2>1. IInv'
    BY NextIInv DEF SInv
  <2>2. ChargerTyped'
    BY DEF SInv, ChargerTyped, AtStart, BlockSent
  <2>3. WholeBlock'
    <3>1. (Synchronised' <=> Synchronised) /\ (AtStart' <=> AtStart) /\ (BlockSent' <=> BlockSent) /\ (Ended' <=> Ended) /\ (Follows' <=> Follows)
      BY DEF Synchronised, AtStart, BlockSent, Ended, Follows
    <3>2. (Adrift => Adrift') /\ (InStep => InStep')
      BY <3>1 DEF Adrift, InStep
    <3>3. (QueueExact => QueueExact') /\ (SumsAgree => SumsAgree')
      BY <3>1 DEF QueueExact, SumsAgree
    <3> QED BY <3>1, <3>2, <3>3 DEF SInv, WholeBlock
  <2> QED BY <2>1, <2>2, <2>3 DEF SInv
<1> QED BY <1>1, <1>2

\* The charger is one of the inputs that the parser may have: what it does on
\* the serial line is what parse and processEntry do of any input at all.
THEOREM SerialIsParser == Spec => ParserSpec
<1>1. ASSUME SInv, [Next]_vars PROVE [ParserNext]_parser
  <2>1. CASE Receive
    <3>1. PICK token \in NextTokens : Send(token) /\ Parse(token)
      BY <2>1 DEF Receive
    <3>2. token \in TOKENS
      BY <1>1, <3>1, NextTokensTyped DEF SInv, Send
    <3> QED BY <3>1, <3>2 DEF ParserNext
  <2>2. CASE ~Receive
    <3>1. UNCHANGED parser
      BY <1>1, <2>2 DEF Next, Lose, NextBlock, Gap, Frame, vars
    <3> QED BY <3>1
  <2> QED BY <2>1, <2>2
<1>2. Init => ParserInit
  BY DEF Init
<1> QED BY <1>1, <1>2, InitSInv, NextSInv, PTL DEF Spec, ParserSpec

\* So whatever the charger sends and whatever of it is lost, sane memory stays
\* so: no byte is written beyond labelData or fieldData.
THEOREM SerialInBounds == Spec => []InBounds
BY SerialIsParser, AlwaysInBounds, PTL

\* If the memory was sane at the start, then after two blocks that arrived whole,
\* with frames at most where a label begins, the display shows the second until
\* the next is at its end: processEntry has queued an entry for every line of
\* it and nothing else, and processFields has set the metrics from them.
THEOREM BlockShown == Spec => []IntactBlockShown
<1>1. SInv => IntactBlockShown
  <2> SUFFICES ASSUME SInv, sane, clean = 2, whole, ~AtStart, ~BlockSent
               PROVE  Shows(metrics, last)
    BY DEF IntactBlockShown, Complete, AtStart
  <2> QED BY DEF SInv, WholeBlock, QueueExact
<1> QED BY <1>1, InitSInv, NextSInv, PTL DEF Spec

\* When the entry of the checksum is processed, the sum that parse has taken of
\* a block without frames is zero, as the charger has made it.
THEOREM ChecksumsAreZero == Spec => ChecksumIsZero
<1>1. ASSUME SInv, state = "FIELD", sane, plain = 2, bare, line = 1, place = 0
      PROVE  IsChecksum /\ checksum = 0
  <2>1. whole /\ clean > 0 /\ AtStart
    BY <1>1 DEF SInv, ChargerTyped, AtStart
  <2>2. InStep /\ SumsAgree
    BY <1>1, <2>1 DEF SInv, WholeBlock, Synchronised
  <2>3. labelData = <<CHEC, KSUM>> /\ checksum = 0
    BY <1>1, <2>1, <2>2 DEF InStep, Ended, SumsAgree
  <2> QED BY <2>3 DEF IsChecksum, Lower, Upper
<1>2. SInv /\ [Next]_vars =>
        [state = "FIELD" /\ state' = "IDLE" /\ sane /\ plain = 2 /\ bare /\ line = 1 /\ place = 0
             => IsChecksum /\ checksum = 0]_vars
  BY <1>1
<1> QED BY <1>2, InitSInv, NextSInv, PTL DEF Spec, ChecksumIsZero
=============================================================================
