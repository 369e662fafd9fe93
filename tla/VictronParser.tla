---------------------------- MODULE VictronParser ----------------------------
(***************************************************************************)
(* garden_shed/src/VictronParser.cpp: the parser of the solar charger's    *)
(* serial text.  Each step parses one token.  A token stands for the four  *)
(* bytes of half a label, for a value, or for a byte of its own meaning.   *)
(*                                                                         *)
(* labelData and fieldData are the arrays without the zeros at their end;  *)
(* fields is the array with fieldCount.  The parser is a local variable    *)
(* and its constructor sets fieldCount only, so that the rest is arbitrary *)
(* at the start: the states, and two indices that may be any number.       *)
(***************************************************************************)
EXTENDS Integers, Sequences

CONSTANTS
    TOKENS,             \* what the serial line carries
    WEIGHT, MODULUS,    \* what a token adds to the checksum, and 256
    NUMBER,             \* the value of a token for atoi and atol
    GARBAGE,            \* what memory that was not set may hold, in an array,
    INDICES,            \* and in an index
    MAX_LABEL_LENGTH, MAX_FIELD_LENGTH, MAX_FIELDS_COUNT

ASSUME ParserAssumption ==
    /\ MODULUS \in Nat \ {0} /\ WEIGHT \in [TOKENS -> Int] /\ NUMBER \in [TOKENS -> Int]
    /\ MAX_LABEL_LENGTH \in Nat \ {0} /\ MAX_FIELD_LENGTH \in Nat /\ MAX_FIELDS_COUNT \in Nat \ {0}
    /\ {"LF", "CR", "TAB", ":"} \subseteq TOKENS /\ GARBAGE \subseteq Seq(TOKENS) /\ INDICES \subseteq Int

START == "LF"   END == "CR"   SPLIT == "TAB"   ASYNC == ":"

\* VictronId, by what processEntry makes of the value.
WideIds == {"V", "VPV", "I", "PPV", "IL", "H19", "H20", "H21", "H22", "H23", "HSDS"}
ByteIds == {"CS", "ERR", "MPPT"}
TextIds == {"PID", "FW", "SER#"}
QueuedIds == WideIds \union ByteIds \union TextIds \union {"LOAD"}
CHEC == "Chec"
KSUM == "ksum"

\* Which metrics processFields sets for an id.  FIRMWARE falls through to
\* SERIAL_NUMBER; PPV, IL and H19 set nothing.
Sets == {<<"V", "batteryVoltage">>, <<"VPV", "panelVoltage">>, <<"I", "current">>,
         <<"H20", "yieldToday">>, <<"H21", "maxPowerToday">>, <<"H22", "yieldYesterday">>,
         <<"H23", "maxPowerYesterday">>, <<"HSDS", "daySequence">>, <<"CS", "operationState">>,
         <<"ERR", "errorState">>, <<"MPPT", "trackerOperationMode">>, <<"LOAD", "loadActive">>,
         <<"PID", "productId">>, <<"FW", "firmware">>, <<"FW", "serialNumber">>,
         <<"SER#", "serialNumber">>}
METRICS == {pair[2] : pair \in Sets}

VARIABLES
    state,
    labelData, labelIndex, fieldData, fieldIndex,
    fields, checksum, metrics,
    sane            \* history: what Sane says of the memory at the start

labelBuffer == <<labelData, labelIndex>>
fieldBuffer == <<fieldData, fieldIndex>>
parser == <<state, labelBuffer, fieldBuffer, fields, checksum, metrics, sane>>

\* CHECKSUM is never entered: it stands for every value that parse does not
\* know and that the variable may hold at the start.
STATES == {"IDLE", "LABEL", "FIELD", "ASYNC", "CHECKSUM"}

Garbage(length) == {g \in GARBAGE : Len(g) <= length}

\* The state is one that parse knows, and the index that it uses there is within
\* its array, or behind its end.
Sane ==
    /\ state # "CHECKSUM"
    /\ state = "LABEL" => 0 <= labelIndex /\ labelIndex <= MAX_LABEL_LENGTH
    /\ state = "FIELD" => 0 <= fieldIndex /\ fieldIndex <= MAX_FIELD_LENGTH

\* configureSparkplug
InitialMetric(m) ==
    IF m \in {"productId", "firmware", "serialNumber"} THEN <<>>
    ELSE IF m = "loadActive" THEN FALSE ELSE 0

ParserInit ==
    /\ state \in STATES
    /\ labelData \in Garbage(MAX_LABEL_LENGTH) /\ labelIndex \in INDICES
    /\ fieldData \in Garbage(MAX_FIELD_LENGTH) /\ fieldIndex \in INDICES
    /\ fields = <<>>
    /\ checksum \in 0 .. MODULUS - 1
    /\ sane = Sane
    /\ metrics = [m \in METRICS |-> InitialMetric(m)]

-----------------------------------------------------------------------------
(* The entries. *)

Signed(n, width) == ((n + width \div 2) % width) - width \div 2

\* atoi and atol.  A value is one token: lost bytes can join two into another
\* number, which no property tells apart from the first.
Atoi(data) == IF data = <<>> THEN 0 ELSE NUMBER[data[1]]

\* A text is copied with fieldIndex + 1 bytes: the value and the zero behind
\* it.  Behind a value that fills the array there is none, the byte after the
\* array is copied, and the text ends somewhere in the heap.
CopyLength == fieldIndex + 1
Copied ==
    LET copy == IF CopyLength < Len(fieldData) THEN SubSeq(fieldData, 1, CopyLength) ELSE fieldData
    IN  IF Len(fieldData) < CopyLength /\ Len(fieldData) < MAX_FIELD_LENGTH
        THEN {copy}
        ELSE {copy \o g : g \in GARBAGE}

\* The data of a new Field.
Value(id, string) ==
    CASE id \in WideIds -> Atoi(string)
      [] id \in ByteIds -> Signed(Atoi(string), 256)
      [] id \in TextIds -> string
      [] OTHER          -> string = <<"ON">>

\* How processFields reads the data, and the metric's own width.
Narrow(m, data) ==
    CASE m \in {"current", "yieldToday", "maxPowerToday", "yieldYesterday", "maxPowerYesterday"}
                               -> Signed(data, 65536)
      [] m = "daySequence"     -> Signed(data, 256)
      [] m = "operationState"  -> data % 256
      [] OTHER                 -> data

\* processFields goes through the queue from its end, so of several entries
\* for a metric the oldest is the one that stays.
ProcessFields(queue) ==
    /\ metrics' = [m \in METRICS |->
           LET entries == {i \in DOMAIN queue : <<queue[i].id, m>> \in Sets}
               oldest == CHOOSE i \in entries : \A j \in entries : i <= j
           IN IF entries = {} THEN metrics[m] ELSE Narrow(m, queue[oldest].data)]
    /\ fields' = <<>>

\* The queue that processEntry works on: a full one is dumped first.
Queue == IF Len(fields) >= MAX_FIELDS_COUNT THEN <<>> ELSE fields

Lower == IF labelData = <<>> THEN "" ELSE labelData[1]
Upper == IF Len(labelData) < 2 THEN "" ELSE labelData[2]
IsChecksum == Lower = CHEC /\ Upper = KSUM

\* processEntry, for an entry of a queued id, of the checksum, and of others.
QueueEntry ==
    /\ \E string \in IF Lower \in TextIds THEN Copied ELSE {fieldData} :
           fields' = Append(Queue, [id |-> Lower, data |-> Value(Lower, string)])
    /\ UNCHANGED metrics

Counted(sum, token) == checksum' = (sum + WEIGHT[token]) % MODULUS

MutEndBlock(token) ==           \* the checksum goes on into the next block
    /\ ProcessFields(Queue)
    /\ Counted(checksum, token)
\* The entry of the checksum itself is queued too, and sets no metric.
EndBlock(token) ==
    /\ ProcessFields(Queue)
    /\ Counted(0, token)

ProcessEntry(token) ==
    \/ Lower \in QueuedIds /\ QueueEntry /\ Counted(checksum, token)
    \/ IsChecksum /\ EndBlock(token)
    \/ /\ Lower \notin QueuedIds /\ ~IsChecksum
       /\ fields' = Queue
       /\ Counted(checksum, token)
       /\ UNCHANGED metrics

-----------------------------------------------------------------------------
(* parse(), for each state and what the token is. *)

LabelSplit(token) ==
    /\ state = "LABEL" /\ token = SPLIT
    /\ state' = "FIELD"
    /\ fieldIndex' = 0 /\ fieldData' = <<>>
    /\ Counted(checksum, token)
    /\ UNCHANGED <<labelBuffer, fields, metrics>>

MutLabelAsync(token) ==         \* the frame is read as a label
    /\ state = "LABEL" /\ token = ASYNC
    /\ UNCHANGED <<state, labelBuffer, fieldBuffer, fields, checksum, metrics>>
\* What follows is not text.  It does not count, its last byte does.
LabelAsync(token) ==
    /\ state = "LABEL" /\ token = ASYNC
    /\ state' = "ASYNC"
    /\ UNCHANGED <<labelBuffer, fieldBuffer, fields, checksum, metrics>>

\* array[index] = token, for an index within the array.
Put(data, index, token) ==
    IF index < Len(data) THEN [data EXCEPT ![index + 1] = token] ELSE Append(data, token)

MutLabelText(token) ==          \* the test is off by one
    /\ state = "LABEL" /\ token \notin {SPLIT, ASYNC} /\ labelIndex >= 0
    /\ IF labelIndex > MAX_LABEL_LENGTH
       THEN state' = "IDLE" /\ UNCHANGED labelBuffer
       ELSE /\ labelData' = Put(labelData, labelIndex, token)
            /\ labelIndex' = labelIndex + 1
            /\ UNCHANGED state
    /\ Counted(checksum, token)
    /\ UNCHANGED <<fieldBuffer, fields, metrics>>
LabelText(token) ==
    /\ state = "LABEL" /\ token \notin {SPLIT, ASYNC} /\ labelIndex >= 0
    /\ IF labelIndex >= MAX_LABEL_LENGTH
       THEN state' = "IDLE" /\ UNCHANGED labelBuffer
       ELSE /\ labelData' = Put(labelData, labelIndex, token)
            /\ labelIndex' = labelIndex + 1
            /\ UNCHANGED state
    /\ Counted(checksum, token)
    /\ UNCHANGED <<fieldBuffer, fields, metrics>>

FieldEnd(token) ==
    /\ state = "FIELD" /\ token = END
    /\ state' = "IDLE"
    /\ ProcessEntry(token)
    /\ UNCHANGED <<labelBuffer, fieldBuffer>>

FieldText(token) ==
    /\ state = "FIELD" /\ token # END /\ fieldIndex >= 0
    /\ IF fieldIndex >= MAX_FIELD_LENGTH
       THEN state' = "IDLE" /\ UNCHANGED fieldBuffer
       ELSE /\ fieldData' = Put(fieldData, fieldIndex, token)
            /\ fieldIndex' = fieldIndex + 1
            /\ UNCHANGED state
    /\ Counted(checksum, token)
    /\ UNCHANGED <<labelBuffer, fields, metrics>>

\* The tests of the two actions above let a negative index through: something
\* before the array is overwritten, for instance what the constructor left unset.
Stray(token) ==
    /\ \/ state = "LABEL" /\ token \notin {SPLIT, ASYNC} /\ labelIndex < 0
       \/ state = "FIELD" /\ token # END /\ fieldIndex < 0
    /\ state' \in STATES
    /\ labelData' \in Garbage(MAX_LABEL_LENGTH) /\ labelIndex' \in INDICES
    /\ fieldData' \in Garbage(MAX_FIELD_LENGTH) /\ fieldIndex' \in INDICES
    /\ checksum' \in 0 .. MODULUS - 1
    /\ UNCHANGED <<fields, metrics>>

Start(token) ==
    /\ state \in {"IDLE", "ASYNC"} /\ token = START
    /\ state' = "LABEL"
    /\ labelData' = <<>> /\ labelIndex' = 0
    /\ Counted(checksum, token)
    /\ UNCHANGED <<fieldBuffer, fields, metrics>>

Skip(token) ==
    /\ \/ state \in {"IDLE", "ASYNC"} /\ token # START
       \/ state = "CHECKSUM"
    /\ IF state = "ASYNC" THEN UNCHANGED checksum ELSE Counted(checksum, token)
    /\ UNCHANGED <<state, labelBuffer, fieldBuffer, fields, metrics>>

Parse(token) ==
    /\ \/ LabelSplit(token) \/ LabelAsync(token) \/ LabelText(token)
       \/ FieldEnd(token) \/ FieldText(token) \/ Stray(token)
       \/ Start(token) \/ Skip(token)
    /\ UNCHANGED sane

\* The parser on any input at all.
ParserNext == \E token \in TOKENS : Parse(token)
ParserSpec == ParserInit /\ [][ParserNext]_parser

-----------------------------------------------------------------------------
\* If the memory was Sane at the start it stays so, whatever arrives: no byte is
\* written outside labelData or fieldData, and the copy of a text reads at most
\* the one byte behind fieldData.  The queue of entries never exceeds its array
\* and holds only what processFields can tell apart, even if it was not Sane.
InBounds ==
    /\ sane => Sane
    /\ Len(fields) <= MAX_FIELDS_COUNT
    /\ \A i \in DOMAIN fields : fields[i].id \in QueuedIds
    /\ state \in STATES /\ sane \in BOOLEAN
    /\ labelData \in Seq(TOKENS) /\ Len(labelData) <= MAX_LABEL_LENGTH /\ labelIndex \in Int
    /\ fieldData \in Seq(TOKENS) /\ Len(fieldData) <= MAX_FIELD_LENGTH /\ fieldIndex \in Int
    /\ checksum \in 0 .. MODULUS - 1
    /\ DOMAIN metrics = METRICS
=============================================================================
