---------------------------- MODULE VictronSerial ----------------------------
(***************************************************************************)
(* The parser at the end of the serial line of a solar charger: what       *)
(* setupUart and the loop of sparkplugExecute make of it.  The charger     *)
(* sends a block of text every second, each line between CR LF and TAB     *)
(* and its value, the last one the byte that makes the checksum zero, and  *)
(* at times a frame of its binary protocol between any two of these.  The  *)
(* loop reads the line only while the node is active and between two       *)
(* sleeps, so bytes are lost when the FIFO is full: any stretch of them,   *)
(* also one that spans two blocks.                                         *)
(***************************************************************************)
EXTENDS VictronParser

CONSTANTS
    LINES,          \* the labels of a block, without the checksum
    READINGS,       \* what a block may say: a value for each label
    FRAMES,         \* frames of the binary protocol
    CHECK_BYTES,    \* what the byte of the checksum may be
    GAPS,           \* how many tokens in a row may be lost
    MAX_DISTURBED   \* bound: gaps and frames together

LABELS == {LINES[i] : i \in DOMAIN LINES}

\* A block fits into the queue, as the comment on MAX_FIELDS_COUNT has it, a value
\* fits into fieldData with the zero behind it, and FIRMWARE comes before
\* SERIAL_NUMBER.
ASSUME LinesAssumption ==
    /\ LINES \in Seq(TOKENS \ {START, END, SPLIT, ASYNC, CHEC})
    /\ Len(LINES) \in 1 .. MAX_FIELDS_COUNT - 1
    /\ \A i, j \in DOMAIN LINES : LINES[i] = "FW" /\ LINES[j] = "SER#" => i < j
    /\ MAX_LABEL_LENGTH >= 2 /\ MAX_FIELD_LENGTH >= 2

\* The numbers of the protocol: 16 bits for currents, yields and powers, the
\* days of a year, the codes of the states.
InRange(label, n) ==
    /\ label \in {"I", "H20", "H21", "H22", "H23"} => -32768 <= n /\ n <= 32767
    /\ label = "HSDS" => 0 <= n /\ n <= 364
    /\ label = "CS" => 0 <= n /\ n <= 255
    /\ label \in {"ERR", "MPPT"} => -128 <= n /\ n <= 127

\* A value has no control characters.
ASSUME ReadingsAssumption ==
    /\ READINGS \subseteq [LABELS -> TOKENS \ {START, END}]
    /\ \A r \in READINGS : \A label \in LABELS : InRange(label, NUMBER[r[label]])

\* A frame begins with a colon and ends with the only LF in it.
ASSUME FramesAssumption ==
    /\ FRAMES \subseteq Seq(TOKENS) \ {<<>>}
    /\ \A frame \in FRAMES : /\ Head(frame) = ASYNC
                             /\ \A i \in DOMAIN frame : frame[i] = START <=> i = Len(frame)

ASSUME SerialAssumption ==
    /\ {CHEC, KSUM} \union CHECK_BYTES \subseteq TOKENS
    /\ GAPS \subseteq Nat
    /\ MAX_DISTURBED \in Nat

VARIABLES
    line, place,    \* the line that is being sent, and how many tokens of it were
    frame,          \* what is left of a frame, which goes first
    sum, sent,      \* of this block: the sum so far, the token sent last
    lose,           \* so many tokens from here on are lost
    reading, last,  \* the reading being sent, and the one before it
    whole, bare,    \* no gap in this block, and frames only before a label; no frame
    clean, plain,   \* how many blocks before it were whole; whole, bare, not ended by CR
    disturbed

text    == <<line, place, sum, sent>>
history == <<whole, bare, clean, plain>>
charger == <<text, frame, lose, reading, last, history, disturbed>>
vars    == <<parser, charger>>

CHECKSUM_LINE == Len(LINES) + 1

\* The tokens of the line, without the byte of the checksum.
Line == IF line < CHECKSUM_LINE
        THEN <<END, START, LINES[line], SPLIT, reading[LINES[line]]>>
        ELSE <<END, START, CHEC, KSUM, SPLIT>>

BlockSent == line = CHECKSUM_LINE /\ place = 6

\* The last byte makes the sum zero, and may be a character of its own meaning.
NextTokens ==
    IF frame # <<>> THEN {Head(frame)}
    ELSE IF place < 5 THEN {Line[place + 1]}
    ELSE {b \in CHECK_BYTES : (sum + WEIGHT[b]) % MODULUS = 0}

Init ==
    /\ ParserInit
    /\ line = CHECKSUM_LINE /\ place = 6
    /\ frame = <<>> /\ lose = 0
    /\ sum = 0 /\ sent = END
    /\ reading \in READINGS /\ last = reading
    /\ whole = FALSE /\ bare = TRUE
    /\ clean = 0 /\ plain = 0 /\ disturbed = 0

\* The charger sends the next token.
SendText(token) ==
    /\ frame = <<>> /\ ~BlockSent
    /\ IF line < CHECKSUM_LINE /\ place = 4
       THEN line' = line + 1 /\ place' = 0
       ELSE place' = place + 1 /\ UNCHANGED line
    /\ sum' = (sum + WEIGHT[token]) % MODULUS
    /\ sent' = token
    /\ UNCHANGED frame

SendFrame ==
    /\ frame # <<>>
    /\ frame' = Tail(frame)
    /\ UNCHANGED text

Send(token) ==
    /\ SendText(token) \/ SendFrame
    /\ UNCHANGED <<reading, last, history, disturbed>>

Receive ==
    /\ lose = 0
    /\ \E token \in NextTokens : Send(token) /\ Parse(token)
    /\ UNCHANGED lose

Lose ==
    /\ lose > 0
    /\ \E token \in NextTokens : Send(token)
    /\ lose' = lose - 1
    /\ UNCHANGED parser

\* Nothing is read for a while.
Gap(n) ==
    /\ lose = 0 /\ disturbed < MAX_DISTURBED
    /\ lose' = n
    /\ disturbed' = disturbed + 1
    /\ whole' = FALSE /\ clean' = 0 /\ plain' = 0
    /\ UNCHANGED <<parser, text, frame, reading, last, bare>>

\* A frame between any two tokens.  Only where a label should begin does the
\* parser know it.
Frame(f) ==
    /\ frame = <<>> /\ bare /\ disturbed < MAX_DISTURBED
    /\ frame' = f
    /\ whole' = (whole /\ place = 2) /\ bare' = FALSE
    /\ disturbed' = disturbed + 1
    /\ UNCHANGED <<parser, text, lose, reading, last, clean, plain>>

Next2(n) == IF n < 2 THEN n + 1 ELSE 2

\* The next block.
NextBlock ==
    /\ BlockSent /\ frame = <<>>
    /\ line' = 1 /\ place' = 0 /\ sum' = 0
    /\ last' = reading
    /\ reading' \in READINGS
    /\ clean' = IF whole THEN Next2(clean) ELSE 0
    /\ plain' = IF whole /\ bare /\ sent # END THEN Next2(plain) ELSE 0
    /\ whole' = (lose = 0) /\ bare' = TRUE
    /\ UNCHANGED <<parser, sent, frame, lose, disturbed>>

Next ==
    \/ Receive \/ Lose \/ NextBlock
    \/ \E n \in GAPS : Gap(n)
    \/ \E f \in FRAMES : Frame(f)

Spec == Init /\ [][Next]_vars

-----------------------------------------------------------------------------
\* The metrics that the reading of a block must appear in, except that the
\* serial number is overwritten by the firmware, and that the day sequence
\* must fit into eight bits.
Shows(display, r) ==
    \A pair \in Sets :
        LET shown == display[pair[2]]
            value == r[pair[1]]
        IN  \/ pair[1] \notin DOMAIN r
            \/ pair = <<"SER#", "serialNumber">> /\ "FW" \in DOMAIN r
            \/ pair[1] = "HSDS" /\ NUMBER[value] > 127
            \/ shown = IF pair[1] \in TextIds THEN <<value>>
                       ELSE IF pair[1] = "LOAD" THEN value = "ON"
                       ELSE NUMBER[value]

Complete == clean = 2 /\ whole /\ ~(line = 1 /\ place = 0) /\ ~BlockSent

\* After two blocks that arrived whole, the metrics show the second as soon as
\* its last line has ended, and while the next arrives: whatever was lost before,
\* whatever came of it, and with frames where a label should begin.  It is so only
\* if the memory was Sane at the start: from a state that parse does not know it
\* never leaves, and shows nothing for ever.  A frame anywhere else spoils its
\* block, whole is FALSE then, and the property says that this ends after two more.
\* One whole block is not enough: entries that were left in the queue win.
IntactBlockShown == sane /\ Complete => Shows(metrics, last)

\* The checksum of a block is zero when its entry is processed, if that block
\* and the one before arrived whole, without frames, and the byte was not CR,
\* which ends the line before it counts.
ChecksumIsZero ==
    [][state = "FIELD" /\ state' = "IDLE" /\ sane /\ plain = 2 /\ bare /\ line = 1 /\ place = 0
           => IsChecksum /\ checksum = 0]_vars
=============================================================================
