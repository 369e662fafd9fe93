--------------------------- MODULE MCVictronSerial ---------------------------
(***************************************************************************)
(* A charger with two lines of text and two with numbers, one of which     *)
(* does not fit into a byte in the second reading.  The sums of the two    *)
(* readings differ, and the last byte of the second is CR.  The memory     *)
(* before the first block holds a number, in or before an array.  Two gaps *)
(* of one token can take CR and LF, one of eleven a line and the checksum. *)
(***************************************************************************)
EXTENDS VictronSerial, TLC

MCWeight == [token \in TOKENS |->
    CASE token = "CR" -> 1 [] token \in {"LF", "13"} -> 2 [] OTHER -> 0]

MCNumber == [token \in TOKENS |->
    CASE token = "12" -> 12 [] token = "13" -> 13 [] token = "5" -> 5
      [] token = "300" -> 300 [] OTHER -> 0]

MCLines == <<"FW", "SER#", "V", "HSDS">>
MCReading(v, h) == ("FW" :> "1.61") @@ ("SER#" :> "HQ20") @@ ("V" :> v) @@ ("HSDS" :> h)
MCReadings == {MCReading("12", "5"), MCReading("13", "300")}
MCGarbage == {<<"V", "12">>}
MCIndices == {-1, 1}
MCFrames == {<<":", "LF">>, <<":", "hex", "LF">>}
=============================================================================
