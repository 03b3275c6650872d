------------------------------ MODULE LineText ------------------------------
(***************************************************************************)
(* Line protocol text as influxdb_line.h builds it, and as a server reads  *)
(* it.  A text is a sequence of tokens: a measurement, a key=value pair,   *)
(* the separators ",", " " and newline, and a timestamp.                   *)
(***************************************************************************)
EXTENDS Integers, Sequences, SequencesExt

Newline == "\n"
Timestamp == "ts"

-----------------------------------------------------------------------------
(* key_value_pairs and line *)

\* Mutant: the comma is forgotten.
AddWithoutComma(kvp, pair) == Append(kvp, pair)

\* key_value_pairs::add(), for a valid key
AddPair(kvp, pair) == IF kvp = <<>> THEN <<pair>> ELSE kvp \o <<",", pair>>

\* line(measurement, tags, values), for a valid measurement
LineOf(measurement, tags, values) ==
  <<measurement>>
    \o (IF tags = <<>> THEN <<>> ELSE <<",">> \o tags)
    \o (IF values = <<>> THEN <<>> ELSE <<" ">> \o values)

\* line(raw, timestamp)
Stamped(raw) == raw \o <<" ", Timestamp>>

\* operator=: res += other.res
Assign(old, other) == old \o other

\* Mutant: the batch runs its lines together.
RunTogether(texts) == FlattenSeq(texts)

\* The body of a batch: *w += v; *w += '\n'.
BatchBody(texts) == FlattenSeq([i \in DOMAIN texts |-> texts[i] \o <<Newline>>])

-----------------------------------------------------------------------------
(* How a server reads a text *)

\* A separator starts a new piece, any other token goes to the last one.
Cut(pieces, token, separator) ==
  IF token = separator THEN Append(pieces, <<>>)
  ELSE [pieces EXCEPT ![Len(pieces)] = Append(@, token)]

\* The pieces of a text between its separators, empty ones included.
Pieces(text, separator) ==
  LET pieces[n \in 0 .. Len(text)] ==
        IF n = 0 THEN << <<>> >> ELSE Cut(pieces[n - 1], text[n], separator)
  IN pieces[Len(text)]

\* In place of a line that the server refuses: a point needs a value.
Refused == [tags |-> <<>>, values |-> <<>>, measurement |-> <<>>, stamped |-> FALSE]

\* measurement,tag,tag value,value timestamp
ReadLine(text) ==
  LET parts == Pieces(text, " ")
      head == Pieces(parts[1], ",")
      stamped == Last(parts) = <<Timestamp>>
      rest == SubSeq(parts, 2, IF stamped THEN Len(parts) - 1 ELSE Len(parts))
      fields == IF rest = <<>> THEN <<>> ELSE rest[1]
  IN IF fields = <<>> THEN Refused
     ELSE [tags |-> Tail(head),
           values |-> Pieces(fields, ","),
           measurement |-> head[1],
           stamped |-> stamped]

\* What is read of a text, line by line; blank lines are skipped.
Read(text) ==
  LET lines == Pieces(text, Newline)
  IN FlattenSeq([i \in DOMAIN lines |->
                   IF lines[i] = <<>> THEN <<>> ELSE <<ReadLine(lines[i])>>])

=============================================================================
