------------------------------- MODULE CLines -------------------------------
(***************************************************************************)
(* A lines handle of the C interface, with the two key value pair handles  *)
(* its lines are made from, and the window of an asynchronous client that  *)
(* the texts are inserted into.                                            *)
(*                                                                         *)
(* An addition with an invalid key or measurement throws inside, prints    *)
(* and returns as if nothing had happened; the history variables tags,     *)
(* values and points hold what the additions that did not throw have said. *)
(***************************************************************************)
EXTENDS LineText

CONSTANTS
  Measurements,      \* valid ones
  Pairs,             \* bound: the key=value pairs that are added, in this order
  Raws,              \* texts of new_raw()
  window_max_lines,  \* of the client's batch_config
  MaxText            \* bound: tokens of the handle's text and the window's

Reserved == {",", " ", Newline, Timestamp}

\* Tokens are told apart, and the raw texts bring no timestamp of their own.
ASSUME TextAssumption ==
  /\ Measurements \cap Reserved = {} /\ Range(Pairs) \cap Reserved = {}
  /\ \A raw \in Raws : raw \in Seq(Range(raw)) /\ Timestamp \notin Range(raw)

VARIABLES
  tags_kvp, values_kvp,          \* the texts of the two pair handles
  tags, values,                  \* the pairs added to them
  line_obj,                      \* the text of the lines handle
  points,                        \* the points added to it
  cached_string, string_cached,  \* its cache
  window                         \* what was inserted: text, points, and if it was stamped

pairVars == <<tags_kvp, tags, values_kvp, values>>
handleVars == <<line_obj, points, cached_string, string_cached>>
vars == <<pairVars, handleVars, window>>

-----------------------------------------------------------------------------

Init ==
  /\ tags_kvp = <<>> /\ tags = <<>> /\ values_kvp = <<>> /\ values = <<>>
  /\ line_obj = <<>> /\ points = <<>>
  /\ cached_string = <<>> /\ string_cached = FALSE
  /\ window = <<>>

Texts == [i \in DOMAIN window |-> window[i].text]

\* bound: the text of the handle and of the window is short
Room == Len(line_obj) + Len(BatchBody(Texts)) < MaxText

NextPair(pair) ==
  LET n == Len(tags) + Len(values) + 1 IN n \in DOMAIN Pairs /\ pair = Pairs[n]

\* key_value_pairs_add_*(): an invalid key throws before anything is changed.
add_tag(pair) ==
  /\ NextPair(pair)
  /\ tags_kvp' = AddPair(tags_kvp, pair) /\ tags' = Append(tags, <<pair>>)
  /\ UNCHANGED <<values_kvp, values, handleVars, window>>

add_value(pair) ==
  /\ NextPair(pair)
  /\ values_kvp' = AddPair(values_kvp, pair) /\ values' = Append(values, <<pair>>)
  /\ UNCHANGED <<tags_kvp, tags, handleVars, window>>

key_value_pairs_new ==
  /\ tags_kvp' = <<>> /\ tags' = <<>> /\ values_kvp' = <<>> /\ values' = <<>>
  /\ UNCHANGED <<handleVars, window>>

\* A fresh handle: lines_new(), new_raw() and new_measurement(), which returns
\* no handle for an invalid measurement.
Fresh(text, said) ==
  /\ Room
  /\ line_obj' = Assign(<<>>, text) /\ points' = said
  /\ string_cached' = FALSE /\ cached_string' = <<>>
  /\ UNCHANGED <<pairVars, window>>

\* What a line of the two pair handles says: nothing that a server takes, unless
\* it has a value.
Point(m) ==
  IF values = <<>> THEN Refused
  ELSE [tags |-> tags, values |-> values, measurement |-> <<m>>, stamped |-> FALSE]

RawPoints == [raw \in Raws |-> Read(raw)]

lines_new == Fresh(<<>>, <<>>)
lines_new_raw(raw) == Fresh(raw, RawPoints[raw])
lines_new_measurement(m) == Fresh(LineOf(m, tags_kvp, values_kvp), <<Point(m)>>)

\* Mutant: the newline comes after the line.
AddLineThenNewline(m) ==
  /\ Room
  /\ line_obj' = line_obj \o LineOf(m, tags_kvp, values_kvp) \o <<Newline>>
  /\ points' = Append(points, Point(m))
  /\ string_cached' = FALSE
  /\ UNCHANGED <<pairVars, cached_string, window>>

\* Mutant: the cache is kept.
AddLineStale(m) ==
  /\ Room
  /\ line_obj' = line_obj \o <<Newline>> \o LineOf(m, tags_kvp, values_kvp)
  /\ points' = Append(points, Point(m))
  /\ UNCHANGED <<pairVars, cached_string, string_cached, window>>

\* lines_add_line(): line_obj(measurement, tags, values).
lines_add_line(m) ==
  /\ Room
  /\ line_obj' = line_obj \o <<Newline>> \o LineOf(m, tags_kvp, values_kvp)
  /\ points' = Append(points, Point(m))
  /\ string_cached' = FALSE
  /\ UNCHANGED <<pairVars, cached_string, window>>

\* Mutant: the cache is reset although nothing was added.
AddInvalidResets ==
  /\ Room
  /\ line_obj' = Append(line_obj, Newline)
  /\ string_cached' = FALSE
  /\ UNCHANGED <<pairVars, points, cached_string, window>>

\* The same with an invalid measurement: operator() has pushed its newline when
\* the constructor throws, and the cache is not reset.
lines_add_invalid ==
  /\ Room
  /\ line_obj' = Append(line_obj, Newline)
  /\ UNCHANGED <<pairVars, points, cached_string, string_cached, window>>

Cache == IF string_cached THEN cached_string ELSE line_obj

\* lines_get(), which lines_get_copy() calls.
lines_get ==
  /\ cached_string' = Cache /\ string_cached' = TRUE
  /\ UNCHANGED <<pairVars, line_obj, points, window>>

\* The text is copied into the client's queue: the handle may change after.
Insert(text, said, stamped) ==
  /\ Room
  /\ Len(window) < window_max_lines
  /\ window' = Append(window, [text |-> text, points |-> said, stamped |-> stamped])
  /\ UNCHANGED <<pairVars, handleVars>>

insert(raw) == Insert(raw, RawPoints[raw], FALSE)
insert_default_timestamp(raw) == Insert(Stamped(raw), RawPoints[raw], TRUE)
insert_lines == Insert(line_obj, points, FALSE)
insert_lines_default_timestamp == Insert(Stamped(line_obj), points, TRUE)

Next ==
  \/ \E pair \in Range(Pairs) : add_tag(pair) \/ add_value(pair)
  \/ key_value_pairs_new
  \/ lines_new
  \/ \E raw \in Raws :
       lines_new_raw(raw) \/ insert(raw) \/ insert_default_timestamp(raw)
  \/ \E m \in Measurements : lines_new_measurement(m) \/ lines_add_line(m)
  \/ lines_add_invalid
  \/ lines_get
  \/ insert_lines \/ insert_lines_default_timestamp

Spec == Init /\ [][Next]_vars

-----------------------------------------------------------------------------
(* Properties *)

\* The timestamp is appended to the whole text.  When the text has no line, or
\* ends in the newline of a failed addition, it becomes a line of its own.
StampLost(entry) ==
  Len(entry.text) = 2 \/ entry.text[Len(entry.text) - 2] = Newline

WithStamp(point) == IF point = Refused THEN Refused ELSE [point EXCEPT !.stamped = TRUE]

\* What the server is to make of an insertion.  A lost timestamp leaves the
\* points as they are, and the server refuses the line that it has become.
Expected(entry) ==
  CASE ~entry.stamped -> entry.points
    [] entry.stamped /\ StampLost(entry) -> Append(entry.points, Refused)
    [] entry.stamped /\ ~StampLost(entry) ->
         [entry.points EXCEPT ![Len(entry.points)] = WithStamp(@)]

\* From the C calls to the server: what it reads from the body of a batch are
\* the points that were added, in order, each with its own tags and values and
\* the last one with the timestamp, whatever additions have failed in between;
\* it refuses the lines without values and the timestamps on their own, and
\* nothing else.
BatchSays ==
  Read(BatchBody(Texts)) = FlattenSeq([i \in DOMAIN window |-> Expected(window[i])])

\* lines_get(): the cached text may lag behind the handle's, after an addition
\* that failed, but has all its points.
CacheShowsAll == string_cached => Read(cached_string) = points

\* lines_get(): the pointer it returned stays good until a point is added, since
\* a later call writes over its text only if the text lacks a point.
PointerLasts ==
  [][lines_get /\ cached_string \notin {<<>>, cached_string'}
       => Read(cached_string) # points]_vars

=============================================================================
