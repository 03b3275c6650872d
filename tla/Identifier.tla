---------------------------- MODULE Identifier ----------------------------
(***************************************************************************)
(* Which names and keys input_sanitizer.cpp accepts: the regular           *)
(* expression  ^[a-zA-Z0-9_\-]+$|"(?:[^\\"]|\\.)+"  as the automaton that  *)
(* std::regex_match runs over the whole text.                              *)
(***************************************************************************)
EXTENDS Integers, Sequences, FiniteSets

Quote == "quote"
Backslash == "backslash"
Newline == "newline"

\* "word" stands for the letters, digits, "_" and "-", "other" for the rest.
Chars == {"word", "other", Quote, Backslash, Newline}

\* Mutant: [^"] for [^\\"], a backslash needs no partner.
StepUnescaped(state, c) ==
  CASE state = "start" /\ c = "word" -> "word"
    [] state = "word" /\ c = "word" -> "word"
    [] state = "start" /\ c = Quote -> "open"
    [] state \in {"open", "body"} /\ c # Quote -> "body"
    [] state = "body" /\ c = Quote -> "closed"
    [] OTHER -> "dead"

Step(state, c) ==
  CASE state = "start" /\ c = "word" -> "word"
    [] state = "word" /\ c = "word" -> "word"
    [] state = "start" /\ c = Quote -> "open"
    [] state \in {"open", "body"} /\ c = Backslash -> "escape"
    [] state \in {"open", "body"} /\ c \notin {Quote, Backslash} -> "body"
    [] state = "body" /\ c = Quote -> "closed"
    [] state = "escape" /\ c # Newline -> "body"
    [] OTHER -> "dead"

\* The state before the first character, and after each.
StatesOf(text) ==
  LET state[n \in 0 .. Len(text)] ==
        IF n = 0 THEN "start" ELSE Step(state[n - 1], text[n])
  IN state

valid_identifier(text) == StatesOf(text)[Len(text)] \in {"word", "closed"}

-----------------------------------------------------------------------------
(* How a reader that knows quotes and backslashes sees a text *)

\* A character is escaped by an odd number of backslashes before it.
Escaped(text, j) ==
  LET run == {i \in 1 .. j - 1 : \A k \in i .. j - 1 : text[k] = Backslash}
  IN Cardinality(run) % 2 = 1

Closes(text, j) == j > 1 /\ text[j] = Quote /\ ~Escaped(text, j)

\* The text is one quoted name: its first closing quote is its last character.
OneQuotedName(text) ==
  /\ Len(text) > 2 /\ Head(text) = Quote
  /\ \A j \in DOMAIN text : Closes(text, j) <=> j = Len(text)

OneWord(text) == text # <<>> /\ \A j \in DOMAIN text : text[j] = "word"

=============================================================================
