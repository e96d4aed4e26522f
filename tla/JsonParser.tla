------------------------------ MODULE JsonParser ------------------------------
(***************************************************************************)
(* The JSON parser of webd (json.cpp), one token at a time.  A string, a   *)
(* number and a literal are a token each, "bad" one that its own function  *)
(* refuses; brackets have their names in RFC 8259.  The text is chosen     *)
(* while it is read.                                                       *)
(***************************************************************************)
EXTENDS Naturals, Sequences, SequencesExt

CONSTANT MaxTokens   \* bound: tokens of a text

ASSUME JsonAssumption == MaxTokens \in Nat \ {0}

VARIABLES json,   \* what the parser looks for
          open,   \* the ends of the objects and arrays it is in
          text,   \* the tokens read
          ended   \* the text has no more

jsonVars == <<json, open, text, ended>>

Tokens == {"begin-object", "end-object", "begin-array", "end-array", "colon", "comma",
           "string", "scalar", "bad"}

JsonInit == json = "value" /\ open = <<>> /\ text = <<>> /\ ended = FALSE

Done == json \in {"accepted", "refused"}

Goes(place, stack) == json' = place /\ open' = stack

(* After a value: the container it is in goes on.                          *)
Closed(stack) == Goes(IF stack = <<>> THEN "end" ELSE "after", stack)

Value(t) ==
  \/ t = "begin-object" /\ Goes("first-key", Append(open, "end-object"))
  \/ t = "begin-array" /\ Goes("first-item", Append(open, "end-array"))
  \/ t \in {"string", "scalar"} /\ Closed(open)
  \/ t \notin {"begin-object", "begin-array", "string", "scalar"} /\ Goes("refused", open)

ParseValue(t) == json = "value" /\ Value(t)

ParseKey(t) ==
  /\ json = "key"
  /\ Goes(IF t = "string" THEN "colon" ELSE "refused", open)

ParseColon(t) ==
  /\ json = "colon"
  /\ Goes(IF t = "colon" THEN "value" ELSE "refused", open)

(* The first turn of ParseObject and of ParseArray.                        *)
ParseFirst(t) ==
  \/ /\ json = "first-key"
     /\ IF t = "end-object" THEN Closed(Front(open))
        ELSE Goes(IF t = "string" THEN "colon" ELSE "refused", open)
  \/ /\ json = "first-item"
     /\ \/ t = "end-array" /\ Closed(Front(open))
        \/ t # "end-array" /\ Value(t)

(* mutant: a closing bracket is taken behind a comma                       *)
ParseNextTrailing(t) ==
  /\ json = "after"
  /\ \/ t = Last(open) /\ Closed(Front(open))
     \/ t = "comma" /\ Goes(IF Last(open) = "end-object" THEN "key" ELSE "first-item", open)
     \/ t \notin {Last(open), "comma"} /\ Goes("refused", open)

(* And their ends of a turn.                                               *)
ParseNext(t) ==
  /\ json = "after"
  /\ \/ t = Last(open) /\ Closed(Front(open))
     \/ t = "comma" /\ Goes(IF Last(open) = "end-object" THEN "key" ELSE "value", open)
     \/ t \notin {Last(open), "comma"} /\ Goes("refused", open)

(* Parse, behind the value.                                                *)
ParseTrailing(t) == json = "end" /\ Goes("refused", open)

ReadToken(t) ==
  /\ ~Done /\ Len(text) < MaxTokens
  /\ \/ ParseValue(t) \/ ParseKey(t) \/ ParseColon(t) \/ ParseFirst(t)
     \/ ParseNext(t) \/ ParseTrailing(t)
  /\ text' = Append(text, t)
  /\ UNCHANGED ended

TextEnds ==
  /\ ~Done
  /\ Goes(IF json = "end" THEN "accepted" ELSE "refused", open)
  /\ ended' = TRUE
  /\ UNCHANGED text

JsonNext == (\E t \in Tokens : ReadToken(t)) \/ TextEnds

JsonSpec == JsonInit /\ [][JsonNext]_jsonVars

-----------------------------------------------------------------------------
(* The reference: the grammar of JSON, as the sets of values, of lists of  *)
(* values and of lists of members with 1, 2 ... tokens; those with fewer   *)
(* than n are in the table.                                                *)
Within(begin, list, end) == <<begin>> \o list \o <<end>>
Named(value) == <<"string">> \o (<<"colon">> \o value)
Joined(first, rest) == first \o <<"comma">> \o rest

Values(table, n) ==
  IF n = 1 THEN {<<"string">>, <<"scalar">>}
  ELSE IF n = 2 THEN {<<"begin-array", "end-array">>, <<"begin-object", "end-object">>}
  ELSE {Within("begin-array", i, "end-array") : i \in table[n - 2].items}
         \cup {Within("begin-object", m, "end-object") : m \in table[n - 2].members}

Member(table, n) == IF n < 3 THEN {} ELSE {Named(v) : v \in table[n - 2].values}

Lists(firsts, rests) == {Joined(f, r) : f \in firsts, r \in rests}

OfLength(table, n) ==
  [values  |-> Values(table, n),
   items   |-> Values(table, n)
                 \cup UNION {Lists(table[k].values, table[n - k - 1].items) : k \in 1 .. n - 2},
   members |-> Member(table, n)
                 \cup UNION {Lists(Member(table, k), table[n - k - 1].members) : k \in 1 .. n - 2}]

(* The sets for each length up to n.                                       *)
Grammar[n \in Nat] ==
  IF n = 0 THEN <<>>
  ELSE LET shorter == Grammar[n - 1] IN Append(shorter, OfLength(shorter, n))

Texts == UNION {Grammar[MaxTokens][n].values : n \in 1 .. MaxTokens}

(* The parser accepts the texts of the grammar, and refuses one as soon as *)
(* it can be none: neither a trailing comma nor a missing bracket nor      *)
(* something behind the value gets through (json.cpp:98-245).              *)
GrammarAccepted ==
  /\ json = "accepted" => text \in Texts
  /\ json = "refused" => IF ended THEN text \notin Texts
                                  ELSE \A t \in Texts : ~IsPrefix(text, t)

=============================================================================
