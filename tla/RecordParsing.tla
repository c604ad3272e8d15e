---------------------------- MODULE RecordParsing ----------------------------
(***************************************************************************)
(* The parser of ingestion/models.py: which rows of a response become      *)
(* state vectors, which are rejected, which make the whole fetch fail, and *)
(* which the table refuses afterwards; and the loops of parse_states and   *)
(* deduplicate, for which Ingestion has Valid, Rejected, Unique, Repeats.  *)
(*                                                                         *)
(* A row is what the JSON decoder delivers as a member of `states`: its    *)
(* shape, and the values in its cells.  A value is the class of values     *)
(* that the parser and the table treat alike.  "in" and "out" are numbers  *)
(* within and beyond what the field admits, huge an integer that no float  *)
(* can hold.  A text may be blank; or long: refused by the CHECK on icao24 *)
(* for its length or its case; or contain nul, which PostgreSQL does not   *)
(* store; or an unpaired surrogate, which the driver cannot encode.        *)
(* Fields that the code treats alike are one: latitude as longitude;       *)
(* geo_altitude, velocity and vertical_rate as baro_altitude;              *)
(* origin_country and squawk as callsign.                                  *)
(***************************************************************************)
EXTENDS Ingestion

Numbers == {"in", "out", "huge", "inf", "nan"}
Texts == {"text", "blank", "long", "nul", "surrogate"}
Values == Numbers \cup Texts \cup {"null", "true", "array"}

\* In the order in which parse_state_vector comes to them.
Fields == <<"icao24", "last_contact", "time_position", "on_ground",
            "longitude", "true_track", "callsign", "baro_altitude",
            "position_source", "category">>
FieldSet == {Fields[i] : i \in DOMAIN Fields}

\* What is no array, an array below MIN_FIELDS, one that lacks its last
\* field, category, and one that lacks none.
Shapes == {"not_array", "too_short", "uncategorised", "whole"}

Row == [shape : Shapes, cell : [FieldSet -> Values]]

\* category is None in a row that does not have it.
Cell(row, f) ==
  IF f = "category" /\ row.shape = "uncategorised" THEN "null" ELSE row.cell[f]

-----------------------------------------------------------------------------
(* What becomes of one field: "ok", "rejected" (ParseError), or "raises",  *)
(* an exception that parse_states does not catch.                          *)

Icao24(v) == IF v \in Texts \ {"blank"} THEN "ok" ELSE "rejected"

\* Conversion and fromtimestamp are inside the try block.
Epoch(v) == IF v = "in" THEN "ok" ELSE "rejected"

OptionalEpoch(v) == IF v = "null" THEN "ok" ELSE Epoch(v)

OnGround(v) == IF v = "true" THEN "ok" ELSE "rejected"

\* float() of an integer too large for it raises OverflowError.
OptionalFloat(v) ==
  CASE v \in {"null", "in", "out"} -> "ok"
    [] v = "huge" -> "raises"
    [] OTHER -> "rejected"

Bounded(v) == IF v = "out" THEN "rejected" ELSE OptionalFloat(v)

OptionalText(v) == IF v \in Texts \cup {"null"} THEN "ok" ELSE "rejected"

\* int() of an infinity or a NaN raises; any integer passes.
OptionalInt(v) ==
  CASE v \in {"null", "in", "out", "huge"} -> "ok"
    [] v \in {"inf", "nan"} -> "raises"
    [] OTHER -> "rejected"

FieldVerdict(f, v) ==
  CASE f = "icao24" -> Icao24(v)
    [] f = "last_contact" -> Epoch(v)
    [] f = "time_position" -> OptionalEpoch(v)
    [] f = "on_ground" -> OnGround(v)
    [] f \in {"longitude", "true_track"} -> Bounded(v)
    [] f = "callsign" -> OptionalText(v)
    [] f = "baro_altitude" -> OptionalFloat(v)
    [] f \in {"position_source", "category"} -> OptionalInt(v)

\* The first field that is not in order decides.
FirstVerdict(row) ==
  LET faulty == {i \in DOMAIN Fields :
                   FieldVerdict(Fields[i], Cell(row, Fields[i])) # "ok"}
  IN IF faulty = {} THEN "ok"
     ELSE LET i == CHOOSE i \in faulty : \A j \in faulty : i <= j
          IN FieldVerdict(Fields[i], Cell(row, Fields[i]))

\* Mutant: nobody measures the row, and reading past its end raises IndexError.
RowVerdictUnmeasured(row) ==
  CASE row.shape = "not_array" -> "rejected"
    [] row.shape = "too_short" -> "raises"
    [] OTHER -> FirstVerdict(row)

\* The shape is looked at before any field.
RowVerdict(row) ==
  IF row.shape \in {"not_array", "too_short"} THEN "rejected"
                                             ELSE FirstVerdict(row)

-----------------------------------------------------------------------------
(* What the columns and CHECKs of raw.state_vectors take of a parsed row.  *)

ColumnTakes(f, v) ==
  CASE f = "icao24" -> v = "text"
    [] f = "last_contact" -> v = "in"
    [] f = "time_position" -> v \in {"null", "in"}
    [] f = "on_ground" -> v = "true"
    [] f \in {"longitude", "true_track"} -> v \in {"null", "in"}
    [] f = "callsign" -> v \notin {"nul", "surrogate"}
    [] f = "baro_altitude" -> TRUE
    [] f \in {"position_source", "category"} -> v \in {"null", "in"}

TableTakes(row) == \A f \in FieldSet : ColumnTakes(f, Cell(row, f))

-----------------------------------------------------------------------------
(* The loops, on a body whose rows parse to their keys or are rejected.    *)

\* What the loops have built before the first row.
Empty == [rejected |-> 0, seen |-> {}, kept |-> {}, duplicates |-> 0]

\* Mutant: the last occurrence of a key wins.
AddLastWins(out, s, i) ==
  IF s[i] = Malformed
    THEN [out EXCEPT !.rejected = @ + 1]
    ELSE IF s[i] \in out.seen
      THEN [out EXCEPT !.duplicates = @ + 1,
                       !.kept = {j \in @ : s[j] # s[i]} \cup {i}]
      ELSE [out EXCEPT !.seen = @ \cup {s[i]}, !.kept = @ \cup {i}]

\* One row: parse_states appends it to one of its lists, deduplicate keeps it
\* unless its key has been seen.
Add(out, s, i) ==
  IF s[i] = Malformed
    THEN [out EXCEPT !.rejected = @ + 1]
    ELSE IF s[i] \in out.seen
      THEN [out EXCEPT !.duplicates = @ + 1]
      ELSE [out EXCEPT !.seen = @ \cup {s[i]}, !.kept = @ \cup {i}]

Loops(s) ==
  LET after[i \in 0..Len(s)] ==
        IF i = 0 THEN Empty ELSE Add(after[i - 1], s, i)
  IN after[Len(s)]

-----------------------------------------------------------------------------
(* Checked for every row and every body below, in the initial states.      *)

GoodCells ==
  [f \in FieldSet |-> CASE f = "on_ground" -> "true"
                        [] f \in {"icao24", "callsign"} -> "text"
                        [] OTHER -> "in"]

\* A whole row with one odd field.
OddRow(f, v) == [shape |-> "whole", cell |-> [GoodCells EXCEPT ![f] = v]]

\* Rows of every shape with at most two odd fields.
Rows ==
  {[shape |-> s, cell |-> [GoodCells EXCEPT ![f] = v, ![g] = w]] :
     s \in Shapes, f \in FieldSet, g \in FieldSet, v \in Values, w \in Values}

\* parse_states goes on after the row, and the table will not refuse it.
FailsAlone(row) ==
  RowVerdict(row) = "rejected" \/ (RowVerdict(row) = "ok" /\ TableTakes(row))

\* What parser and table leave to each other.
Gaps ==
  ({"icao24"} \X {"long", "nul", "surrogate"})
  \cup ({"callsign"} \X {"nul", "surrogate"})
  \cup ({"longitude", "true_track", "baro_altitude"} \X {"huge"})
  \cup ({"position_source", "category"} \X {"out", "huge", "inf", "nan"})

HasGap(row) == \E f \in FieldSet : <<f, Cell(row, f)>> \in Gaps

BodiesUpTo(n) ==
  UNION {[1..m -> Keys \cup {Malformed}] : m \in 0..n}

NotStarted == \A r \in Runs : pc[r] = "idle"

\* "One bad row never fails the batch" (ingestion/models.py:219) holds but for
\* the gaps, each of which fails it: among the shapes and classes above, the
\* parser's checks, its exceptions and the table leave no other, whichever two
\* fields are odd.
OneBadRowFailsAlone ==
  NotStarted =>
    /\ \A row \in Rows : FailsAlone(row) \/ HasGap(row)
    /\ \A gap \in Gaps : ~FailsAlone(OddRow(gap[1], gap[2]))

\* The two loops compute what the executions of Ingestion load and count:
\* first occurrences, rejected rows and repeats, on every body of up to five
\* rows (ingestion/models.py:225-251).
LoopsKeepFirst ==
  NotStarted =>
    \A s \in BodiesUpTo(5) :
      LET out == Loops(s)
      IN /\ out.kept = Unique(s)
         /\ out.rejected = Cardinality(Rejected(s))
         /\ out.duplicates = Cardinality(Repeats(s))
         /\ out.rejected + out.duplicates + Cardinality(out.kept) = Len(s)
=============================================================================
