----------------------------- MODULE CoreConfigMC -----------------------------
(***************************************************************************)
(* Instances of CoreConfig for TLC: around the limits of two packages, all *)
(* the combinations of the four keys that are checked against one another, *)
(* one bad value for each of the other checks, and values that the         *)
(* conversion to int32 changes.                                            *)
(***************************************************************************)
EXTENDS CoreConfig

Value(kind, n) == [kind |-> kind, number |-> n]

Supplied(n) == IF n = Absent THEN Absent ELSE Value("integer", n)

Input(beam, context, pinyin, history, slack, accept) ==
  [int |-> [k \in IntKeys |->
              CASE k = "beam_size"          -> Supplied(beam)
                [] k = "max_context_length" -> Supplied(context)
                [] k = "max_pinyin_length"  -> Supplied(pinyin)
                [] k = "max_history_length" -> Supplied(history)
                [] k = "slack_interval"     -> Supplied(slack)
                [] k = "min_accept_context" -> Supplied(accept)],
   object |-> TRUE, schema |-> TRUE, decay |-> "valid"]

Legal == Input(2, 7, 2, 3, 1, 1)

\* A package with room for both windows, and one a single position too short for
\* the defaults to be legal.
MCModels == {[pre |-> 8, post |-> 2, batch |-> 2], [pre |-> 8, post |-> 6, batch |-> 2]}

\* The difference of two integers that are one int32.
Width == 2 * (IntMax + 1)

MCValues ==
  {Value("integer", n + w) : n \in {-1, 1, 2, 7}, w \in {Width, -Width}} \cup
  {Value("real", n) : n \in {-Width, 0, 1, 2, 7, Width}} \cup
  {Value("boolean", 0), Value("boolean", 1), Value("other", 0)}

MCInputs ==
  {Input(2, c, p, h, s, 1) : c \in {Absent, -1, 6, 7, 8}, p \in {Absent, 0, 1, 2, 3},
                             h \in {Absent, 0, 1, 2, 3, 4, 5}, s \in {Absent, -1, 0, 2, 3}}
  \cup {Input(b, 7, 2, 3, 1, a) : b \in {Absent, -1, 1}, a \in {Absent, 0, 1}}
  \cup {[Legal EXCEPT !.int[k] = v] :
          k \in IntKeys \ {"max_context_length"}, v \in MCValues}
  \cup {[Legal EXCEPT !.int["max_context_length"] = v] :
          v \in MCValues \ {Value("real", Width)}}
  \cup {[Legal EXCEPT !.object = FALSE], [Legal EXCEPT !.schema = FALSE],
        [Legal EXCEPT !.decay = "out_of_range"], [Legal EXCEPT !.decay = "other"]}
=============================================================================
