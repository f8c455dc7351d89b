------------------------------ MODULE CoreConfig ------------------------------
(***************************************************************************)
(* The runtime limits of sessions and managers: parse_core_config and      *)
(* default_core_config of src/src/core/config.cpp.                         *)
(*                                                                         *)
(* A client supplies some of the keys as JSON values, which are converted  *)
(* to int32; the rest are derived from the model, and the whole is checked *)
(* in a fixed order.  Every session and manager of the process is created  *)
(* with a config this accepted; the other modules assume what accepting it *)
(* establishes.                                                            *)
(***************************************************************************)
EXTENDS Integers

CONSTANTS
  IntMax,   \* largest int32
  Absent,   \* a key that is not in the JSON object
  Models,   \* bound: the model packages, by their hard limits
  Inputs    \* bound: the JSON objects, by the values of their integer keys and the other checks

\* The package's shape fields have no check of their own; an exported program
\* has at least one position and one lane.
ModelType == [pre : 1 .. IntMax, post : 1 .. IntMax, batch : 1 .. IntMax]

Int32 == -IntMax - 1 .. IntMax

IntKeys == {"beam_size", "max_context_length", "max_pinyin_length",
            "max_history_length", "slack_interval", "min_accept_context"}

\* A JSON value.  `number` is that of an integer of at most 64 bits, the integer part of
\* a number with a fraction or an exponent, 1 or 0 for true and false, and idle for null,
\* a string, an array or an object.
ValueType == [kind : {"integer", "real", "boolean", "other"}, number : Int]

\* object: an object whose schema_version, if any, is a string.  decay: the ratio and the
\* two rates together; "other": one of them is no number.
InputType == [int : [IntKeys -> ValueType \cup {Absent}], object : BOOLEAN,
              schema : BOOLEAN, decay : {"valid", "out_of_range", "other"}]

ASSUME ConfigEnvironment ==
  /\ IntMax \in Nat /\ IntMax > 8
  /\ Models \subseteq ModelType
  /\ \A input \in Inputs : input \in InputType

VARIABLES
  model,    \* the loaded package
  config,   \* the config last accepted, or Absent
  status    \* what the last parse returned

vars == <<model, config, status>>

Smaller(a, b) == IF a <= b THEN a ELSE b
Larger(a, b)  == IF a >= b THEN a ELSE b

\* From the model alone.
default_core_config(m) ==
  LET context == m.pre - 1
      history == Larger(1, context - m.post - 1)
  IN  [k \in IntKeys |->
        CASE k = "beam_size"          -> m.batch
          [] k = "max_context_length" -> context
          [] k = "max_pinyin_length"  -> m.post
          [] k = "max_history_length" -> history
          [] k = "slack_interval"     -> Larger(0, Smaller(8, history - 1))
          [] k = "min_accept_context" -> 8]

\* What the language leaves to the build: whether int32 arithmetic wraps, and whether a
\* float beyond int32 becomes the nearest one or the smallest.
Builds == [wraps : BOOLEAN, saturates : BOOLEAN]

\* object.value(key, int32_t): any number or boolean is converted, whatever it loses.
Converted(value, build) ==
  IF value.number \in Int32 THEN value.number
  ELSE IF value.kind # "real" THEN ((value.number + IntMax + 1) % (2 * (IntMax + 1))) - IntMax - 1
  ELSE IF build.saturates /\ value.number > 0 THEN IntMax
  ELSE -IntMax - 1

\* The supplied keys over the defaults.
Candidate(m, input, build) ==
  [k \in IntKeys |-> IF input.int[k] = Absent THEN default_core_config(m)[k]
                     ELSE Converted(input.int[k], build)]

\* max_context_length + 1 > pre_max in int32: past the largest integer the sum is
\* undefined, and a build may wrap it or compare without it.
BeyondCache(c, m, build) ==
  IF c["max_context_length"] = IntMax /\ build.wraps THEN FALSE
  ELSE c["max_context_length"] + 1 > m.pre

\* Mutant: a full pinyin window may end one position beyond the context.
WindowTooLarge_OffByOne(c) ==
  \/ c["max_history_length"] > c["max_context_length"]
  \/ c["max_history_length"] > c["max_context_length"] - c["max_pinyin_length"] + 1

WindowTooLarge(c) ==
  \/ c["max_history_length"] > c["max_context_length"]
  \/ c["max_history_length"] >= c["max_context_length"] - c["max_pinyin_length"]

\* Mutant: a slack as long as the history is refused only beyond it.
SlackOutOfRange_Inclusive(c) ==
  c["slack_interval"] < 0 \/ c["slack_interval"] > c["max_history_length"]

SlackOutOfRange(c) ==
  c["slack_interval"] < 0 \/ c["slack_interval"] >= c["max_history_length"]

\* The first check that fails.
Check(c, m, build) ==
  IF c["beam_size"] <= 0 \/ c["beam_size"] # m.batch THEN "BeamSizeMismatch"
  ELSE IF c["max_context_length"] < 0 \/ BeyondCache(c, m, build)
  THEN "MaxContextLengthExceeded"
  ELSE IF c["max_pinyin_length"] <= 0 \/ c["max_pinyin_length"] > m.post
  THEN "MaxPinyinLengthInvalid"
  ELSE IF c["max_history_length"] <= 0 \/ WindowTooLarge(c)
  THEN "MaxHistoryLengthInvalid"
  ELSE IF SlackOutOfRange(c) THEN "SlackInvalid"
  ELSE IF c["min_accept_context"] <= 0 THEN "MinAcceptContextInvalid"
  ELSE "Ok"

\* A value that is no number throws, after the version was looked at.
Throws(input) ==
  input.decay = "other" \/ \E k \in IntKeys : input.int[k] # Absent /\ input.int[k].kind = "other"

Parsed(m, input, build) ==
  IF ~input.object THEN "InvalidJson"
  ELSE IF ~input.schema THEN "UnsupportedSchemaVersion"
  ELSE IF Throws(input) THEN "InvalidJson"
  ELSE LET checked == Check(Candidate(m, input, build), m, build)
       IN  IF checked = "Ok" /\ input.decay # "valid" THEN "DecayInvalid" ELSE checked

parse_core_config ==
  \E input \in Inputs, build \in Builds :
    /\ status' = Parsed(model, input, build)
    /\ config' = IF status' = "Ok" THEN Candidate(model, input, build) ELSE config
    /\ UNCHANGED model

Init ==
  /\ model \in Models
  /\ config = Absent
  /\ status = "Ok"

Spec == Init /\ [][parse_core_config]_vars

-----------------------------------------------------------------------------
(* Properties *)

Fits(c, m) ==
  /\ c["beam_size"] = m.batch
  /\ c["max_context_length"] < m.pre
  /\ 1 <= c["max_pinyin_length"] /\ c["max_pinyin_length"] <= m.post
  /\ 0 <= c["slack_interval"] /\ c["slack_interval"] < c["max_history_length"]
  /\ c["max_history_length"] + c["max_pinyin_length"] + 1 < m.pre
  /\ c["min_accept_context"] >= 1

\* A config in use leaves room, in the model's cache, for BOS, a full history and a
\* full pinyin window, and an eviction always frees something and keeps something:
\* the assumptions SlotConfig and SessionConfig of the other modules.
AcceptedConfigFits == config # Absent => Fits(config, model)

\* core-config.md's table.
DocumentedRange(c, m) ==
  /\ c["beam_size"] = m.batch
  /\ c["slack_interval"] \in 0 .. c["max_history_length"] - 1
  /\ c["min_accept_context"] > 0
  /\ c["max_context_length"] <= m.pre - 1
  /\ c["max_history_length"] < c["max_context_length"] - c["max_pinyin_length"]
  /\ c["max_pinyin_length"] \in 1 .. m.post

Complete(input) ==
  /\ input.object /\ input.schema /\ input.decay = "valid"
  /\ \A k \in IntKeys : input.int[k] # Absent

Numbers(input) == [k \in IntKeys |-> input.int[k].number]

\* The client wrote what the table allows, before any conversion.
Documented(input, m) ==
  /\ \A k \in IntKeys : input.int[k].kind = "integer"
  /\ DocumentedRange(Numbers(input), m)

\* The order of the checks and their early returns refuse no complete config of the
\* table, of int32 values, and let none through that is read as one outside it.
AcceptsWhatIsDocumented ==
  \A input \in Inputs, build \in Builds :
    Complete(input) =>
      /\ Documented(input, model) /\ (\A k \in IntKeys : Numbers(input)[k] \in Int32)
           => Parsed(model, input, build) = "Ok"
      /\ Parsed(model, input, build) = "Ok"
           => DocumentedRange(Candidate(model, input, build), model)
=============================================================================
