--------------------------- MODULE CoreConfigProofs ---------------------------
(***************************************************************************)
(* What a config that parse_core_config accepts guarantees, for every      *)
(* package and every input whose max_context_length is read as an integer  *)
(* that one can be added to.                                               *)
(***************************************************************************)
EXTENDS CoreConfig, TLAPS

NoOverflow ==
  \A input \in Inputs, build \in Builds :
    input.int["max_context_length"] = Absent \/
    Converted(input.int["max_context_length"], build) # IntMax

\* A conversion gives an integer, and an int32 is its own.
LEMMA ConvertedType ==
  ASSUME NEW value \in ValueType, NEW build \in Builds
  PROVE  /\ Converted(value, build) \in Int
         /\ value.number \in Int32 => Converted(value, build) = value.number
<1>1. IntMax \in Nat /\ value.number \in Int
  BY ConfigEnvironment DEF ValueType
<1>2. (value.number + IntMax + 1) % (2 * (IntMax + 1)) \in Int
  <2> DEFINE a == value.number + IntMax + 1
             b == 2 * (IntMax + 1)
  <2>1. a \in Int /\ b \in Int /\ b > 0
    BY <1>1
  <2> HIDE DEF a, b
  <2>2. a % b \in Int
    BY <2>1
  <2> QED BY <2>2 DEF a, b
<1> QED BY <1>1, <1>2 DEF Converted

\* The defaults and the values as read are integers, the context length not the
\* largest.
LEMMA CandidateType ==
  ASSUME NoOverflow, NEW m \in ModelType, NEW input \in Inputs, NEW build \in Builds
  PROVE  /\ Candidate(m, input, build) \in [IntKeys -> Int]
         /\ Candidate(m, input, build)["max_context_length"] # IntMax
<1>1. /\ m.pre \in 1 .. IntMax /\ m.post \in 1 .. IntMax /\ m.batch \in 1 .. IntMax
      /\ IntMax \in Nat
  BY ConfigEnvironment DEF ModelType
<1>2. default_core_config(m) \in [IntKeys -> Int]
  BY <1>1 DEF default_core_config, IntKeys, Smaller, Larger
<1>3. default_core_config(m)["max_context_length"] = m.pre - 1
  BY DEF default_core_config, IntKeys
<1>4. \A k \in IntKeys : input.int[k] # Absent => Converted(input.int[k], build) \in Int
  BY ConvertedType, ConfigEnvironment DEF InputType
<1>5. Candidate(m, input, build) \in [IntKeys -> Int]
  BY <1>2, <1>4 DEF Candidate
<1>6. Candidate(m, input, build)["max_context_length"] # IntMax
  BY <1>1, <1>3 DEF Candidate, NoOverflow, IntKeys
<1> QED BY <1>5, <1>6

\* The chain of early returns accepts exactly the documented ranges, and these fit.
LEMMA CheckFits ==
  ASSUME NEW m \in ModelType, NEW c \in [IntKeys -> Int], c["max_context_length"] # IntMax,
         NEW build
  PROVE  /\ Check(c, m, build) = "Ok" <=> DocumentedRange(c, m)
         /\ DocumentedRange(c, m) => Fits(c, m)
<1>1. /\ m.pre \in Int /\ m.post \in Int /\ m.batch \in Int /\ m.batch >= 1
  BY ConfigEnvironment DEF ModelType
<1> DEFINE beam    == c["beam_size"]
           context == c["max_context_length"]
           pinyin  == c["max_pinyin_length"]
           history == c["max_history_length"]
           slack   == c["slack_interval"]
           accept  == c["min_accept_context"]
<1>2. /\ beam \in Int /\ context \in Int /\ pinyin \in Int
      /\ history \in Int /\ slack \in Int /\ accept \in Int
  BY DEF IntKeys
<1>3. BeyondCache(c, m, build) <=> context + 1 > m.pre
  BY DEF BeyondCache
<1>4. Check(c, m, build) = "Ok" <=>
        /\ ~(beam <= 0) /\ beam = m.batch
        /\ ~(context < 0) /\ ~(context + 1 > m.pre)
        /\ ~(pinyin <= 0) /\ ~(pinyin > m.post)
        /\ ~(history <= 0) /\ ~(history > context) /\ ~(history >= context - pinyin)
        /\ ~(slack < 0) /\ ~(slack >= history)
        /\ ~(accept <= 0)
  BY <1>3, Zenon DEF Check, WindowTooLarge, SlackOutOfRange
<1> HIDE DEF beam, context, pinyin, history, slack, accept
<1>5. DocumentedRange(c, m) <=>
        /\ beam = m.batch /\ slack \in 0 .. history - 1 /\ accept > 0
        /\ context <= m.pre - 1 /\ history < context - pinyin /\ pinyin \in 1 .. m.post
  BY DEF DocumentedRange, beam, context, pinyin, history, slack, accept
<1>6. Check(c, m, build) = "Ok" <=> DocumentedRange(c, m)
  BY <1>1, <1>2, <1>4, <1>5
<1>7. DocumentedRange(c, m) =>
        /\ beam = m.batch /\ context < m.pre /\ 1 <= pinyin /\ pinyin <= m.post
        /\ 0 <= slack /\ slack < history /\ history + pinyin + 1 < m.pre
        /\ accept >= 1
  BY <1>1, <1>2, <1>5
<1> QED BY <1>6, <1>7 DEF Fits, beam, context, pinyin, history, slack, accept

\* Whatever was parsed before, in whatever order and however it failed, the config
\* in use leaves room for BOS, a full history and a full pinyin window.
THEOREM AcceptedConfigAlwaysFits == ASSUME NoOverflow PROVE Spec => []AcceptedConfigFits
<1> DEFINE Inv == model \in ModelType /\ AcceptedConfigFits
<1>1. Init => Inv
  BY ConfigEnvironment DEF Init, AcceptedConfigFits
<1>2. Inv /\ [parse_core_config]_vars => Inv'
  <2> SUFFICES ASSUME Inv, [parse_core_config]_vars PROVE Inv'
    OBVIOUS
  <2>1. CASE parse_core_config
    <3>1. PICK input \in Inputs, build \in Builds :
            /\ status' = Parsed(model, input, build)
            /\ config' = IF status' = "Ok" THEN Candidate(model, input, build) ELSE config
            /\ model' = model
      BY <2>1 DEF parse_core_config
    <3>2. CASE status' = "Ok"
      <4>1. Check(Candidate(model, input, build), model, build) = "Ok"
        BY <3>1, <3>2 DEF Parsed
      <4>2. Fits(Candidate(model, input, build), model)
        BY <4>1, CandidateType, CheckFits
      <4> QED BY <3>1, <3>2, <4>2 DEF AcceptedConfigFits
    <3>3. CASE status' # "Ok"
      BY <3>1, <3>3 DEF AcceptedConfigFits
    <3> QED BY <3>2, <3>3
  <2>2. CASE UNCHANGED vars
    BY <2>2 DEF vars, AcceptedConfigFits
  <2> QED BY <2>1, <2>2
<1>3. Inv => AcceptedConfigFits
  OBVIOUS
<1> QED BY <1>1, <1>2, <1>3, PTL DEF Spec

\* Every complete config within core-config.md's table, of int32 values, is accepted,
\* whichever the build; and an accepted one is within the table as it was read.
THEOREM DocumentedConfigsAreAccepted ==
  ASSUME NoOverflow
  PROVE  Spec => []AcceptsWhatIsDocumented
<1> DEFINE Inv == model \in ModelType
<1>1. Init => Inv
  BY ConfigEnvironment DEF Init
<1>2. Inv /\ [parse_core_config]_vars => Inv'
  BY DEF parse_core_config, vars
<1>3. Inv => AcceptsWhatIsDocumented
  <2> SUFFICES ASSUME model \in ModelType, NEW input \in Inputs, NEW build \in Builds,
                      Complete(input)
               PROVE  /\ Documented(input, model) /\ (\A k \in IntKeys : Numbers(input)[k] \in Int32)
                           => Parsed(model, input, build) = "Ok"
                      /\ Parsed(model, input, build) = "Ok"
                           => DocumentedRange(Candidate(model, input, build), model)
    BY DEF AcceptsWhatIsDocumented
  <2> DEFINE c == Candidate(model, input, build)
  <2>1. c \in [IntKeys -> Int] /\ c["max_context_length"] # IntMax
    BY CandidateType
  <2>2. Check(c, model, build) = "Ok" <=> DocumentedRange(c, model)
    BY <2>1, CheckFits
  <2>3. Parsed(model, input, build) = "Ok" => Check(c, model, build) = "Ok"
    BY DEF Parsed
  <2>4. ASSUME Documented(input, model), \A k \in IntKeys : Numbers(input)[k] \in Int32
        PROVE  Parsed(model, input, build) = "Ok"
    <3>1. \A k \in IntKeys : input.int[k] \in ValueType /\ input.int[k] # Absent
      BY ConfigEnvironment DEF InputType, Complete
    <3>2. \A k \in IntKeys : c[k] = Numbers(input)[k]
      BY <2>4, <3>1, ConvertedType DEF Candidate, Numbers
    <3>3. DocumentedRange(c, model)
      BY <2>4, <3>2 DEF Documented, DocumentedRange, IntKeys
    <3>4. ~Throws(input)
      BY <2>4 DEF Throws, Documented, Complete
    <3> HIDE DEF c
    <3>5. Parsed(model, input, build) = "Ok" <=> Check(c, model, build) = "Ok"
      BY <3>4 DEF Parsed, Complete, c
    <3> QED BY <3>3, <3>5, <2>2
  <2> HIDE DEF c
  <2> QED BY <2>2, <2>3, <2>4 DEF c
<1> QED BY <1>1, <1>2, <1>3, PTL DEF Spec
=============================================================================
