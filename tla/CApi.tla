--------------------------------- MODULE CApi ---------------------------------
(***************************************************************************)
(* The C ABI, src/interface/phono_api.cpp, as its client meets it: which   *)
(* blocks a call allocates and where it leaves the pointers to them, what  *)
(* it answers and whether it says why.                                     *)
(*                                                                         *)
(* What the calls compute is the matter of the other modules: here a call  *)
(* comes to any of the answers they allow.  Any allocation may fail.  Each *)
(* operator is one call of the ABI; the client, another module, says where *)
(* it goes from there.                                                     *)
(***************************************************************************)
EXTENDS Integers

CONSTANT MaxBeams  \* the engine's beam size

ASSUME BeamConfig == MaxBeams \in Nat \ {0}

VARIABLES
  handles,  \* what was created and not destroyed
  context,  \* the slot in use, borrowed from the manager: whether there is one
  heap,     \* the blocks the client has been given and has not freed
  text,     \* the pointer to a JSON document
  ids,      \* the pointer to the ids of encode_context
  result,   \* the client's phono_generate_result, what its beams point to included
  message,  \* g_last_error, as the call that set it
  answer    \* the call that returned last and its status

api_vars == <<handles, context, heap, text, ids, result, message, answer>>

\* Pointers: a block is named for what it holds.
NULL          == <<0, "null">>
Uninitialised == <<0, "uninitialised">>
TextBlock     == <<0, "text">>
IdsBlock      == <<0, "ids">>
BeamsBlock    == <<0, "beams">>

Fields   == {"pred_ids", "decoded"}
NoResult == [status |-> "OK", beams |-> NULL, cells |-> <<>>]

\* The answer, and with set_last_error the reason.
Answers(call, status, told) ==
  /\ answer'  = [call |-> call, status |-> status]
  /\ message' = IF told THEN call ELSE message

-----------------------------------------------------------------------------
(* Creating *)

Failure(status, told) == [status |-> status, told |-> told]

\* Empty, not JSON, or rejected by parse_core_config.
parse_core_config_string == {Failure("CONFIG_ERROR", TRUE)}

\* The same for parse_engine_config.
parse_engine_config_string == {Failure("CONFIG_ERROR", TRUE)}

\* The path is empty, or the package fails to load: an invalid_argument is the config's.
EngineFailures ==
  parse_engine_config_string \cup
  {Failure(status, TRUE) : status \in {"INVALID_ARGUMENT", "CONFIG_ERROR", "MODEL_ERROR"}}

\* The constructors of the manager and of the session throw.
ConstructorFailures == parse_core_config_string \cup {Failure("CONFIG_ERROR", TRUE)}

Created(call, handle) ==
  /\ handles' = handles \cup {handle}
  /\ Answers(call, "OK", FALSE)

NotCreated(call, failures) ==
  /\ \E f \in failures : Answers(call, f.status, f.told)
  /\ UNCHANGED handles

-----------------------------------------------------------------------------
(* Calls that return one block *)

\* The request being what the demos write: the document, without which the answer is
\* MODEL_ERROR and no reason.  The segments
\* are words of the vocabulary (PinyinInput), so none is absent from it.
phono_engine_segment_pinyin ==
  \/ /\ text' = TextBlock /\ heap' = heap \cup {TextBlock}
     /\ \E status \in {"OK", "INVALID_PINYIN", "PINYIN_LIMIT_EXCEEDED", "MODEL_ERROR"} :
          Answers("segment_pinyin", status, status # "OK")
  \/ /\ text' = NULL /\ UNCHANGED heap
     /\ Answers("segment_pinyin", "MODEL_ERROR", FALSE)

\* The document or NULL.
phono_engine_info_json ==
  \/ text' = TextBlock /\ heap' = heap \cup {TextBlock}
  \/ text' = NULL /\ UNCHANGED heap

\* No ids need no block.
phono_tokenizer_encode_context ==
  \/ /\ ids' = IdsBlock /\ heap' = heap \cup {IdsBlock}
     /\ Answers("encode_context", "OK", FALSE)
  \/ /\ ids' = NULL /\ UNCHANGED heap
     /\ \E status \in {"OK", "MODEL_ERROR"} : Answers("encode_context", status, FALSE)

\* A slot of the manager; an exception leaves none, and there is no status.
phono_context_manager_get_auto ==
  /\ context' \in BOOLEAN
  /\ message' = IF context' THEN message ELSE "get_auto"

-----------------------------------------------------------------------------
(* phono_session_generate *)

SessionErrors == {"INVALID_ARGUMENT", "CONTEXT_LIMIT_EXCEEDED", "PINYIN_LIMIT_EXCEEDED",
                  "NO_CANDIDATES", "CANCELLED", "MODEL_ERROR"}

\* What the session comes to, the pinyin having a syllable: texts for all the beams, or
\* the beams without texts when it was cancelled between two steps, or no beam.
Generations ==
  [error : {"OK", "CANCELLED"}, beams : 1 .. MaxBeams] \cup [error : SessionErrors, beams : {0}]

\* A loop over the beams allocates the ids, then the text, if any; the first failure
\* leaves the rest of the array as malloc returned it.
Place(i, f) == 2 * i - IF f = "pred_ids" THEN 1 ELSE 0
Wanted(g)   == {c \in (1 .. g.beams) \X Fields : c[2] = "decoded" => g.error = "OK"}

Copied(g, failing) ==
  [i \in 1 .. g.beams |-> [f \in Fields |->
     IF Place(i, f) > failing THEN Uninitialised
     ELSE IF Place(i, f) < failing /\ <<i, f>> \in Wanted(g) THEN <<i, f>> ELSE NULL]]

Never == 2 * MaxBeams + 1

Pointers(cells) == UNION {{cells[i][f] : f \in Fields} : i \in DOMAIN cells}

\* Mutant: a beam whose copy fails is left out.
AnswerOfCopy_OK(failing) == "OK"

AnswerOfCopy(failing) == IF failing = Never THEN "OK" ELSE "MODEL_ERROR"

CopyBeams(g) ==
  \/ /\ result' = [NoResult EXCEPT !.status = g.error]
     /\ UNCHANGED heap /\ Answers("generate", "MODEL_ERROR", FALSE)
  \/ \E failing \in {Place(c[1], c[2]) : c \in Wanted(g)} \cup {Never} :
       /\ result' = [status |-> g.error, beams |-> BeamsBlock, cells |-> Copied(g, failing)]
       /\ heap' = heap \cup {BeamsBlock} \cup (Pointers(result'.cells) \ {NULL, Uninitialised})
       /\ Answers("generate", AnswerOfCopy(failing), FALSE)

\* Without a slot, or when the session throws, the result is left alone.  With the
\* client's callback `aborting` from the start only what comes before the first poll is
\* another answer than CANCELLED; `aborts`: it comes to that before the call ends.
phono_session_generate(aborting, aborts) ==
  \/ /\ ~context /\ UNCHANGED <<heap, result>>
     /\ Answers("generate", "INVALID_ARGUMENT", FALSE)
  \/ /\ context /\ UNCHANGED <<heap, result>>
     /\ Answers("generate", "MODEL_ERROR", TRUE)
  \/ /\ context
     /\ \E g \in Generations :
          /\ g.error = "CANCELLED" => aborts
          /\ aborting => g.beams = 0 /\ g.error \in {"CANCELLED", "INVALID_ARGUMENT", "MODEL_ERROR"}
          /\ IF g.beams > 0 THEN CopyBeams(g)
             ELSE /\ result' = [NoResult EXCEPT !.status = g.error]
                  /\ UNCHANGED heap /\ Answers("generate", g.error, FALSE)

-----------------------------------------------------------------------------
(* Freeing *)

\* Mutant: the texts are forgotten.
FreedWithResult_NoTexts == {BeamsBlock} \cup {result.cells[i]["pred_ids"] : i \in DOMAIN result.cells}

FreedWithResult == {BeamsBlock} \cup Pointers(result.cells)

\* Freeing a pointer that was never set is undefined.
FreesResultOk == Uninitialised \notin Pointers(result.cells)

phono_generate_result_free ==
  /\ heap'   = IF result.beams = NULL THEN heap ELSE heap \ FreedWithResult
  /\ result' = [result EXCEPT !.beams = NULL, !.cells = <<>>]

phono_free_text == heap' = heap \ {text} /\ text' = NULL
phono_free_ids  == heap' = heap \ {ids} /\ ids' = NULL

phono_session_fill ==
  \E status \in {"OK", "INVALID_ARGUMENT", "MODEL_ERROR"} :
    \E told \in IF status = "MODEL_ERROR" THEN BOOLEAN ELSE {FALSE} : Answers("fill", status, told)

-----------------------------------------------------------------------------
ApiInit ==
  /\ handles = {} /\ context = FALSE /\ heap = {} /\ text = NULL /\ ids = NULL
  /\ result = NoResult /\ message = "none" /\ answer = [call |-> "none", status |-> "OK"]
=============================================================================
