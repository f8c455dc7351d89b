----------------------------- MODULE CliDemoProofs -----------------------------
(***************************************************************************)
(* Proofs about CliDemo, for every beam size and every amount of typing:   *)
(* on every path through the ABI's answers and allocation failures the     *)
(* demo owns what it can reach, and every way out leaves nothing behind.   *)
(***************************************************************************)
EXTENDS CliDemo, TLAPS

-----------------------------------------------------------------------------
(* The inductive invariant *)

Phases == {"engine", "info", "manager", "session", "first_slot", "failed", "prompt", "segment",
           "segmented", "encode", "slot", "generate", "generated", "choose", "take",
           "drop_leave", "drop_prompt", "drop_fill", "fill", "leave", "exit", "undefined"}

\* The blocks a generation may allocate for its beams.
BeamBlocks == (1 .. MaxBeams) \X Fields

\* Where a pointer may be set.
PointersInPhase ==
  /\ text \in {NULL, TextBlock} /\ (text # NULL => phase \in {"manager", "segmented"})
  /\ ids \in {NULL, IdsBlock} /\ (ids # NULL => phase \in {"slot", "generate", "generated"})
  /\ result.beams \in {NULL, BeamsBlock}
  /\ result.beams # NULL =>
       phase \in {"generated", "choose", "take", "drop_leave", "drop_prompt", "drop_fill",
                  "undefined"}

\* Without an array there are no beams, and every pointer of a beam is unset or to a
\* block of its own.
ResultShape ==
  /\ result = [status |-> result.status, beams |-> result.beams, cells |-> result.cells]
  /\ result.beams = NULL => result.cells = <<>>
  /\ Pointers(result.cells) \subseteq BeamBlocks \cup {NULL, Uninitialised}

\* What has been created where the demo stands.
HandlesInPhase ==
  CASE phase \in {"engine", "exit"}   -> handles = {}
    [] phase \in {"info", "manager"}  -> handles = {"engine"}
    [] phase = "session"              -> handles = {"engine", "manager"}
    [] phase = "failed"               ->
         /\ answer.call \in {"engine_create", "manager_create", "session_create"}
         /\ handles = DestroyedOnFailure
    [] OTHER                          -> handles = {"engine", "manager", "session"}

IInv ==
  /\ phase \in Phases
  /\ PointersInPhase
  /\ ResultShape
  /\ HeapIsOwned
  /\ HandlesInPhase
  /\ OkResultIsComplete

-----------------------------------------------------------------------------
(* Pointers *)

\* The named blocks are different from one another, from the unset pointers and from
\* the blocks of the beams.
LEMMA BlocksDiffer ==
  /\ NULL # Uninitialised
  /\ \A b \in {TextBlock, IdsBlock, BeamsBlock} : b \notin {NULL, Uninitialised}
  /\ TextBlock # IdsBlock /\ TextBlock # BeamsBlock /\ IdsBlock # BeamsBlock
  /\ \A b \in BeamBlocks : b \notin {NULL, Uninitialised, TextBlock, IdsBlock, BeamsBlock}
  BY BeamConfig DEF NULL, Uninitialised, TextBlock, IdsBlock, BeamsBlock, BeamBlocks, Fields

\* Without beams nothing is pointed to.
LEMMA NoCells == Pointers(<<>>) = {}
  BY DEF Pointers

\* A copy points to blocks of the beams only, wherever it fails.
LEMMA CopiedPointers ==
  ASSUME NEW g \in Generations, NEW failing
  PROVE  Pointers(Copied(g, failing)) \subseteq BeamBlocks \cup {NULL, Uninitialised}
<1>1. DOMAIN Copied(g, failing) = 1 .. g.beams
  BY DEF Copied
<1>2. ASSUME NEW i \in 1 .. g.beams, NEW f \in Fields
      PROVE  Copied(g, failing)[i][f] \in BeamBlocks \cup {NULL, Uninitialised}
  <2>1. Copied(g, failing)[i][f] \in {Uninitialised, NULL, <<i, f>>}
    BY <1>2 DEF Copied
  <2>2. i \in 1 .. MaxBeams
    BY <1>2, BeamConfig DEF Generations
  <2> QED
    BY <2>1, <2>2, <1>2 DEF BeamBlocks
<1> QED
  BY <1>1, <1>2 DEF Pointers

\* A copy that did not fail is complete.
LEMMA CopiedComplete ==
  ASSUME NEW g \in Generations, NEW i \in DOMAIN Copied(g, Never)
  PROVE  /\ Uninitialised \notin Pointers(Copied(g, Never))
         /\ Copied(g, Never)[i]["pred_ids"] # NULL
         /\ Copied(g, Never)[i]["decoded"] = NULL => g.error = "CANCELLED"
<1>1. DOMAIN Copied(g, Never) = 1 .. g.beams /\ g.beams \in 0 .. MaxBeams /\ i \in 1 .. MaxBeams
  BY BeamConfig DEF Copied, Generations
<1>2. \A j \in 1 .. g.beams, f \in Fields : Place(j, f) \in Int /\ Place(j, f) < Never
  BY <1>1, BeamConfig DEF Place, Never, Fields
<1>3. \A j \in 1 .. g.beams, f \in Fields :
        Copied(g, Never)[j][f] = IF <<j, f>> \in Wanted(g) THEN <<j, f>> ELSE NULL
  BY <1>1, <1>2, BeamConfig DEF Copied, Never
<1>4. \A j \in 1 .. g.beams, f \in Fields : <<j, f>> \in BeamBlocks
  <2>1. \A j \in 1 .. g.beams : j \in 1 .. MaxBeams
    BY <1>1, BeamConfig
  <2> QED
    BY <2>1 DEF BeamBlocks
<1>5. \A j \in 1 .. g.beams, f \in Fields : Copied(g, Never)[j][f] # Uninitialised
  BY <1>3, <1>4, BlocksDiffer
<1>6. Uninitialised \notin Pointers(Copied(g, Never))
  BY <1>1, <1>5 DEF Pointers
<1>7. <<i, "pred_ids">> \in Wanted(g) /\ (<<i, "decoded">> \in Wanted(g) <=> g.error = "OK")
  BY <1>1 DEF Wanted, Fields
<1>8. g.beams > 0 /\ (g.error = "OK" \/ g.error = "CANCELLED")
  BY <1>1, BeamConfig DEF Generations
<1> QED
  BY <1>1, <1>3, <1>4, <1>6, <1>7, <1>8, BlocksDiffer DEF Fields

-----------------------------------------------------------------------------
(* The invariant is inductive *)

\* IInv holds when the demo starts.
LEMMA InitInv == CliInit => IInv
<1> SUFFICES ASSUME CliInit PROVE IInv
  OBVIOUS
<1> USE DEF CliInit, ApiInit
<1>1. phase \in Phases /\ PointersInPhase /\ HandlesInPhase
  BY DEF Phases, PointersInPhase, HandlesInPhase, NoResult
<1>2. ResultShape /\ HeapIsOwned
  BY NoCells DEF ResultShape, HeapIsOwned, Held, NoResult
<1>3. OkResultIsComplete
  BY DEF OkResultIsComplete
<1> QED
  BY <1>1, <1>2, <1>3 DEF IInv

\* The conjuncts that do not mention where the demo stands hold in every phase: what
\* leaves result and answer alone keeps them.
LEMMA ResultKept ==
  ASSUME ResultShape, OkResultIsComplete, UNCHANGED result,
         answer' = answer \/ answer'.call # "generate" \/ answer'.status # "OK"
  PROVE  ResultShape' /\ OkResultIsComplete'
<1>1. ResultShape'
  BY DEF ResultShape
<1>2. OkResultIsComplete'
  BY DEF OkResultIsComplete
<1> QED
  BY <1>1, <1>2

\* Freeing a block returns what its pointer held.
LEMMA TextFreed ==
  ASSUME PointersInPhase, ResultShape, HeapIsOwned, phono_free_text, UNCHANGED <<ids, result>>
  PROVE  HeapIsOwned'
<1>1. TextBlock \notin {ids, result.beams} \cup Pointers(result.cells)
  BY BlocksDiffer DEF PointersInPhase, ResultShape
<1>2. Held({text, ids, result.beams} \cup Pointers(result.cells)) \ {text}
        = Held({NULL, ids, result.beams} \cup Pointers(result.cells))
  BY <1>1, BlocksDiffer DEF PointersInPhase, Held
<1> QED
  BY <1>2 DEF HeapIsOwned, phono_free_text

\* Freeing the ids leaves the rest of the heap owned.
LEMMA IdsFreed ==
  ASSUME PointersInPhase, ResultShape, HeapIsOwned, phono_free_ids, UNCHANGED <<text, result>>
  PROVE  HeapIsOwned'
<1>1. IdsBlock \notin {text, result.beams} \cup Pointers(result.cells)
  BY BlocksDiffer DEF PointersInPhase, ResultShape
<1>2. Held({text, ids, result.beams} \cup Pointers(result.cells)) \ {ids}
        = Held({text, NULL, result.beams} \cup Pointers(result.cells))
  BY <1>1, BlocksDiffer DEF PointersInPhase, Held
<1> QED
  BY <1>2 DEF HeapIsOwned, phono_free_ids

\* Setting up, reading and working each keep it.
LEMMA StartingInv == IInv /\ Starting => IInv'
<1> SUFFICES ASSUME IInv, Starting PROVE IInv'
  OBVIOUS
<1> USE DEF Goes
<1>0. phase \in Phases /\ PointersInPhase /\ ResultShape /\ HeapIsOwned /\ HandlesInPhase
      /\ OkResultIsComplete
  BY DEF IInv
<1>1. CASE create_engine
  <2> USE <1>1 DEF create_engine, Created, NotCreated, Answers
  <2>1. phase' \in Phases /\ PointersInPhase'
    BY <1>0 DEF Phases, PointersInPhase
  <2>2. ResultShape' /\ OkResultIsComplete'
    BY <1>0, ResultKept
  <2>3. HeapIsOwned'
    BY <1>0 DEF HeapIsOwned, Held
  <2>4. HandlesInPhase'
    BY <1>0 DEF HandlesInPhase, DestroyedOnFailure
  <2> QED
    BY <2>1, <2>2, <2>3, <2>4 DEF IInv
<1>2. CASE show_info
  <2> USE <1>2 DEF show_info, phono_engine_info_json
  <2>1. phase' \in Phases /\ PointersInPhase'
    BY <1>0 DEF Phases, PointersInPhase
  <2>2. ResultShape' /\ OkResultIsComplete'
    BY <1>0, ResultKept
  <2>3. HeapIsOwned'
    BY <1>0, BlocksDiffer DEF HeapIsOwned, Held, PointersInPhase
  <2>4. HandlesInPhase'
    BY <1>0 DEF HandlesInPhase
  <2> QED
    BY <2>1, <2>2, <2>3, <2>4 DEF IInv
<1>3. CASE create_manager
  <2> USE <1>3 DEF create_manager, phono_free_text, Created, NotCreated, Answers
  <2>1. phase' \in Phases /\ PointersInPhase'
    BY <1>0 DEF Phases, PointersInPhase
  <2>2. ResultShape' /\ OkResultIsComplete'
    BY <1>0, ResultKept
  <2>3. HeapIsOwned'
    BY <1>0, TextFreed
  <2>4. HandlesInPhase'
    BY <1>0 DEF HandlesInPhase, DestroyedOnFailure
  <2> QED
    BY <2>1, <2>2, <2>3, <2>4 DEF IInv
<1>4. CASE create_session
  <2> USE <1>4 DEF create_session, Created, NotCreated, Answers
  <2>1. phase' \in Phases /\ PointersInPhase'
    BY <1>0 DEF Phases, PointersInPhase
  <2>2. ResultShape' /\ OkResultIsComplete'
    BY <1>0, ResultKept
  <2>3. HeapIsOwned'
    BY <1>0 DEF HeapIsOwned, Held
  <2>4. HandlesInPhase'
    BY <1>0 DEF HandlesInPhase, DestroyedOnFailure
  <2> QED
    BY <2>1, <2>2, <2>3, <2>4 DEF IInv
<1>5. CASE first_slot
  <2> USE <1>5 DEF first_slot, phono_context_manager_get_auto
  <2>1. phase' \in Phases /\ PointersInPhase'
    BY <1>0 DEF Phases, PointersInPhase
  <2>2. ResultShape' /\ OkResultIsComplete'
    BY <1>0, ResultKept
  <2>3. HeapIsOwned'
    BY <1>0 DEF HeapIsOwned, Held
  <2>4. HandlesInPhase'
    BY <1>0 DEF HandlesInPhase
  <2> QED
    BY <2>1, <2>2, <2>3, <2>4 DEF IInv
<1>6. CASE give_up
  <2> USE <1>6 DEF give_up
  <2>1. phase' \in Phases /\ PointersInPhase'
    BY <1>0 DEF Phases, PointersInPhase
  <2>2. ResultShape' /\ OkResultIsComplete'
    BY <1>0, ResultKept
  <2>3. HeapIsOwned'
    BY <1>0 DEF HeapIsOwned, Held
  <2>4. HandlesInPhase'
    BY <1>0 DEF HandlesInPhase
  <2> QED
    BY <2>1, <2>2, <2>3, <2>4 DEF IInv
<1> QED
  BY <1>1, <1>2, <1>3, <1>4, <1>5, <1>6 DEF Starting

\* A generation: the blocks it allocates are those its result points to, and an answer
\* of PHONO_OK is a complete copy.
LEMMA GenerateInv == IInv /\ generate => IInv'
<1> SUFFICES ASSUME IInv, generate PROVE IInv'
  OBVIOUS
<1> USE DEF generate, Answers
<1>0. phase \in Phases /\ PointersInPhase /\ ResultShape /\ HeapIsOwned /\ HandlesInPhase
      /\ OkResultIsComplete
  BY DEF IInv
<1>1. result.beams = NULL /\ Pointers(result.cells) = {} /\ heap = Held({text, ids, NULL})
  BY <1>0, NoCells DEF PointersInPhase, ResultShape, HeapIsOwned
<1>2. phase' \in Phases /\ HandlesInPhase'
  BY <1>0 DEF Phases, HandlesInPhase
<1>3. CASE UNCHANGED <<heap, result>> /\ answer'.status # "OK"
  <2>1. PointersInPhase' /\ HeapIsOwned'
    BY <1>0, <1>3 DEF PointersInPhase, HeapIsOwned, Held
  <2>2. ResultShape' /\ OkResultIsComplete'
    BY <1>0, <1>3, ResultKept
  <2> QED
    BY <1>2, <2>1, <2>2 DEF IInv
<1>4. ASSUME NEW g \in Generations, UNCHANGED heap,
             result' = [NoResult EXCEPT !.status = g.error]
      PROVE  IInv'
  <2>1. result' = [status |-> g.error, beams |-> NULL, cells |-> <<>>]
    BY <1>4 DEF NoResult
  <2>2. PointersInPhase'
    BY <1>0, <2>1 DEF PointersInPhase
  <2>3. result'.beams = NULL /\ Pointers(result'.cells) = {}
    BY <2>1, NoCells
  <2>4. ResultShape' /\ OkResultIsComplete'
    BY <2>1, <2>3 DEF ResultShape, OkResultIsComplete
  <2>5. HeapIsOwned'
    BY <1>1, <1>4, <2>3 DEF HeapIsOwned
  <2> QED
    BY <1>2, <2>2, <2>4, <2>5 DEF IInv
<1>5. ASSUME NEW g \in Generations, NEW failing,
             result' = [status |-> g.error, beams |-> BeamsBlock, cells |-> Copied(g, failing)],
             heap' = heap \cup {BeamsBlock} \cup (Pointers(result'.cells) \ {NULL, Uninitialised}),
             answer'.status = AnswerOfCopy(failing)
      PROVE  IInv'
  <2>1. PointersInPhase'
    BY <1>0, <1>5 DEF PointersInPhase
  <2>2. ResultShape'
    BY <1>5, CopiedPointers, BlocksDiffer DEF ResultShape
  <2>3. HeapIsOwned'
    BY <1>1, <1>5, BlocksDiffer DEF HeapIsOwned, Held
  <2>4. OkResultIsComplete'
    BY <1>5, CopiedComplete DEF OkResultIsComplete, AnswerOfCopy
  <2> QED
    BY <1>2, <2>1, <2>2, <2>3, <2>4 DEF IInv
<1> QED
  BY <1>3, <1>4, <1>5 DEF phono_session_generate, CopyBeams

\* Reading a line or a choice keeps the invariant.
LEMMA ReadingInv == IInv /\ Reading => IInv'
<1> SUFFICES ASSUME IInv, Reading PROVE IInv'
  OBVIOUS
<1>0. phase \in Phases /\ PointersInPhase /\ ResultShape /\ HeapIsOwned /\ HandlesInPhase
      /\ OkResultIsComplete
  BY DEF IInv
<1>1. CASE read_pinyin
  <2> USE <1>1 DEF read_pinyin, api_vars
  <2>1. phase' \in Phases /\ PointersInPhase'
    BY <1>0 DEF Phases, PointersInPhase
  <2>2. ResultShape' /\ OkResultIsComplete'
    BY <1>0, ResultKept
  <2>3. HeapIsOwned'
    BY <1>0 DEF HeapIsOwned, Held
  <2>4. HandlesInPhase'
    BY <1>0 DEF HandlesInPhase
  <2> QED
    BY <2>1, <2>2, <2>3, <2>4 DEF IInv
<1>2. CASE choose
  <2> USE <1>2 DEF choose, api_vars
  <2>1. phase' \in Phases /\ PointersInPhase'
    BY <1>0 DEF Phases, PointersInPhase
  <2>2. ResultShape' /\ OkResultIsComplete'
    BY <1>0, ResultKept
  <2>3. HeapIsOwned'
    BY <1>0 DEF HeapIsOwned, Held
  <2>4. HandlesInPhase'
    BY <1>0 DEF HandlesInPhase
  <2> QED
    BY <2>1, <2>2, <2>3, <2>4 DEF IInv
<1> QED
  BY <1>1, <1>2 DEF Reading

\* Each of the demo's calls keeps the invariant.
LEMMA WorkingInv == IInv /\ Working => IInv'
<1> SUFFICES ASSUME IInv, Working PROVE IInv'
  OBVIOUS
<1> USE DEF Goes
<1>0. phase \in Phases /\ PointersInPhase /\ ResultShape /\ HeapIsOwned /\ HandlesInPhase
      /\ OkResultIsComplete
  BY DEF IInv
<1>1. CASE segment
  <2> USE <1>1 DEF segment, phono_engine_segment_pinyin, Answers
  <2>1. phase' \in Phases /\ PointersInPhase'
    BY <1>0 DEF Phases, PointersInPhase
  <2>2. ResultShape' /\ OkResultIsComplete'
    BY <1>0, ResultKept
  <2>3. HeapIsOwned'
    BY <1>0, BlocksDiffer DEF HeapIsOwned, Held, PointersInPhase
  <2>4. HandlesInPhase'
    BY <1>0 DEF HandlesInPhase
  <2> QED
    BY <2>1, <2>2, <2>3, <2>4 DEF IInv
<1>2. CASE segmented
  <2> USE <1>2 DEF segmented, phono_free_text
  <2>1. phase' \in Phases /\ PointersInPhase'
    BY <1>0 DEF Phases, PointersInPhase
  <2>2. ResultShape' /\ OkResultIsComplete'
    BY <1>0, ResultKept
  <2>3. HeapIsOwned'
    BY <1>0, TextFreed
  <2>4. HandlesInPhase'
    BY <1>0 DEF HandlesInPhase
  <2> QED
    BY <2>1, <2>2, <2>3, <2>4 DEF IInv
<1>3. CASE encode
  <2> USE <1>3 DEF encode, phono_tokenizer_encode_context, Answers
  <2>1. phase' \in Phases /\ PointersInPhase'
    BY <1>0 DEF Phases, PointersInPhase
  <2>2. ResultShape' /\ OkResultIsComplete'
    BY <1>0, ResultKept
  <2>3. HeapIsOwned'
    BY <1>0, BlocksDiffer DEF HeapIsOwned, Held, PointersInPhase
  <2>4. HandlesInPhase'
    BY <1>0 DEF HandlesInPhase
  <2> QED
    BY <2>1, <2>2, <2>3, <2>4 DEF IInv
<1>4. CASE slot
  <2> USE <1>4 DEF slot, phono_context_manager_get_auto
  <2>1. result' = [status |-> "OK", beams |-> NULL, cells |-> <<>>]
    BY DEF NoResult
  <2>2. phase' \in Phases /\ PointersInPhase'
    BY <1>0 DEF Phases, PointersInPhase, NoResult
  <2>3. ResultShape' /\ OkResultIsComplete'
    BY <2>1, NoCells DEF ResultShape, OkResultIsComplete
  <2>4. result.beams = NULL /\ Pointers(result.cells) = {}
    BY <1>0, NoCells DEF PointersInPhase, ResultShape
  <2>5. HeapIsOwned'
    <3>1. result'.beams = NULL /\ Pointers(result'.cells) = {}
      BY <2>1, NoCells
    <3> QED
      BY <1>0, <3>1, <2>4 DEF HeapIsOwned
  <2>6. HandlesInPhase'
    BY <1>0 DEF HandlesInPhase
  <2> QED
    BY <2>1, <2>2, <2>3, <2>4, <2>5, <2>6 DEF IInv
<1>5. CASE generate
  BY <1>5, GenerateInv
<1>6. CASE generated
  <2> USE <1>6 DEF generated, phono_free_ids
  <2>1. phase' \in Phases /\ PointersInPhase'
    BY <1>0 DEF Phases, PointersInPhase
  <2>2. ResultShape' /\ OkResultIsComplete'
    BY <1>0, ResultKept
  <2>3. HeapIsOwned'
    BY <1>0, IdsFreed
  <2>4. HandlesInPhase'
    BY <1>0 DEF HandlesInPhase
  <2> QED
    BY <2>1, <2>2, <2>3, <2>4 DEF IInv
<1>7. CASE take
  <2> USE <1>7 DEF take, api_vars
  <2>1. phase' \in Phases /\ PointersInPhase'
    BY <1>0 DEF Phases, PointersInPhase
  <2>2. ResultShape' /\ OkResultIsComplete'
    BY <1>0, ResultKept
  <2>3. HeapIsOwned'
    BY <1>0 DEF HeapIsOwned, Held
  <2>4. HandlesInPhase'
    BY <1>0 DEF HandlesInPhase
  <2> QED
    BY <2>1, <2>2, <2>3, <2>4 DEF IInv
<1>8. CASE drop
  <2> USE <1>8 DEF drop
  <2>1. phase' \in Phases /\ HandlesInPhase'
    BY <1>0 DEF Phases, AfterDrop, HandlesInPhase
  <2>2. CASE FreesResultOk
    <3> USE <2>2 DEF phono_generate_result_free
    <3>1. result' = [status |-> result.status, beams |-> NULL, cells |-> <<>>]
      BY <1>0 DEF ResultShape
    <3>2. PointersInPhase'
      BY <1>0, <3>1 DEF PointersInPhase, AfterDrop
    <3>3. ResultShape' /\ OkResultIsComplete'
      BY <3>1, NoCells DEF ResultShape, OkResultIsComplete
    <3>4. text = NULL /\ ids = NULL
      BY <1>0 DEF PointersInPhase, AfterDrop
    <3>5. heap' = {}
      BY <1>0, <3>4, NoCells DEF HeapIsOwned, Held, FreedWithResult, PointersInPhase, ResultShape
    <3>6. HeapIsOwned'
      BY <3>1, <3>4, <3>5, NoCells DEF HeapIsOwned, Held
    <3> QED
      BY <2>1, <3>2, <3>3, <3>6 DEF IInv
  <2>3. CASE ~FreesResultOk
    <3> USE <2>3
    <3>1. PointersInPhase'
      BY <1>0 DEF PointersInPhase, AfterDrop
    <3>2. ResultShape' /\ OkResultIsComplete'
      BY <1>0, ResultKept
    <3>3. HeapIsOwned'
      BY <1>0 DEF HeapIsOwned, Held
    <3> QED
      BY <2>1, <3>1, <3>2, <3>3 DEF IInv
  <2> QED
    BY <2>2, <2>3
<1>9. CASE commit
  <2> USE <1>9 DEF commit, phono_session_fill, Answers
  <2>1. phase' \in Phases /\ PointersInPhase'
    BY <1>0 DEF Phases, PointersInPhase
  <2>2. ResultShape' /\ OkResultIsComplete'
    BY <1>0, ResultKept
  <2>3. HeapIsOwned'
    BY <1>0 DEF HeapIsOwned, Held
  <2>4. HandlesInPhase'
    BY <1>0 DEF HandlesInPhase
  <2> QED
    BY <2>1, <2>2, <2>3, <2>4 DEF IInv
<1>10. CASE leave
  <2> USE <1>10 DEF leave
  <2>1. phase' \in Phases /\ PointersInPhase'
    BY <1>0 DEF Phases, PointersInPhase
  <2>2. ResultShape' /\ OkResultIsComplete'
    BY <1>0, ResultKept
  <2>3. HeapIsOwned'
    BY <1>0 DEF HeapIsOwned, Held
  <2>4. HandlesInPhase'
    BY <1>0 DEF HandlesInPhase
  <2> QED
    BY <2>1, <2>2, <2>3, <2>4 DEF IInv
<1> QED
  BY <1>1, <1>2, <1>3, <1>4, <1>5, <1>6, <1>7, <1>8, <1>9, <1>10 DEF Working

\* IInv is inductive.
LEMMA NextInv == IInv /\ [CliNext]_cli_vars => IInv'
<1> SUFFICES ASSUME IInv, [CliNext]_cli_vars PROVE IInv'
  OBVIOUS
<1>1. CASE Starting
  BY <1>1, StartingInv
<1>2. CASE Reading
  BY <1>2, ReadingInv
<1>3. CASE Working
  BY <1>3, WorkingInv
<1>4. CASE UNCHANGED <<api_vars, phase>>
  <2> USE <1>4 DEF api_vars
  <2>1. phase' \in Phases /\ PointersInPhase' /\ HandlesInPhase'
    BY DEF IInv, PointersInPhase, HandlesInPhase, DestroyedOnFailure
  <2>2. ResultShape' /\ OkResultIsComplete'
    BY ResultKept DEF IInv
  <2>3. HeapIsOwned'
    BY DEF IInv, HeapIsOwned, Held
  <2> QED
    BY <2>1, <2>2, <2>3 DEF IInv
<1> QED
  BY <1>1, <1>2, <1>3, <1>4 DEF CliNext, handle_sigint, cli_vars

\* So it always holds.
LEMMA Invariance == CliSpec => []IInv
  BY InitInv, NextInv, PTL DEF CliSpec

-----------------------------------------------------------------------------
(* Theorems *)

\* The demo owns exactly the blocks it can still free, whatever the ABI answers and
\* whichever allocation fails: no block is lost, none is freed twice.
THEOREM OwnsItsBlocks == CliSpec => []HeapIsOwned
<1>1. IInv => HeapIsOwned
  BY DEF IInv
<1> QED
  BY <1>1, Invariance, PTL

\* Every way out of main destroys what was created and leaves no block behind.
THEOREM LeavesNothing == CliSpec => []ExitLeavesNothing
<1>1. IInv => ExitLeavesNothing
  <2> SUFFICES ASSUME IInv, phase = "exit" PROVE handles = {} /\ heap = {}
    BY DEF ExitLeavesNothing
  <2>1. handles = {}
    BY DEF IInv, HandlesInPhase
  <2>2. text = NULL /\ ids = NULL /\ result.beams = NULL /\ Pointers(result.cells) = {}
    BY NoCells DEF IInv, PointersInPhase, ResultShape
  <2>3. heap = {}
    BY <2>2 DEF IInv, HeapIsOwned, Held
  <2> QED
    BY <2>1, <2>3
<1> QED
  BY <1>1, Invariance, PTL

\* A result answered PHONO_OK is whole, for every beam size: only a cancelled one has
\* beams without a text.
THEOREM OkIsWhole == CliSpec => []OkResultIsComplete
<1>1. IInv => OkResultIsComplete
  BY DEF IInv
<1> QED
  BY <1>1, Invariance, PTL
=============================================================================
