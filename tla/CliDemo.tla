-------------------------------- MODULE CliDemo --------------------------------
(***************************************************************************)
(* The line demo, src/apps/cli_demo_capi.cpp: a client of the C ABI from   *)
(* start to exit, with SIGINT.                                             *)
(*                                                                         *)
(* It reads a line of pinyin, shows the candidates of a generation, reads  *)
(* a choice and commits it.  The line reader keeps the lines that were     *)
(* typed ahead and gives them out even when the flag is up.  The signal    *)
(* comes at any time, also between the reader's look at the flag and the   *)
(* read, and during the read; std::signal may have the read restarted, so  *)
(* that nothing but input ends it.                                         *)
(***************************************************************************)
EXTENDS CApi

CONSTANT MaxLines  \* bound: lines one read returns

VARIABLES
  phase,      \* the call that comes next
  pending,    \* complete lines in the reader's buffer
  reading,    \* the reader is past its look at the flag, or waits in ::read
  g_cancelled \* set by SIGINT

cli_vars == <<api_vars, phase, pending, reading, g_cancelled>>

Goes(next) == phase' = next /\ UNCHANGED <<pending, reading, g_cancelled>>

-----------------------------------------------------------------------------
(* Start *)

create_engine ==
  /\ phase = "engine"
  /\ \/ Created("engine_create", "engine") /\ Goes("info")
     \/ NotCreated("engine_create", EngineFailures) /\ Goes("failed")
  /\ UNCHANGED <<context, heap, text, ids, result>>

\* The document is shown, and freed when the next call comes.
show_info ==
  /\ phase = "info"
  /\ phono_engine_info_json
  /\ Goes("manager")
  /\ UNCHANGED <<handles, context, ids, result, message, answer>>

create_manager ==
  /\ phase = "manager"
  /\ phono_free_text
  /\ \/ Created("manager_create", "manager") /\ Goes("session")
     \/ NotCreated("manager_create", ConstructorFailures) /\ Goes("failed")
  /\ UNCHANGED <<context, ids, result>>

create_session ==
  /\ phase = "session"
  /\ \/ Created("session_create", "session") /\ Goes("first_slot")
     \/ NotCreated("session_create", ConstructorFailures) /\ Goes("failed")
  /\ UNCHANGED <<context, heap, text, ids, result>>

first_slot ==
  /\ phase = "first_slot"
  /\ phono_context_manager_get_auto
  /\ Goes("prompt")
  /\ UNCHANGED <<handles, heap, text, ids, result, answer>>

\* Mutant: only the engine is destroyed.
DestroyedOnFailure_EngineOnly == {"engine"}

\* The message is printed and what was created before is destroyed.
DestroyedOnFailure == CASE answer.call = "engine_create"  -> {}
                        [] answer.call = "manager_create" -> {"engine"}
                        [] answer.call = "session_create" -> {"manager", "engine"}

give_up ==
  /\ phase = "failed"
  /\ handles' = handles \ DestroyedOnFailure
  /\ Goes("exit")
  /\ UNCHANGED <<context, heap, text, ids, result, message, answer>>

-----------------------------------------------------------------------------
(* LineReader::next.  Input comes in whole lines, as a terminal gives it. *)

\* Mutant: the flag is left to the signal's interruption of a read.
reader_reads_IgnoresFlag == ~reading /\ pending = 0 /\ reading' = TRUE /\ UNCHANGED pending

\* The buffer is empty and the flag down: it goes on to read.
reader_reads ==
  /\ ~reading /\ pending = 0 /\ ~g_cancelled
  /\ reading' = TRUE /\ UNCHANGED pending

\* A line of the buffer, the flag up or not; or the first that the read returns.
reader_line ==
  /\ \/ ~reading /\ pending > 0 /\ pending' = pending - 1
     \/ reading /\ pending' \in 0 .. MaxLines - 1
  /\ reading' = FALSE

\* The flag with nothing left in the buffer; or a read that ends without a line: end of
\* input, an error, or EINTR and the flag, where the signal does interrupt it.
reader_stops ==
  /\ reading \/ (pending = 0 /\ g_cancelled)
  /\ reading' = FALSE /\ UNCHANGED pending

handle_sigint ==
  /\ phase \notin {"exit", "undefined"} /\ ~g_cancelled
  /\ g_cancelled' = TRUE
  /\ UNCHANGED <<api_vars, phase, pending, reading>>

-----------------------------------------------------------------------------
(* One round *)

\* An empty line is passed over.
read_pinyin ==
  /\ phase = "prompt"
  /\ \/ reader_reads /\ UNCHANGED phase
     \/ reader_line /\ phase' \in {"prompt", "segment"}
     \/ reader_stops /\ phase' = "leave"
  /\ UNCHANGED <<api_vars, g_cancelled>>

segment ==
  /\ phase = "segment"
  /\ phono_engine_segment_pinyin
  /\ Goes("segmented")
  /\ UNCHANGED <<handles, context, ids, result>>

\* An error is shown; no syllable is passed over.
segmented ==
  /\ phase = "segmented"
  /\ phono_free_text
  /\ \/ text # NULL /\ answer.status = "OK" /\ Goes("encode")
     \/ Goes("prompt")
  /\ UNCHANGED <<handles, context, ids, result, message, answer>>

encode ==
  /\ phase = "encode"
  /\ phono_tokenizer_encode_context
  /\ Goes(IF answer'.status = "OK" THEN "slot" ELSE "leave")
  /\ UNCHANGED <<handles, context, text, result>>

slot ==
  /\ phase = "slot"
  /\ phono_context_manager_get_auto
  /\ result' = NoResult
  /\ Goes("generate")
  /\ UNCHANGED <<handles, heap, text, ids, answer>>

generate ==
  /\ phase = "generate"
  /\ g_cancelled' \in {g_cancelled, TRUE}
  /\ phono_session_generate(g_cancelled, g_cancelled')
  /\ phase' = "generated" /\ UNCHANGED <<pending, reading>>
  /\ UNCHANGED <<handles, context, text, ids>>

\* A failed generation ends the demo.  The candidates are printed, and printing a text
\* that is not there is undefined: the stream may only turn bad.
generated ==
  /\ phase = "generated"
  /\ phono_free_ids
  /\ \/ Goes(IF answer.status # "OK" THEN "drop_leave"
             ELSE IF result.cells = <<>> THEN "drop_prompt" ELSE "choose")
     \/ /\ answer.status = "OK" /\ \E i \in DOMAIN result.cells : result.cells[i]["decoded"] = NULL
        /\ Goes("undefined")
  /\ UNCHANGED <<handles, context, text, result, message, answer>>

\* The candidates are on the screen.
choose ==
  /\ phase = "choose"
  /\ \/ reader_reads /\ UNCHANGED phase
     \/ reader_line /\ phase' \in {"take", "drop_prompt"}
     \/ reader_stops /\ phase' = "drop_leave"
  /\ UNCHANGED <<api_vars, g_cancelled>>

\* A string is made of the text: without one it throws, which nothing catches.  The ids
\* may be unknown to the context's vocabulary.
take ==
  /\ phase = "take"
  /\ \E i \in DOMAIN result.cells :
       IF result.cells[i]["decoded"] = NULL THEN Goes("undefined")
       ELSE \/ Goes("drop_fill")
            \/ Goes("drop_prompt")
  /\ UNCHANGED api_vars

AfterDrop == [drop_leave |-> "leave", drop_prompt |-> "prompt", drop_fill |-> "fill"]

\* The result is freed, whatever the generation answered.
drop ==
  /\ phase \in DOMAIN AfterDrop
  /\ IF FreesResultOk
     THEN phono_generate_result_free /\ Goes(AfterDrop[phase])
     ELSE Goes("undefined") /\ UNCHANGED <<heap, result>>
  /\ UNCHANGED <<handles, context, text, ids, message, answer>>

commit ==
  /\ phase = "fill"
  /\ phono_session_fill
  /\ Goes(IF answer'.status = "OK" THEN "prompt" ELSE "leave")
  /\ UNCHANGED <<handles, context, heap, text, ids, result>>

leave ==
  /\ phase = "leave"
  /\ handles' = {} /\ context' = FALSE
  /\ Goes("exit")
  /\ UNCHANGED <<heap, text, ids, result, message, answer>>

CliInit ==
  ApiInit /\ phase = "engine" /\ pending = 0 /\ reading = FALSE /\ g_cancelled = FALSE

Starting == create_engine \/ show_info \/ create_manager \/ create_session \/ first_slot \/ give_up
Reading  == read_pinyin \/ choose
Working  == segment \/ segmented \/ encode \/ slot \/ generate \/ generated
            \/ take \/ drop \/ commit \/ leave

CliNext == Starting \/ Reading \/ Working \/ handle_sigint

\* Every call returns, but for a read: nobody need type.
CliSpec ==
  /\ CliInit /\ [][CliNext]_cli_vars
  /\ WF_cli_vars(Starting \/ Working \/ (~reading /\ Reading))

-----------------------------------------------------------------------------
(* Properties *)

Held(pointers) == pointers \ {NULL, Uninitialised}

\* The blocks the client holds are exactly those it can still free: whatever answer a
\* call gave and whichever allocation failed, nothing is lost and no pointer is left
\* to a block that is gone.
HeapIsOwned == heap = Held({text, ids, result.beams} \cup Pointers(result.cells))

\* Every way out destroys what was created and leaves no block behind.
ExitLeavesNothing == phase = "exit" => handles = {} /\ heap = {}

\* A generation answered PHONO_OK can be shown: no pointer of its beams is left unset,
\* every beam has its ids, and only one whose status says cancelled lacks a text.
OkResultIsComplete ==
  answer = [call |-> "generate", status |-> "OK"] =>
    \A i \in DOMAIN result.cells :
      /\ Uninitialised \notin Pointers(result.cells)
      /\ result.cells[i]["pred_ids"] # NULL
      /\ result.cells[i]["decoded"] = NULL => result.status = "CANCELLED"

\* Once SIGINT came, at whatever moment and with however many lines typed ahead, the
\* demo exits, if every read of the terminal returns and nothing undefined happens.  At
\* a prompt that is less than "Press Ctrl-C to stop." (line 176) says: where the signal
\* restarts the read of line 83 instead of interrupting it, the demo waits for a line.
InterruptEnds ==
  ([]<>(~reading) /\ [](phase # "undefined")) => (g_cancelled ~> phase = "exit")

\* phono_api.h:59: a beam's text is there ("owned UTF-8"); c-api.md:41: a generation
\* the callback aborted is not answered PHONO_OK.  A candidate that can be chosen has
\* a text.
ChosenCandidateHasText ==
  phase = "take" => \A i \in DOMAIN result.cells : result.cells[i]["decoded"] # NULL
=============================================================================
