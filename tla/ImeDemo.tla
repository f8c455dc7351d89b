-------------------------------- MODULE ImeDemo --------------------------------
(***************************************************************************)
(* The interactive demo, src/apps/ime_demo_capi.cpp: one editor for the    *)
(* pinyin, one per history, one session, and a context manager with as     *)
(* many slots as there are histories.                                      *)
(*                                                                         *)
(* It composes the components: a key edits a text; the text before the     *)
(* cursor goes to the manager, which picks and cuts a slot; the session    *)
(* generates on that slot with the same text as its snapshot; a candidate  *)
(* chosen later is inserted at the cursor.  No history owns a slot, and    *)
(* nothing tells the manager which history is asking.                      *)
(*                                                                         *)
(* What pinyin a text means is PinyinInput's matter: here the segmentation *)
(* is refused or comes to any number of syllables.                         *)
(***************************************************************************)
EXTENDS InferenceSession, ContextManager, ImeEditor

CONSTANTS
  Letter,      \* a letter typed as pinyin
  MaxLetters,  \* bound: letters of the pinyin line
  MaxBytes     \* bound: bytes of all the histories together

\* Characters are Chinese candidates; a letter is one byte.  The manager and the session
\* are created from one core config, which parse_core_config accepted.
ASSUME DemoConfig ==
  /\ DOMAIN Width = Candidates \cup {Letter} /\ Letter \notin Candidates
  /\ Width[Letter] = 1
  /\ MaxHistory + MaxPinyin < SlotCapacity

VARIABLES
  pinyin,         \* the pinyin line
  histories,      \* one editor for every slot the manager was created with
  history_index,
  candidates,     \* the texts on the screen, and the ids they were generated after
  interrupted,    \* g_interrupted
  phase           \* "key": waiting for one; "ask", "call": in the loop's body; "exit"

session_state == <<slot_vars, fill_kv, pc, gen>>
editing    == <<pinyin, histories, history_index>>
demo_vars  == <<vars, protected_slots, reply, editing, candidates, interrupted, phase>>

history == histories[history_index]

NoCandidates == [texts |-> <<>>, after |-> <<>>]
NoCall       == [slot |-> NoSlot, err |-> "Ok"]

\* Tokenizer::encode_context: one id per character, those without one left out.  A
\* character of the model stands for all those that are normalized to the same one.
encode_context(bytes) ==
  FlattenSeq([p \in DOMAIN bytes |->
    IF WholeAt(bytes, p) /\ bytes[p][1] \in Tokens THEN <<bytes[p][1]>> ELSE <<>>])

previous_history(index) == (index + Cardinality(Slots) - 1) % Cardinality(Slots)
next_history(index)     == (index + 1) % Cardinality(Slots)

-----------------------------------------------------------------------------
(* Keys *)

AtPrompt == phase = "key" /\ ~interrupted

switch_history ==
  /\ AtPrompt /\ pinyin.text = <<>>
  /\ history_index' \in {previous_history(history_index), next_history(history_index)}
  /\ candidates' = NoCandidates
  /\ UNCHANGED <<vars, protected_slots, reply, pinyin, histories, interrupted, phase>>

\* The bytes of all the histories together.
BytesOfAll == MapThenSumSet(LAMBDA s : Len(histories[s].text), Slots)

\* Mutant: the candidates stay on the screen.
choose_candidate_KeepsCandidates ==
  /\ AtPrompt
  /\ \E i \in DOMAIN candidates.texts :
       LET chosen == Encoded(candidates.texts[i])
       IN  /\ Len(chosen) + BytesOfAll <= MaxBytes
           /\ histories' = [histories EXCEPT ![history_index] = insert(history, chosen)]
  /\ pinyin' = EmptyEditor
  /\ UNCHANGED <<vars, protected_slots, reply, history_index, candidates, interrupted, phase>>

choose_candidate ==
  /\ AtPrompt
  /\ \E i \in DOMAIN candidates.texts :
       LET chosen == Encoded(candidates.texts[i])
       IN  /\ Len(chosen) + BytesOfAll <= MaxBytes
           /\ histories' = [histories EXCEPT ![history_index] = insert(history, chosen)]
  /\ pinyin' = EmptyEditor
  /\ candidates' = NoCandidates
  /\ UNCHANGED <<vars, protected_slots, reply, history_index, interrupted, phase>>

\* The editors after a key that edits: a letter goes into the pinyin, the other
\* keys to the pinyin unless it is empty.
Edits ==
  LET keys(e)   == {backspace(e), erase(e), move_left(e), move_right(e)}
      typed     == IF Len(pinyin.text) < MaxLetters THEN {insert(pinyin, Utf8(Letter))} ELSE {}
      onPinyin  == {[pinyin |-> e, history |-> history] :
                      e \in typed \cup IF pinyin.text = <<>> THEN {} ELSE keys(pinyin)}
      onHistory == {[pinyin |-> pinyin, history |-> e] :
                      e \in IF pinyin.text = <<>> THEN keys(history) ELSE {}}
  IN  onPinyin \cup onHistory

\* The status of the last call is overwritten in the loop's body.
edit ==
  /\ AtPrompt
  /\ \E after \in Edits :
       /\ pinyin' = after.pinyin
       /\ histories' = [histories EXCEPT ![history_index] = after.history]
       /\ phase' = IF after.pinyin.text = <<>> THEN "key" ELSE "ask"
  /\ candidates' = NoCandidates
  /\ ret' = NoCall
  /\ UNCHANGED <<session_state, protected_slots, reply, history_index, interrupted>>

\* End of input, or the flag seen: the session, the manager and the engine are
\* destroyed.
leave ==
  /\ phase = "key" /\ phase' = "exit"
  /\ self_kv'        = [s \in Slots |-> ZeroLanes]
  /\ context_ids'    = [s \in Slots |-> <<>>]
  /\ current_seqlen' = [s \in Slots |-> 0]
  /\ history_seqlen' = [s \in Slots |-> 0]
  /\ fill_kv'        = [p \in Pos |-> Zero]
  /\ protected_slots' = {} /\ reply' = NoReply /\ ret' = NoCall
  /\ pinyin' = EmptyEditor /\ histories' = [s \in Slots |-> EmptyEditor]
  /\ history_index' = 0 /\ candidates' = NoCandidates /\ interrupted' = FALSE
  /\ UNCHANGED <<pc, gen>>

\* SIGINT in the loop's body.  While a key is read it only makes the demo leave, at
\* once or, when the read is not interrupted, with the next key.
handle_sigint ==
  /\ phase \in {"ask", "call"} /\ ~interrupted
  /\ interrupted' = TRUE
  /\ UNCHANGED <<vars, protected_slots, reply, editing, candidates, phase>>

-----------------------------------------------------------------------------
(* The rest of the loop's body *)

\* The segmentation is refused, or the ids cannot be copied: the error is shown.
request_refused ==
  /\ phase = "ask"
  /\ phase' = "key"
  /\ UNCHANGED <<vars, protected_slots, reply, editing, candidates, interrupted>>

\* Mutant: the whole text, wherever the cursor is.
model_history_WholeText == encode_context(history.text)

model_history == encode_context(text_before_cursor(history))

request_slot ==
  /\ phase = "ask"
  /\ get_context_auto(model_history)
  /\ phase' = "call"
  /\ UNCHANGED <<fill_kv, pc, gen, ret, editing, candidates, interrupted>>

\* The beams returned, as texts, best first.
Decoded == [i \in 1 .. Cardinality({l \in Lanes : gen.beams[l].active}) |-> gen.beams[i - 1].pred]

\* phono_session_generate goes on.
Running == phase' = phase /\ UNCHANGED <<protected_slots, reply, editing, candidates, interrupted>>

\* phono_session_generate returns PHONO_OK whenever there are beams; then they are
\* the candidates.  The ids are freed; with the flag up the loop ends here.
Returned(beams) ==
  /\ candidates' = IF beams = <<>> THEN NoCandidates ELSE [texts |-> beams, after |-> reply.asked]
  /\ reply' = NoReply
  /\ phase' = "key"
  /\ UNCHANGED <<protected_slots, editing, interrupted>>

\* The engine's poll: cancellation_check answers the flag.
Polled == ret'.err = "Cancelled" <=> interrupted

\* A pinyin of separators only has no syllable and one empty beam.
call_returns_at_once ==
  /\ phase = "call" /\ pc = "idle"
  /\ \/ generate_returns_early(reply.slot, reply.asked)
     \/ generate_cancelled(reply.slot, reply.asked) /\ Polled
     \/ generate_rejected(reply.slot, reply.asked) /\ Polled
  /\ Returned(IF ret'.err = "Ok" THEN <<<<>>>> ELSE <<>>)

call_starts ==
  /\ phase = "call" /\ ~interrupted
  /\ generate_starts(reply.slot, reply.asked)
  /\ Running

call_decodes ==
  /\ ~interrupted
  /\ first_decode \/ step_decodes
  /\ Running

\* Mutant: a call that found nothing, or an id it cannot go on from, is made again.
call_stops_Retries ==
  /\ first_decode_stops \/ step_stops_before_decoding \/ step_stops_after_decoding
  /\ Polled
  /\ IF ret'.err \in {"NoCandidates", "InvalidArgument"}
     THEN phase' = "ask" /\ UNCHANGED <<protected_slots, reply, editing, candidates, interrupted>>
     ELSE Returned(<<>>)

\* Cancelled between two steps the beams are returned, but not their texts.
call_stops ==
  /\ first_decode_stops \/ step_stops_before_decoding \/ step_stops_after_decoding
  /\ Polled
  /\ Returned(IF pc = "step" /\ ret'.err = "Cancelled" THEN [i \in DOMAIN Decoded |-> <<>>]
                                                        ELSE <<>>)

call_returns ==
  /\ generate_returns
  /\ Returned(Decoded)

ask_goes_on  == request_refused \/ request_slot
call_begins  == call_returns_at_once \/ call_starts
call_goes_on == call_decodes \/ call_stops \/ call_returns

DemoInit ==
  /\ Init
  /\ protected_slots = {}
  /\ reply = NoReply
  /\ pinyin = EmptyEditor
  /\ histories = [s \in Slots |-> EmptyEditor]
  /\ history_index = 0
  /\ candidates = NoCandidates
  /\ interrupted = FALSE
  /\ phase = "key"

DemoNext ==
  \/ switch_history \/ choose_candidate \/ edit \/ leave \/ handle_sigint
  \/ ask_goes_on \/ call_begins \/ call_goes_on

DemoSpec == DemoInit /\ [][DemoNext]_demo_vars

\* The control of call_begins, whose actions one of which is always possible: fairness
\* of it says that the call returns or reaches the decoder.
call_begun ==
  /\ phase = "call" /\ pc = "idle"
  /\ phase' \in {"call", "key"} /\ pc' \in {"idle", "first"}

\* The body of the loop is straight-line code that calls functions which return;
\* keys and signals come or do not.
FairDemoSpec ==
  /\ DemoSpec
  /\ WF_demo_vars(ask_goes_on)
  /\ WF_<<phase, pc>>(call_begun)
  /\ WF_demo_vars(call_goes_on)

-----------------------------------------------------------------------------
(* Properties *)

\* The cursor of every editor stands between two whole characters, whatever keys
\* were pressed: what is cut out, inserted or sent to the tokenizer is valid UTF-8.
EditorsHoldWholeCharacters ==
  /\ OnBoundary(pinyin)
  /\ \A s \in Slots : OnBoundary(histories[s])

\* A generation is conditioned on the newest part of the text before the cursor of
\* the history on the screen, that fits below the maximum, and on nothing else:
\* not when the slot held another history, was cut, slid or given up, nor when the
\* text is empty and no snapshot is passed.
Ledgered == INSTANCE CommittedText WITH
  Target <- eviction_target, Vocabulary <- Vocab, Failures <- {}, text <- context_ids, answer <- ret

GeneratesFromTextBeforeCursor ==
  pc # "idle" =>
    gen.ids = Ledgered!BelowMax(Ledgered!Windowed(encode_context(text_before_cursor(history))))

\* The candidates on the screen continue the text before the cursor.
CandidatesContinueText ==
  phase = "key" /\ candidates.texts # <<>> =>
    candidates.after = encode_context(text_before_cursor(history))

\* Every key is answered: the screen is drawn again or the demo ends.
KeyIsAnswered == phase \in {"ask", "call"} ~> phase \in {"key", "exit"}
=============================================================================
