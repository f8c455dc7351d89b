# Formal models of phono-core

phono-core turns pinyin into Chinese text with a small neural network that keeps
a key/value cache of the conversation. The network is a black box. What surrounds
it is ordinary stateful C++: a cache that is edited in place, slots that are
matched and recycled, a beam search that calls back into its client, a parser of
limits, and a segmenter of what the user typed. This directory models that code
in TLA+, checks the models with TLC and proves some of their properties with
TLAPS. Paths in this file are relative to the repository.

## 1. The system

| Part | Source | State it keeps | Operations |
|---|---|---|---|
| Cache storage | `src/context/kv_cache.cpp` | one tensor, lanes × positions | copy, broadcast, snapshot/restore, shift behind BOS, reorder lanes |
| Cache operator | `src/custom_ops/update_kv_cache.cpp` | none of its own | write rows at a position |
| Context slot | `src/context/context.{hpp,cpp}` | ids, `current_seqlen`, `history_seqlen`, a view of the cache | append, truncate, shift |
| Context manager | `src/context/context.cpp` | slots, which of them are protected, their value | `get_context_auto`: match, reuse, promote, demote, replace |
| Inference session | `src/engine/inference_engine.cpp` | a scratch cache; copies of one slot's ids and cursors during a call | `reset`, `fill`, `replace_context`, `generate` |
| Inference engine | same file | loaded networks, constant after loading | run pass 1, pass 2, the post model; `segment_pinyin` |
| Pinyin input | `src/core/pinyin_normalizer.cpp`, `src/algo/`, `src/core/tokenizer.cpp` | none | normalise, match words, decode gaps, repair |
| Configuration | `src/core/config.cpp` | the limits in use | `default_core_config`, `parse_core_config` |
| C ABI | `src/interface/phono_api.cpp` | handles, the last error's message, blocks given to the client | wraps all of the above |
| Editor | `src/apps/ime_editor.hpp` | a text, a cursor in bytes | insert, backspace, erase, move |
| Interactive demo | `src/apps/ime_demo_capi.cpp` | a pinyin line, several histories, the candidates on the screen, SIGINT's flag | one key after another |
| Line demo | `src/apps/cli_demo_capi.cpp` | handles, a generation's result, lines typed ahead, SIGINT's flag | pinyin, choice, commit, until interrupted |

How they interact. A client owns a manager and a session, and asks the manager
for a slot that already holds as much as possible of the text in front of the
cursor. It hands the slot to the session, which fills the rest and generates. The
session binds no slot. On each call it copies the slot's ids and cursors in
(`sync_from_context`), writes the slot's cache *directly*, and copies ids and
cursors back (`sync_to_context`). Its scratch cache outlives the call and the slot.
During `generate` the client's cancel callback runs between network executions.
The config is parsed once; its limits size the slots and bound the windows. All of
this is reached through the C ABI, which copies results into blocks its client frees.

What is hard here:

- *Two representations of one history.* A slot's cache, its ids and its two
  cursors are changed by different statements, some in place and some at the end
  of a call. Every early return must leave them describing one text.
- *Two kinds of state in one cache.* Pass 1 writes causal state, pass 2 writes
  conditional state over the last committed position in every lane. On each of a
  generation's exits the boundary must be put back.
- *A scratch cache that belongs to nobody.* It holds what the last call left.
- *Lanes that swap.* Beams change parents and their suffixes are exchanged.
- *Windows.* Histories are evicted from the front, with BOS kept as a sink, at
  three different places.
- *Slots at their limit.* Every reuse protects a slot, and a new text needs one.
- *Ownership across the ABI.* A round of a demo has many ways out and holds blocks
  of three kinds; every allocation may fail half way through a result.
- *A signal at any time.* SIGINT raises a flag the engine polls through the callback,
  while keys or lines typed earlier are still waiting to be read.
- *Histories without slots.* The interactive demo has as many histories as the
  manager has slots, but none owns one.
- *Ties and offsets.* The segmenter keeps one path per position and reports byte
  ranges of a text it has rewritten.

The code has no threads and persists nothing, so no module has crash recovery or
message loss. The interleavings are those of calls on slots, and of a generation
with its client, with failing executions and with a signal.

What makes each part correct, in one line each: the *cache* moves whole cells and
every lane reads the cells from before a reorder; a *slot's* cache is the pass-1
state of its ids; the *manager* returns the longest reusable piece and gives up
only unprotected text; the *session* commits what it is given or nothing, and a
generation leaves no trace; a *config* leaves room for all the windows; the *input*
is cut the best way and every byte typed is in a segment or an invalid range; the
*ABI* gives its client blocks it can free, a result that is whole when it says OK and a
message when it fails; a *demo* generates from the text before its cursor, answers every
key, frees what it holds and ends on SIGINT. Where the code falls short of one of these,
section 3 says so.

## 2. The modules

    KvCache --> Context --> InferenceSession --> InferenceSessionMC
                   |              |   '-- implements CommittedText
                   |              |
                   |              |-- ImeEditor --> ImeDemo --> ImeDemoMC
                   |              |
                   '-----> ContextManager --> ContextManagerMC

    CApi --> CliDemo
    CoreConfig --> CoreConfigMC
    PinyinInput --> PinyinInputMC

The modules with the proofs:

    InferenceSession, ContextProofs --> InferenceSessionProofs
    ContextManager, ContextProofs, NaturalsFacts --> ContextManagerProofs
    ImeDemo, InferenceSessionProofs, ContextManagerProofs --> ImeDemoProofs
    PinyinInput, NaturalsFacts --> PinyinInputProofs
    CliDemo --> CliDemoProofs
    CoreConfig --> CoreConfigProofs

(arrows read "is extended by"). Names follow the C++ names.

**KvCache** is the tensor as a function from lanes to functions from positions to
cells, with one pure operator per method. A cell stands for the K and V rows of
all layers at one position: every method moves those together.

**Context** holds the variables of the slots, shared by session and manager, and
says what a cell *is*: its token, the kind of execution that wrote it (`causal`,
`mixed` for pass 1 over something that was not causal, `cond` for pass 2, `torn`
for a failed execution, `zero`), and for causal cells the tokens they attended
to. The last is a ghost: the program cannot see it, the properties need it.
`shift_cached_tokens` forgets the part of it that was evicted, because
`docs/cache-semantics.md` accepts a shifted cell as an approximation.

**InferenceSession** is the core. `sync_from_context` builds a record, the
session's view of a slot; each `*_impl` function of the C++ is an operator from a
view (and the arguments) to an outcome, a view and an error, so early returns keep
their order; `sync_to_context` writes the outcome to the slot. `reset`, `fill` and
`replace_context` never give control away and are one action each. `generate` is
cut where the code polls for cancellation or can return:

| Action | Code |
|---|---|
| `generate_returns_early`, `generate_cancelled`, `generate_rejected` | snapshot, window, pinyin checks, the first poll and the checks behind it |
| `generate_starts` | up to the first decoder execution; takes the boundary snapshot |
| `first_decode`, `first_decode_stops` | first pass-2 execution, broadcast, first beams; or poll, error, no candidates |
| `step_decodes`, `step_stops_before_decoding`, `step_stops_after_decoding` | one round of the loop and its four exits |
| `generate_returns` | the result |

Every exit of a started generation goes through `Finish`, the destructor that
restores the boundary, and then `sync_to_context`. While a generation is in
progress the model keeps its locals in `gen`, and the slot's ids and cursors stay
at their old values, as in the code.

**CommittedText** is what a client may rely on, with no cache, cursors, beams or
polls: one action per call, with the call's slot and ids. A fill or a replacement
answered Ok has committed exactly its argument, windowed. An error leaves what the
action says: nothing changed (ids out of the vocabulary), what a fill had evicted to
make room (`Spared`), nothing of a text that was being rebuilt (`Undone`). A generation
commits its snapshot and none of its candidates. `InferenceSession` implements it with
the mapping in its last section, and `CallsAreTheLedgers` ties the two call by call: a
`fill(s, ids)` of the session is the ledger's `Fill(s, ids)` and no other action.

**ContextManager** is `get_context_auto` as three actions, by what it returns (a
prefix, a piece from the middle, a recycled slot), with an action
`session_commits` for everything a session does to a slot between two requests.

**CoreConfig** parses inputs one after another against a fixed package. A value is what
stands in the JSON text, and `Converted` is what `object.value(key, int32_t)` makes of
it: integers keep their low 32 bits, fractions are cut off, booleans become 0 and 1. What
the language leaves to the build (a sum past the largest int32, a double outside int32)
is an arbitrary choice (`Builds`).

**PinyinInput** is `segment_pinyin` with all it calls. The call's decodings
(strict validation, diagnosis, the final decode) are stages, and the Viterbi is
one action per start position, so that its invariant can be stated between two
rounds. `call_returns` clears the call's locals: the function is `const` and
nothing survives it. The vocabulary is a sequence, as the file gives it, for the repair
is a loop over it that has to come out the same in any order.

**ImeEditor** is the editor class as operators over a record of text and cursor. The
text is a sequence of bytes, each of which knows its character and its place in it,
so that a cut in the middle of a character can be seen.

**ImeDemo** composes the components as the interactive demo does. A key that edits
(`edit`), chooses (`choose_candidate`) or switches (`switch_history`) changes the
editors; the rest of the loop's body is cut where the demo calls: `request_refused`
and `request_slot` (the segmentation, `encode_context` and `get_context_auto`, which
is `ContextManager`'s own action, given the request), then `phono_session_generate`
(`InferenceSession`'s own actions, given slot and snapshot), so that `handle_sigint`
can come between any two of its steps. The callback answers the flag: a step that polls is
taken only with the answer the flag gives (`Polled`). The manager and the session
share the variables of the slots, as the objects do, and were created from one config.

**CApi** is the ABI as a client meets it, one operator per call: what the call
allocates, where it leaves the pointers, what it answers and whether it says why.
What a call computes is left to the other modules, so an answer is any of those they
allow. Any allocation may fail; a failure in the middle of copying the beams leaves
the pointers behind it `Uninitialised`.

**CliDemo** is `main` of the line demo over CApi, `phase` standing for the call that
comes next. Its start-up is also, call for call, the interactive demo's. `LineReader`
is a state of its own (`reading`, `pending`), and `handle_sigint` comes at any moment:
between two calls, in one, or in a blocked read, which may then end or may not. Two
things the demo does are undefined in C++ and end in the phase `undefined`: freeing a
result whose copy ran out of memory, and printing or choosing a text that is NULL.

Definitions with an underscore and a suffix (`EvictTo_WithoutBos`) are mutants:
the named definition with a plausible mistake. Nothing uses them in the model;
each exists to show that a property notices that mistake.

## 3. What is checked

| Run | Question | Result |
|---|---|---|
| `session_beam` | Do all returns of all calls leave cursors, ids and cache describing one history, with failing models and cancellation, when both passes write the slot itself? | holds |
| `session_deep_beam` | After two reorders, does each lane read its own beam; are candidates distinct? | holds |
| `session_scratch` | The same history property with both passes through the scratch cache; does each call commit, or leave behind when it fails, what `CommittedText` says of that call with those ids? | holds |
| `session_bos_only` | Is the first query the last committed token? | **no**, see below |
| `session_no_slack` | Is every valid snapshot accepted with `slack_interval = 0`? | **no** |
| `manager` | Longest reuse, caches that match ids, protection that neither starves new texts nor drops protected ones | holds |
| `config` | Does what is accepted fit together; is every complete config of the documented ranges accepted, and only what is read as one? | holds |
| `pinyin_input` | Is the Viterbi exact; is every byte of the input accounted for; does strict mode refuse exactly the illegal; is a repair the nearest word, the smallest of several? | holds |
| `ime` | Editor, manager and session together: is every generation about the text before the cursor of the history on the screen, and are the candidates shown its own? Does the scratch cache leak from slot to slot? | holds; it does not |
| `ime_answers` | Is every key answered; is the cursor always between whole characters? | yes |
| `cli` | Does the line demo own exactly what it can free, with every answer and every allocation failing; does it clean up, get whole results behind PHONO_OK, and end on SIGINT if its reads return? | holds, up to the phase `undefined` |
| `cli_typed_ahead` | Does a candidate that can be chosen have a text? | **no**, see below |

The three runs marked **no** document disagreements between code and text:

- *A history that is only BOS.* An empty snapshot on a slot with text leaves
  `history_seqlen = 1` and no ids, and `generate` then calls `back()` on an empty
  vector (`inference_engine.cpp:942`). `cache-semantics.md:8` promises the last
  committed token, which is BOS.
- *No slack.* `slack_interval = 0` is documented as legal, but then the window in
  front of a generation asks `truncate_history` to truncate nothing, which it
  refuses: a full slot answers InvalidArgument to every generation.
- *Cancelled, and OK.* `phono_session_generate` answers PHONO_OK for a generation
  cancelled with beams in hand, whose texts are NULL (`phono_api.cpp:545`);
  `c-api.md:41` and `phono_api.h:59` say otherwise. The line demo hands out lines typed
  ahead although the flag is up, takes the choice and builds a string from NULL. It has
  streamed the NULL texts to `std::cout` before (lines 251-254).

Other disagreements the models show; the properties that touch on them say which part
they leave out:

- *Ctrl-C at a prompt.* The handler raises a flag that is looked at before a read and
  when a read is interrupted. With `std::signal` the read is restarted where the C
  library has BSD semantics, so the demo sits in `read` (`cli_demo_capi.cpp:83`) with the
  flag up, having said "Press Ctrl-C to stop." (line 176) and "or ctrl-c to stop" (line
  260). `InterruptEnds` shows that such a read is the only thing, besides undefined
  behaviour, that keeps it from ending.
- *Failures that say nothing.* `phono_api.h:156` promises a message "describing the last
  failed phono_* call". Creations set one; calls that run out of memory while copying
  their result (`phono_api.cpp:274`, 132, 517), and those that answer the session's
  error, set none, and the message of an older failure stays. No property is about it.
- *Numbers that are converted.* `object.value(key, int32_t)` checks no range, so 2^32 + 2
  is read as 2 and accepted as the beam size of a model with two beams
  (`config.cpp:160`); `core-config.md:68` says it equals the batch size.
  `AcceptsWhatIsDocumented` is about values as they are read.
- *The largest integer.* `max_context_length + 1` overflows in its own check
  (`config.cpp:176`), and a build that wraps accepts 2147483647. `AcceptedConfigFits` does
  not hold with this value, which run and theorems exclude.
- *Requests longer than a slot.* `get_context_auto` matches their newest ids only
  (`context.cpp:204`), while `context.hpp:111` tells the caller to fill its own ids from
  `context_ids_len()` on: these do not follow the slot's text. `ReplyIsReadyToFill` is
  about requests that fit. The demos pass the whole snapshot to `generate` instead.
- *A result that cannot be freed.* When a beam's copy runs out of memory
  (`phono_api.cpp:529`), the beams behind it hold pointers nobody set, and the result is
  freed by the demos all the same (phase `undefined`).

Smaller ones, read in the code and not modelled: `config.hpp` calls the defaults always
valid, but for a package whose cache is hardly longer than its pinyin window they are
not; a large `decay_alpha` makes every slot value infinite and `weakest_slot` return the
number of slots; `partial_sort` is handed more elements to sort than exist when few
logits are finite (`inference_engine.cpp:1082`); the header says `reset` zeroes, but the
cache keeps its bytes; `architecture.md:20` says `generate` never changes the history,
but the window may evict; the default slack comes from the default history, not the one
supplied, so leaving it out can turn a legal config into a refused one (`config.cpp:153`
says it never does); a pinyin line of ill-formed UTF-8 makes the JSON writer of the
line demo throw, which nothing catches.

### Bounds

*Session runs.* One slot, one or two lanes, a window of two or three ids, one to three
pinyin ids, two token values, arguments of up to two or three ids (`FillBound`,
`ContextBound`; `Snapshots` are those passed to `generate`), in `session_beam` with and
without BOS and with an id out of the vocabulary. The branches of `fill_incremental`
occur between them: no eviction; eviction that keeps something (`session_scratch`, a
window of three with slack one); eviction that keeps nothing; an argument longer than
the window (`session_beam`, three ids for a window of two). The cache of `session_beam`
is one position longer than the config demands, so a write past the end would be seen as
an error rather than hidden by luck. Three pinyin ids are the fewest for a second
reorder that moves an already reordered position. Token values matter only by equality,
so the other session runs use them as a symmetry set. `ModelFaults` names the executions
that may fail: both in `session_beam`, the prefill in `session_scratch`, none in
`session_deep_beam`, which is about lanes. `Candidates` includes an id with no context
id, which ends a search. `session_scratch` compares whole calls with the ledger's by
their ids, so its arguments are listed one by one and its tokens are not symmetric: some
that are committed whole, some that move the window or are longer than it, some with BOS
in front and some out of the vocabulary.

*Demo runs.* Two histories over two slots are the fewest where a slot can be taken
from one history for the other. `MaxBytes` bounds the text of both together to two,
which fills a window of two and evicts; `MaxLetters` is one, for what the pinyin says
is any number of syllables. `ime` has one syllable and two characters, `ime_answers`
two syllables, so that calls stop in each of their steps, and a character of two
bytes without an id. Executions do not fail here: `session_beam` asks that.

*Line demo runs.* A signal comes once, at any step. Two beams, so that a copy can fail
before, inside and behind a beam, and up to two lines from one read, one of which is
then typed ahead.

*Manager run.* Three slots are the fewest where one stays on trial while two are
protected and a third reuse demotes. The texts (`Texts`, `Requests`) repeat a pattern,
so that one request matches in front, at one middle offset, at two middle offsets before
and behind the slack, nowhere, or exceeds a slot (`ReplyIsReadyToFill` is about those
that do not). The empty text comes both with a
history of BOS alone and with none; `Ahead` leaves the generation cursor one position in
front of the history, as a generation that returned does. Slot values are products of
the wall clock: any unprotected slot may be the weakest.

*Config runs.* All combinations around the limits of two packages for the four
keys that are checked against one another, one bad value for each other check, and for
each key values that the conversion changes: integers of more than 32 bits, fractions,
booleans, doubles out of range, and values that are no numbers. `IntMax` is 100, and no
context length is read as that (`NoOverflow` of the theorems).

*Input run.* All inputs of up to five characters over a capital consonant, `v`, a
vowel, a separator and a two-byte letter, over words of which one is a prefix of
another and a split of a third, so there are ties to settle, dead ends for a greedy
match and forced boundaries inside words. Logits are -1 or 1 for each gap, so any
pair of paths can be ordered either way. `MaxChars` of five and `MinScored` of two
make the limit and the bypass of the scorer both occur. For the repair
two words are added that nobody types, "bv" and "bb", and the vocabulary is in no order:
a lone `v` is as near to "bv" as to the words of one letter, and "bb", smaller than all of
them, is one edit farther off, so letters decide; the two-byte letter occurs in no word
and is as near to all of one and two letters, of which the smallest is the second.

### Fairness

`FairDemoSpec` (`ime_answers`) has weak fairness of the loop's body: it is
straight-line code in one thread, a network execution and the callback return, so a
call that can go on does. The fairness of the call's first step is stated over its
control (`call_begun`): whatever it does, it returns or reaches the decoder. Nothing
is assumed of the user: a key, a choice or a signal may never come.

`CliSpec` has weak fairness of every step that does not wait for input: of the calls,
and of `LineReader` up to the `read` it makes. Nothing is assumed of a `read` that was
begun (`reading`): it may return with lines, with the end of the input, with EINTR, or
never, signal or not, since whether a signal interrupts it is the platform's affair. So
`InterruptEnds` has for its hypothesis that no read lasts for ever and nothing undefined
happens. Input comes in whole lines.

### Assumptions made in the models

- A failed execution may have written any part of the cells it was to write and
  no others. Those cells become `torn`.
- The post model's length is the length of the pinyin, and its limit is part of
  `MaxPinyin`; the constructor admits pass-2 batches of 0 or the beam width.
- The decoder's rows of one step are all finite or all without a finite logit.
- Reading `back()` of an empty vector yields any value.
- Gap scores are integers: rounding of float sums is not modelled.
- Characters without normalisation: one of the demo's characters stands for all
  those normalised to the same one.
- A constructor behind the ABI throws only exceptions the ABI catches; JSON parsed
  from the library's own documents is well-formed.
- Inputs are well-formed UTF-8. (With ill-formed bytes around a separator,
  removing it can join two fragments into one code point, and an invalid edge may
  then cross the boundary.)

## 4. What is proved

The theorems hold for all constants that satisfy the named assumptions of the
modules (`CacheShape`, `SlotConfig`, `SessionConfig`, `ManagerConfig`, ...), that is,
for any number of slots, lanes, beams and tokens and any window sizes that fit
together; `AcceptedConfigAlwaysFits` says that those of a parsed config do. Two
hypotheses come on top where the code needs them. `MaxHistory <= SlotCapacity` says
that a slot has room for the window: a client may create session and manager from
different configs, and where the limits do not fit `sync_to_context` throws behind a
cache already written. `SlackInterval > 0` excludes the disagreement of
`session_no_slack`. The demo's theorems need neither: it creates both from one config
(`ime_demo_capi.cpp:276`), whose limits fit (`DemoConfig`).

**Configuration** (`CoreConfigProofs`). For every package and every set of inputs in
which no context length is read as the largest int32 (`NoOverflow`, the overflow of
section 3), a config in use leaves room for BOS, a full history and a full pinyin window
(`AcceptedConfigAlwaysFits`). `DocumentedConfigsAreAccepted`: every complete config of
int32 values within the documented ranges is accepted, and one that is accepted is
within them as it was read. The invariant is inductive as it stands; the work is in
`CheckFits`, which walks the early returns, and in `ConvertedType`, which says that a
conversion gives an integer and leaves an int32 alone.

**Session, cursors** (`InferenceSessionProofs`). `CursorsAlwaysAgree`: ids and cursors
of every slot describe one history within the window, before, during and after each
call. `WindowAlwaysSuffices`: with room for the window no call runs out of cache
positions. The invariant `SessionInv` is stronger than both. `CursorsAgree` speaks of
a generation's ids *in place of* its slot's; if `sync_to_context` throws, the slot's
own ids are what is left, so `SlotsInv` must hold of them too, all along. And the
bound on the cursor survives a decoding step only if the cursor is known to be the
position of the next token: `GenInv` ties `gen.cur` to `gen.step` while the loop runs.
The proof follows the code: a lemma per `*_impl` operator says that it takes a good
view to a good outcome (`CommitOutcome`, ..., `PreparedOutcome`), `SyncKeepsSlots`
carries an outcome to the slots, and there is one case per action.

**Session, calls and text** (`InferenceSessionProofs`).

- `CancelAlwaysRestoresCursor`. `CancelInv` also speaks of the time in which another
  generation runs, whose slot still has the cursors of the call before.
- `ValidSnapshotIsAlwaysAccepted`: with a positive slack no valid snapshot is refused.
  Each operation on a view is followed for the error it answers: where it can fail on
  its own account, a guard in front of it has already excluded that.
- `SessionImplementsCommittedText`: the refinement of section 2, call by call. Each
  operation is followed for the ids it commits and for those it leaves behind with each
  error (`FillText`, `ReplaceText`, `PreparedText`), by lemmas about the newest ids of
  two sequences (`NewestOfBoth`) and about the two windows (`LedgerWindows`). Then every
  call is the ledger's call (`FillImplements`, `ReplaceImplements`,
  `PreparationImplements`, ...) and every step of the decoding its `Answer` or a
  stutter (`DecodingImplements`). Of `CacheInv` only the types are
  needed: the answer of an idle session is an error of the code and not the ledger's
  "Pending". That `fill` cannot commit and then answer an error is `MaxHistory <=
  SlotCapacity`: the throw of `sync_to_context` does not occur.

**Session, caches** (`InferenceSessionProofs`).

- `CommittedHistoryIsAlwaysCausal`: each committed position of each lane holds the
  pass-1 state of the token it claims, whatever failed or was cancelled before.
- `BeamsAlwaysReadTheirOwnPast`, for any number of beams, steps and reorders, and
  `ActiveBeamsAreAlwaysDistinct`.
- `SessionTypesHold`: types of all variables, of every cell and every beam.

None of these is inductive. `CommittedHistoryIsCausal` exempts the boundary of a
generation in progress, and that it comes back needs to be known *during* the
generation: `GenHolds` says that the snapshot taken in front of the first decoding
(`gen.clean`) is the causal cell of the boundary, that all lanes hold the history in
front of it, and before the first decoding the boundary too. `BeamReadsItsOwnPast`
survives a reorder only if the beams chosen carry the prefixes of their parents' lanes
and the cells behind the boundary are those of the parents. The lemmas say of each
operation that a view whose lanes hold its history (`CacheView`) becomes one that does,
and of the decoder that all but the boundary is left alone (`DecodeView`); the ids they
speak of move by `ShiftedHistory` (evicted in front) and `HistoryCell`
(`ContextProofs`). The reorder's arithmetic is in `StepPositions` and `StepCells`. The
throw of `sync_to_context` is where `MaxHistory <= SlotCapacity` enters (`Roomy`): the
cache is written in place, the ids are not. `CacheInv` was first model-checked on the
session runs' instances.

**Manager** (`ContextManagerProofs`), for any slots, texts and requests.

- `ReplyIsAlwaysReady`, `SlotsAlwaysHoldTheirHistory`: the slot returned for a request
  that fits one holds an initial piece of it and every cache is that of its ids.
- `LongestPieceIsAlwaysReused`: whatever the preferences for prefixes and slack
  choose, no slot held more of the request.
- `TrialSlotsAlwaysRemain`, `ProtectedTextAlwaysSurvives`, `ManagerTypesHold`.

`ManagerInv` joins them: that a piece slid down is causal needs every lane of every slot
to be causal before (`SlotsInv`, with both cursors), and that a slot to give up is on
trial needs the number of protected slots (`ProtectionInv`). `CommonIsLongest` and
`BestIsLongest` say what the matching loops find; the latter needs that a finite set of
numbers has a greatest one, which `NaturalsFacts` derives.

**Interactive demo** (`ImeDemoProofs`), for any number of histories, any encoding in
one to four bytes, any keys and signals.

- `EditorsAlwaysHoldWholeCharacters`: no cursor stands inside a character.
- `AlwaysGeneratesFromTextBeforeCursor`, `CandidatesAlwaysContinueText`: a generation
  starts from the newest part of the text before the cursor that fits, whichever slot
  the manager picked, and the candidates on the screen belong to it.
- `DemoHistoryIsAlwaysCausal`, `DemoWindowAlwaysSuffices`: the session's guarantees
  survive the manager, which cuts, slides and zeroes slots between its calls.

`DemoInv` joins the invariants of the parts with two of its own. `EditorsInv` is
stronger than its theorem: a cut or an insertion keeps a cursor between two characters
only if the text around it is made of whole ones (`WholeCut`, `WholeConcat`).
`RequestInv` ties the slot and the text of a request together up to the moment its
candidates leave the screen. It needs two things the properties do not say: without
text no snapshot is passed, so the slot must be empty *already*, which the manager's
reply gives; and candidates stay only while a key is awaited. The parts are composed in
two lemmas. `SessionLeavesGoodSlots`: an idle session leaves the slots as the
manager's proof expects them. `RequestKeepsSession`: the manager's answer gives the
session's invariants back. A step of a call is then the session's own step, and its
lemmas are cited as they are.

**Line demo** (`CliDemoProofs`), for every beam size and any amount of typing: the
three safety properties of the `cli` run (`OwnsItsBlocks`, `LeavesNothing`,
`OkIsWhole`). `HeapIsOwned` alone is not inductive: that freeing one
pointer takes nothing from another needs to know that the blocks are different ones
(`BlocksDiffer`, `ResultShape`), and that assigning a pointer loses nothing needs to
know that it was NULL in that phase (`PointersInPhase`). `IInv` adds these and what
has been created in each phase (`HandlesInPhase`), from which `LeavesNothing`
follows. The work is in `GenerateInv`, where the copy of the beams may stop at any
allocation.

**Pinyin input** (`PinyinInputProofs`), for any vocabulary, any input and any integer
logits.

- `PathsAreAlwaysBest`: the Viterbi is exact. Whenever it comes to a position, the one
  path kept there is a route to it and no route is better.
- `StrictAlwaysAcceptsExactlyLegal`: strict mode answers Ok exactly when there is a legal
  cut, and ranges are reported exactly when there is none, although the answer and the
  ranges come from different decodings.
- `RangesAlwaysPointAtInput`: invalid ranges are in order and apart, are typed bytes of
  whole characters, and hold as few of them as any cut leaves over.
- `TextIsAlwaysAccountedFor`: without repair the segments spell the normalized
  characters outside these ranges, all of them and in order.
- `RepairIsAlwaysNearest`: the word put in place of an invalid character is one that no
  word of the vocabulary is nearer than, counted in letters and not by the recursion
  that finds it, and the smallest of those that are as near, in whatever order the
  vocabulary lists them.
- `InputAlwaysTyped`: every segment answered is a word of the vocabulary.

`PathsAreBest` speaks of the positions already passed; in `PathsInv` the path kept at
*every* position is a best one of the routes whose last edge was already tried
(`Tried`). One edge is one comparison (`TriedEdge`), and settling it at once is right
for two reasons: the order of routes is a strict one, also between ties (`BetterAsymmetric`,
`BetterWeak`), and a common last edge does not change it (`BetterAppend`: the three
counters of a path grow by what the edge adds, and the first longer token is either in
front of it or nowhere). `TriedNext` adds up a round and `TriedAll` says that when the
decoding comes to a position no edge that ends there is left. `StagesInv` ties each
decoding to what the decodings in front of it have shown. That a refused input
has ranges at all needs a route of words and single characters, and this needs the
normalized bytes to be whole characters in the order typed (`Written`), which is shown
of `normalize_pinyin` code point by code point (`ReadStep`).

The last four (`AnswersInv`, `TypesInv`) are about the answer to the best path, which is
put together edge by edge. A route is a chain: each edge begins where the one before
ends (`RoutesAreChains`). After each edge the ranges hold exactly the bytes of its
invalid edges (`RangesAnswered`, with the joining of neighbours in `RangeAdded`) and the
segments spell exactly the others (`TextAnswered`); that a range of offsets holds no
byte by accident is where the order of the offsets enters (`Ordered`). The characters in
the ranges take an invalid edge each (`LeftOverCount`), and no route has fewer of those.
For the repair, an invalid edge is one character; its bytes are equal in the model and,
if there are several, in no word, so that the table of `edit_distance` has a closed form
(`Dist`, row by row in `DistanceIsEdits`). The loop over the vocabulary keeps the word
that is ahead of all those before it (`LoopKeeps`, `NearestIsFound`), and what is behind
a word is behind the next one kept because the order of words is a strict and total one
(`SmallerIsStrict`, `SmallerIsTotal`). All these invariants were model-checked first.

Normalization, routes, scores and answers are functions defined by recursion on a
number, and the library's induction theorems are out of reach. `NaturalsFacts` gets by
without them, for a set given beforehand: what contains 0 and with each number below n
the next one contains n (`Climb`). `StepwiseFunction` derives from it that a function
given step by step exists, so that it has the values its definition says, and
`FlattenStays` in `ImeDemoProofs` treats concatenation in the same way.

Only model-checked: liveness (`KeyIsAnswered`, `InterruptEnds`), which is beyond the
prover, and the properties of the violation runs.

## 5. What is not modelled

The networks, their loading and tensor shapes; vocabulary files, text
normalisation and the traditional-to-simplified dictionary (table look-ups); the
engine config and package readers (one field after another); the lists of
normalisation events and the wording of diagnostics; the code generators and the
build, which run once; the benchmark, which measures a fixed list of generations. Of
the ABI, `reset` and `replace_context` (answers as `fill`, no client among the demos),
`decode`, accessors and look-ups, which change nothing, and null arguments. Of the
demos, the terminal, key codes, texts printed, and latencies. `ImeDemo` leaves out that
`phono_session_generate` may run out of memory while it copies its candidates: what the
ABI then answers and leaves behind is `CApi`, with `CliDemo` as its client.

## 6. Plan

Done: KvCache, Context, InferenceSession with CommittedText, ContextManager,
CoreConfig, PinyinInput; the composition of manager, session and client (ImeEditor,
ImeDemo); the ABI and its client (CApi, CliDemo). Every safety property of the
passing runs is a theorem, `ImplementsCommittedText` included.

Next models: `session_commits` of the manager as a refinement of what ImeDemo's
session really does to a slot; `parse_engine_config` beside `parse_core_config`.

Next proofs: the manager's `session_commits` as that refinement.

## 7. Running

    tlc -config SessionBeam.cfg InferenceSessionMC
    tlapm InferenceSessionProofs.tla

Each configuration says in its first comment which instance it is; the runs take
from a second to about a minute and a half on two cores. PROJECT.json lists them with
their properties, the source lines of every definition, the mutants and the hazards
that the properties answer.
