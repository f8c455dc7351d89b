------------------------------ MODULE PinyinInput ------------------------------
(***************************************************************************)
(* From what the user typed to pinyin tokens: normalize_pinyin             *)
(* (src/src/core/pinyin_normalizer.cpp), the trie and the gap Viterbi      *)
(* (src/src/algo), the nearest-token repair of the tokenizer, and          *)
(* InferenceEngine::segment_pinyin, which drives them.                     *)
(*                                                                         *)
(* Characters are code points; positions and offsets are bytes, as in the  *)
(* code.  The gap scorer is external: its logits are an arbitrary choice.  *)
(* The Viterbi is one action per start position.                           *)
(***************************************************************************)
EXTENDS Integers, SequencesExt

CONSTANTS
  Words,       \* the pinyin vocabulary, in the order of its file: words of ASCII letters
  Separators,  \* normalization.separators
  LowerAscii,  \* normalization.lowercase_ascii
  VToU,        \* normalization.normalize_v_to_u
  MaxChars,    \* tokenizer.max_pinyin_chars
  MinScored,   \* the scorer's min_input_chars; 0 when there is no scorer
  Logits,      \* bound: the values of a gap's logit
  Inputs       \* bound: what the user typed, as code points

ASSUME InputConfig ==
  /\ Words \in Seq(Seq(97 .. 122) \ {<<>>}) /\ Words # <<>>
  /\ Separators \subseteq Nat /\ Separators # {}
  /\ Separators \cap (65 .. 90 \cup 97 .. 122) = {}
  /\ LowerAscii \in BOOLEAN /\ VToU \in BOOLEAN
  /\ MaxChars \in Nat \ {0} /\ MinScored \in Nat
  /\ Logits \subseteq Int /\ Inputs \subseteq Seq(Nat)

Vocab == Range(Words)

VARIABLES
  request,    \* the call in progress or answered last, with the engine's segment_mode
  canonical,  \* its normalized characters, one entry per byte
  stage,      \* which of the call's decodings runs
  decoding,   \* gap logits, whether invalid edges are allowed, next start position
  best,       \* position -> the best path found to it
  result      \* what the call answered

vars == <<request, canonical, stage, decoding, best, result>>

-----------------------------------------------------------------------------
(* Normalization *)

\* Bytes of a code point in UTF-8.
Width(c) == IF c < 128 THEN 1 ELSE IF c < 2048 THEN 2 ELSE IF c < 65536 THEN 3 ELSE 4

Lowered(c) == IF LowerAscii /\ c \in 65 .. 90 THEN c + 32 ELSE c

JQXY == {106, 113, 120, 121}

\* One code point: a separator forces a boundary in front of the next character
\* unless nothing precedes it; v is u right behind j, q, x and y.
NormalizeNext(acc, c) ==
  IF c \in Separators
  THEN [acc EXCEPT !.at = @ + Width(c), !.forced = @ \/ acc.out # <<>>]
  ELSE LET lower == Lowered(c)
           norm  == IF /\ VToU /\ lower = 118 /\ ~acc.forced
                       /\ acc.out # <<>> /\ Last(acc.out).char \in JQXY
                    THEN 117 ELSE lower
       IN  [at     |-> acc.at + Width(c),
            forced |-> FALSE,
            out    |-> acc.out \o [i \in 1 .. Width(c) |->
                         [char |-> norm, byte |-> i, from |-> acc.at + i - 1,
                          forced |-> i = 1 /\ acc.forced]]]

NothingRead == [at |-> 0, forced |-> FALSE, out |-> <<>>]

normalize_pinyin(input) ==
  LET read[i \in 0 .. Len(input)] ==
        IF i = 0 THEN NothingRead ELSE NormalizeNext(read[i - 1], input[i])
  IN  read[Len(input)].out

-----------------------------------------------------------------------------
(* The trie and the edges out of a position *)

Size == Len(canonical)

Word(chars, begin, end) == [i \in 1 .. end - begin |-> chars[begin + i].char]

\* Mutant: a gap taken for the position in front of it.
next_forced_end_OffByOne(begin) ==
  LET forced == {gap \in begin + 1 .. Size - 1 : canonical[gap + 1].forced}
  IN  IF forced = {} THEN Size ELSE (CHOOSE g \in forced : \A h \in forced : g <= h) - 1

\* The first forced boundary behind a position, or the end.
next_forced_end(begin) ==
  LET forced == {gap \in begin + 1 .. Size - 1 : canonical[gap + 1].forced}
  IN  IF forced = {} THEN Size ELSE CHOOSE g \in forced : \A h \in forced : g <= h

Edge(begin, end, invalid) == [begin |-> begin, end |-> end, invalid |-> invalid]

\* Trie::match_lengths: where the words end that start here.
match_lengths(begin) ==
  {end \in begin + 1 .. next_forced_end(begin) : Word(canonical, begin, end) \in Vocab}

\* One character of any kind: where it ends, if one starts here.
CharEnds(chars, begin) ==
  IF chars[begin + 1].byte = 1 THEN {begin + Width(chars[begin + 1].char)} ELSE {}

-----------------------------------------------------------------------------
(* Viterbi *)

Unreachable == [reachable |-> FALSE, invalid_char_count |-> 0, gap_score |-> 0, edges |-> <<>>]
Origin      == [Unreachable EXCEPT !.reachable = TRUE]

Length(edge) == edge.end - edge.begin

\* The first edge in which two paths differ is longer in the first path.
LongerFirst(p, q) ==
  \E i \in DOMAIN p :
    /\ i \in DOMAIN q /\ Length(p[i]) > Length(q[i])
    /\ \A j \in 1 .. i - 1 : Length(p[j]) = Length(q[j])

\* Mutant: the score comes before the invalid characters.
prefer_ScoreFirst(path, current) ==
  \/ ~current.reachable
  \/ path.gap_score > current.gap_score
  \/ /\ path.gap_score = current.gap_score
     /\ path.invalid_char_count < current.invalid_char_count

prefer(path, current) ==
  IF ~current.reachable THEN TRUE
  ELSE IF path.invalid_char_count # current.invalid_char_count
  THEN path.invalid_char_count < current.invalid_char_count
  ELSE IF path.gap_score # current.gap_score
  THEN path.gap_score > current.gap_score
  ELSE IF Len(path.edges) # Len(current.edges)
  THEN Len(path.edges) < Len(current.edges)
  ELSE LongerFirst(path.edges, current.edges)

\* The gap an edge ends in; the end of the input has none.
GapLogit(logits, edge) == IF edge.end \in DOMAIN logits THEN logits[edge.end] ELSE 0

\* The path kept at the end of an edge, once the edge is tried behind path `old`.
append_candidate(old, edge, current) ==
  LET path == [reachable |-> TRUE,
               invalid_char_count |-> old.invalid_char_count + IF edge.invalid THEN 1 ELSE 0,
               gap_score |-> old.gap_score + GapLogit(decoding.gap_logits, edge),
               edges |-> Append(old.edges, edge)]
  IN  IF old.reachable /\ prefer(path, current) THEN path ELSE current

\* One start position of decode_gap_viterbi: the words, then the invalid character.
decode_gap_viterbi ==
  LET begin   == decoding.begin
      old     == best[begin]
      matched == [p \in DOMAIN best |->
                    IF p \in match_lengths(begin)
                    THEN append_candidate(old, Edge(begin, p, FALSE), best[p]) ELSE best[p]]
  IN  /\ stage \in {"validate", "diagnose", "decode"}
      /\ begin < Size
      /\ best' = [p \in DOMAIN best |->
                    IF decoding.allow_invalid /\ p \in CharEnds(canonical, begin)
                    THEN append_candidate(old, Edge(begin, p, TRUE), matched[p]) ELSE matched[p]]
      /\ decoding' = [decoding EXCEPT !.begin = begin + 1]
      /\ UNCHANGED <<request, canonical, stage, result>>

Zeros(chars) == [gap \in 1 .. Len(chars) - 1 |-> 0]

Decode(which, chars, logits, allow) ==
  /\ stage' = which
  /\ decoding' = [gap_logits |-> logits, allow_invalid |-> allow, begin |-> 0]
  /\ best' = [p \in 0 .. Len(chars) |-> IF p = 0 THEN Origin ELSE Unreachable]

-----------------------------------------------------------------------------
(* Repair and the answer *)

edit_distance(a, b) ==
  LET dp[i \in 0 .. Len(a)] ==
        LET row[j \in 0 .. Len(b)] ==
              IF i = 0 THEN j ELSE IF j = 0 THEN i
              ELSE IF a[i] = b[j] THEN dp[i - 1][j - 1]
              ELSE 1 + Min({dp[i - 1][j], row[j - 1], dp[i - 1][j - 1]})
        IN  row
  IN  dp[Len(a)][Len(b)]

SmallerWord(v, w) ==
  \/ IsStrictPrefix(v, w)
  \/ \E i \in DOMAIN v \cap DOMAIN w : v[i] < w[i] /\ \A j \in 1 .. i - 1 : v[j] = w[j]

\* Mutant: a word as near as the best so far replaces it.
Nearer_LastOfEquals(token, v, w) == edit_distance(token, v) <= edit_distance(token, w)

\* Of two words that are as near the smaller one.
Nearer(token, v, w) ==
  \/ edit_distance(token, v) < edit_distance(token, w)
  \/ edit_distance(token, v) = edit_distance(token, w) /\ SmallerWord(v, w)

\* The loop over the vocabulary; the word its id stands for.
find_pinyin_id_nearest(token) ==
  LET after[i \in 0 .. Len(Words)] ==
        IF i = 0 THEN Words[1]
        ELSE LET kept == after[i - 1]
             IN  IF Nearer(token, Words[i], kept) THEN Words[i] ELSE kept
  IN  after[Len(Words)]

\* Mutant: a range ends behind the first byte of a character.
SourceEnd_FirstByte(edge) == canonical[edge.begin + 1].from + 1

SourceBegin(edge) == canonical[edge.begin + 1].from
SourceEnd(edge)   == canonical[edge.end].from + 1

Repairs == request.mode = "safe" /\ request.repair

\* Mutant: neighbouring ranges are joined whatever lies between them.
append_invalid_Joins(ranges, edge) ==
  IF ranges # <<>>
  THEN [ranges EXCEPT ![Len(ranges)].end = SourceEnd(edge)]
  ELSE Append(ranges, [begin |-> SourceBegin(edge), end |-> SourceEnd(edge)])

\* An invalid character right behind the last range extends it.
append_invalid(ranges, edge) ==
  IF ranges # <<>> /\ Last(ranges).end = SourceBegin(edge)
  THEN [ranges EXCEPT ![Len(ranges)].end = SourceEnd(edge)]
  ELSE Append(ranges, [begin |-> SourceBegin(edge), end |-> SourceEnd(edge)])

\* Mutant: without repair an invalid character stays.
AddEdge_KeepsInvalid(acc, edge) ==
  [acc EXCEPT !.segments = Append(@, Word(canonical, edge.begin, edge.end))]

AddEdge(acc, edge) ==
  LET token == Word(canonical, edge.begin, edge.end)
  IN  IF ~edge.invalid THEN [acc EXCEPT !.segments = Append(@, token)]
      ELSE [segments       |-> IF Repairs THEN Append(acc.segments, find_pinyin_id_nearest(token))
                               ELSE acc.segments,
            invalid_ranges |-> append_invalid(acc.invalid_ranges, edge)]

NoAnswer == [segments |-> <<>>, invalid_ranges |-> <<>>]

Answer(error, answer) ==
  /\ result' = [error |-> error, segments |-> answer.segments,
                invalid_ranges |-> answer.invalid_ranges]
  /\ stage' = "answered"
  /\ UNCHANGED <<decoding, best>>

\* The edges of a path, one after another.
AddEdges(edges) ==
  LET after[i \in 0 .. Len(edges)] ==
        IF i = 0 THEN NoAnswer ELSE AddEdge(after[i - 1], edges[i])
  IN  after[Len(edges)]

\* Nothing legal left is an error, and an error answers no segments.
AnswerPath(path, rejected) ==
  LET answer == AddEdges(path.edges)
      error  == IF rejected \/ ~path.reachable \/ answer.segments = <<>>
                THEN "InvalidPinyin" ELSE "Ok"
  IN  Answer(error, IF error = "Ok" THEN answer ELSE [answer EXCEPT !.segments = <<>>])

-----------------------------------------------------------------------------
(* segment_pinyin *)

CanScore(chars) == MinScored > 0 /\ Len(chars) >= MinScored

\* The scorer's logits, or its failure, which is the call's ModelError.
ScoredDecode(chars, allow) ==
  \/ \E logits \in [1 .. Len(chars) - 1 -> Logits] :
       Decode("decode", chars, logits, allow) /\ UNCHANGED result
  \/ Answer("ModelError", NoAnswer)

segment_pinyin ==
  /\ stage = "idle"
  /\ \E input \in Inputs, mode \in {"strict", "safe"}, repair \in BOOLEAN :
       LET chars == normalize_pinyin(input)
       IN  /\ request' = [input |-> input, mode |-> mode, repair |-> repair]
           /\ canonical' = chars
           /\ IF chars = <<>> THEN Answer("InvalidPinyin", NoAnswer)
              ELSE IF Len(chars) > MaxChars THEN Answer("PinyinLimitExceeded", NoAnswer)
              ELSE IF mode = "strict"
              THEN Decode("validate", chars, Zeros(chars), FALSE) /\ UNCHANGED result
              ELSE IF CanScore(chars) THEN ScoredDecode(chars, TRUE)
              ELSE Decode("decode", chars, Zeros(chars), TRUE) /\ UNCHANGED result

\* Strict mode knows whether there is a legal route before the scorer runs; without
\* one it decodes again to point at the invalid characters.
strict_validated ==
  /\ stage = "validate" /\ decoding.begin = Size
  /\ IF ~best[Size].reachable
     THEN Decode("diagnose", canonical, Zeros(canonical), TRUE) /\ UNCHANGED result
     ELSE IF CanScore(canonical) THEN ScoredDecode(canonical, FALSE)
     ELSE AnswerPath(best[Size], FALSE)
  /\ UNCHANGED <<request, canonical>>

decoded ==
  /\ stage \in {"diagnose", "decode"} /\ decoding.begin = Size
  /\ AnswerPath(best[Size], stage = "diagnose")
  /\ UNCHANGED <<request, canonical>>

NoCall      == [input |-> <<>>, mode |-> "safe", repair |-> FALSE]
NotDecoding == [gap_logits |-> <<>>, allow_invalid |-> FALSE, begin |-> 0]
NoResult    == [error |-> "InvalidPinyin", segments |-> <<>>, invalid_ranges |-> <<>>]

Init ==
  /\ request = NoCall /\ canonical = <<>> /\ stage = "idle"
  /\ decoding = NotDecoding /\ best = [p \in {0} |-> Origin] /\ result = NoResult

\* Everything a call works on is local to it: the next one starts from nothing.
call_returns ==
  /\ stage = "answered"
  /\ request' = NoCall /\ canonical' = <<>> /\ stage' = "idle"
  /\ decoding' = NotDecoding /\ best' = [p \in {0} |-> Origin] /\ result' = NoResult

Next == segment_pinyin \/ decode_gap_viterbi \/ strict_validated \/ decoded \/ call_returns

Spec == Init /\ [][Next]_vars

-----------------------------------------------------------------------------
(* Properties *)

\* Every variable holds a value the program's types allow; a segment is a word of the
\* vocabulary (pinyin-segmentation.md: "exactly encodable by the pinyin tokenizer").
InputTypeOK ==
  /\ request.input \in Inputs \cup {<<>>}
  /\ stage \in {"idle", "validate", "diagnose", "decode", "answered"}
  /\ decoding.begin \in 0 .. Size /\ decoding.allow_invalid \in BOOLEAN
  /\ result.error \in {"Ok", "InvalidPinyin", "PinyinLimitExceeded", "ModelError"}
  /\ result.segments \in Seq(Vocab)
  /\ \A r \in Range(result.invalid_ranges) : r.begin \in Nat /\ r.end \in Nat

\* All the ways to cut the input: words that cross no forced boundary, and single
\* characters when they are allowed.
CrossesBoundary(chars, begin, end) == \E i \in begin + 2 .. end : chars[i].forced

LegalEdges(chars, allow) ==
  UNION {{Edge(b, e, FALSE) : e \in {f \in b + 1 .. Len(chars) :
                                     Word(chars, b, f) \in Vocab /\ ~CrossesBoundary(chars, b, f)}}
         \cup {Edge(b, e, TRUE) : e \in IF allow THEN CharEnds(chars, b) ELSE {}} :
         b \in 0 .. Len(chars) - 1}

Routes(chars, allow) ==
  LET edges == LegalEdges(chars, allow)
      to[p \in 0 .. Len(chars)] ==
        IF p = 0 THEN {<<>>}
        ELSE UNION {{Append(r, e) : r \in to[e.begin]} : e \in {d \in edges : d.end = p}}
  IN  to

Invalids(route) == Cardinality({i \in DOMAIN route : route[i].invalid})

Score(logits, route) ==
  LET sum[i \in 0 .. Len(route)] == IF i = 0 THEN 0 ELSE sum[i - 1] + GapLogit(logits, route[i])
  IN  sum[Len(route)]

\* pinyin_segment.hpp:30: fewest invalid characters, highest gap score, fewest tokens,
\* then longest earliest token.
Better(logits, r, q) ==
  \/ Invalids(r) < Invalids(q)
  \/ /\ Invalids(r) = Invalids(q)
     /\ \/ Score(logits, r) > Score(logits, q)
        \/ /\ Score(logits, r) = Score(logits, q)
           /\ Len(r) < Len(q) \/ (Len(r) = Len(q) /\ LongerFirst(r, q))

\* The Viterbi is exact: whenever it comes to a position, the path kept there is a
\* route to it and none is better, although every tie was settled locally; a position
\* without a route has no path.
PathsAreBest ==
  stage \in {"validate", "diagnose", "decode"} =>
    LET routes == Routes(canonical, decoding.allow_invalid)
    IN  \A p \in 0 .. decoding.begin :
          IF routes[p] = {} THEN ~best[p].reachable
          ELSE /\ best[p].reachable /\ best[p].edges \in routes[p]
               /\ \A r \in routes[p] : ~Better(decoding.gap_logits, r, best[p].edges)

\* Whether the call came to decode its input.
WasDecoded == /\ stage = "answered" /\ canonical # <<>>
              /\ result.error \in {"Ok", "InvalidPinyin"}

InRanges(offset) ==
  \E r \in Range(result.invalid_ranges) : r.begin <= offset /\ offset < r.end

\* The normalized characters outside the invalid ranges, in order.
Kept ==
  LET upTo[i \in 0 .. Size] ==
        IF i = 0 THEN <<>>
        ELSE IF InRanges(canonical[i].from) THEN upTo[i - 1]
        ELSE Append(upTo[i - 1], canonical[i].char)
  IN  upTo[Size]

\* Nothing the user typed disappears silently: without repair, the segments are the
\* normalized characters outside the invalid ranges, in order.
TextIsAccountedFor ==
  WasDecoded /\ result.error = "Ok" /\ ~Repairs => FlattenSeq(result.segments) = Kept

\* Invalid ranges are byte ranges of what was typed, in order and apart, of whole
\* characters and without separators; they hold as few characters as any way to cut
\* the input leaves over.
RangesPointAtInput ==
  WasDecoded =>
    LET ranges == result.invalid_ranges
        held   == {i \in DOMAIN canonical : InRanges(canonical[i].from) /\ canonical[i].byte = 1}
    IN  /\ \A i \in 1 .. Len(ranges) - 1 : ranges[i].end < ranges[i + 1].begin
        /\ \A i \in DOMAIN ranges : \A o \in ranges[i].begin .. ranges[i].end - 1 :
             \E b \in Range(canonical) : b.from = o
        /\ \A i \in DOMAIN ranges :
             \E b, e \in Range(canonical) :
               /\ b.from = ranges[i].begin /\ b.byte = 1
               /\ e.from = ranges[i].end - 1 /\ e.byte = Width(e.char)
        /\ \A r \in Routes(canonical, TRUE)[Size] : Cardinality(held) <= Invalids(r)

\* Strict mode refuses an input exactly when no way to cut it is legal, and then says
\* where it is not; safe mode answers Ok exactly when a segment is left.
StrictAcceptsExactlyLegal ==
  WasDecoded =>
    LET legal == Routes(canonical, FALSE)[Size] # {}
    IN  /\ request.mode = "strict" => (result.error = "Ok" <=> legal)
        /\ result.invalid_ranges = <<>> <=> legal
        /\ request.mode = "safe" => (result.error = "Ok" <=> result.segments # <<>>)

\* What one character of `width` bytes needs to become a word: the word's other letters.
Edits(char, width, word) ==
  Max({width, Len(word)}) - IF char \in Range(word) THEN 1 ELSE 0

\* With repair every invalid character becomes the word that needs the fewest edits, and
\* of those the smallest, wherever the words stand in the vocabulary (core_tests.cpp:193:
\* "nearest-token ties should use lexical order for deterministic repair").
RepairIsNearest ==
  WasDecoded /\ result.error = "Ok" /\ Repairs =>
    \A i \in {j \in DOMAIN best[Size].edges : best[Size].edges[j].invalid} :
      LET edge     == best[Size].edges[i]
          repaired == result.segments[i]
          need(w)  == Edits(canonical[edge.begin + 1].char, Length(edge), w)
      IN  \A w \in Vocab \ {repaired} :
            \/ need(repaired) < need(w)
            \/ need(repaired) = need(w) /\ SmallerWord(repaired, w)
=============================================================================
