# simdcbor in TLA+

Specifications of the CBOR codec in this repository: the decoder's walks over
untrusted bytes and the values they build, raw messages, the stream that feeds
the walks from a reader, the append-only encoder and the writer of whole values,
map keys and tags, and the diagnostic notation. TLC checks them on small
instances; TLAPS proves the safety of the walks, of RawArray and of the stream,
that neither walks nor streams spin, that a walk accepts nothing but what the rules
of its grammar derive, that the methods agree with each other and with themselves
on more input, that the stream implements its promise, what the encoder's errors
mean, that its counts and offsets stay true, and that the orders of keys are total
and sort. `PROJECT.json` is the index: components, runs, mutants,
the map from definitions to source lines, findings, hazards and theorems.

```
tlc -workers 2 -config MCRaw.cfg MCRaw.tla      # one run
tlapm StreamProofs.tla                          # all proofs of the stream
```

## 1. The system

| component | state it keeps | operations | talks to |
|---|---|---|---|
| item heads (`decoder.go` head) | the cursor | head | every walk |
| value decoder (`decoder.go`) | buffer, cursor, item count, call stack | Decode, More, Offset | heads, limits, value model, tags, keys |
| framing walk (`skip.go`) | the same | Skip, SkipStrict | heads, limits |
| JSON projection (`json.go`) | the same | DecodeJSON | heads, `stringBody`, `atBreak` of the decoder |
| limits (`limits.go`) | five caps | withDefaults | all walks |
| raw messages (`raw.go`) | pin and borrow flags, a reused slice | RawNext, RawArray | framing walk |
| stream (`stream.go`) | reader, buffer, window, sticky error | More, Next, RawNext, SkipNext, SetPinCopy, SetMaxBuffer | builds a new Decoder over the window for every try |
| encoder (`encoder.go`, `modes.go`) | buffer, container stack, sticky error | Write*, Start*, WriteChunk, End*, WriteValue, Reset, Bytes | key order; the strict walk, to validate text |
| key order and identity (`value/order.go`, `value/keys.go`) | none | CompareKeys, SortMap, DuplicateKey, CanonicalKey, KeysEqual, ShortestFloat | encoder, duplicate policy |
| value model (`value/value.go`) | immutable values | constructors, accessors | all |
| tags (`tags.go`) | none | Interpret, the tag modes | value decoder |
| root package | none | Unmarshal, Skip, SkipStrict, Marshal | an adapter over the codec |
| diagnostics (`diag/`) | none | Render, Parse | value model |

Nothing in the repository starts a goroutine and nothing is persisted: there
are no interleavings of threads and no crash recovery. What is hard here:

- **bytes chosen by somebody else**: every count and length is a claim. The walk
  must not read, allocate or recurse beyond what the input has paid for.
- **copies of one grammar**: `decode`, `decodeJSON` and `skip` are three
  functions with one accept boundary, and each limit is written several times
  (declared counts, indefinite counts, JSON maps).
- **copies of one value**: DecodeJSON and `project` over Decode, the canonical
  form in keys, in SortMap and in the encoder, Render and Parse: pairs of
  hand-written functions that must agree.
- **float widths by bit fields**: narrowing must lose nothing, at subnormals,
  infinities, NaN payloads and signed zeros, and be as short as possible.
- **cuts**: a stream tries a walk on a prefix, and acts on the verdict. The
  reader cuts, stalls, fails, and may return bytes and an error together.
- **moving memory**: the stream compacts and refills a buffer that delivered
  values may share; the encoder's sort moves bytes that other frames point to.
- **sequences of calls**: the encoder is driven call by call and must refuse
  every wrong order before writing; one Decoder may be read through any mix of
  its methods.

What makes each component correct is in section 3, next to the run that checks
it. The hazards, at their lines, are listed in `PROJECT.json`.

## 2. The modules

```
Cbor, Limits ── Walk ─┬─ Raw ── MCRaw              Floats, KeyOrder, Cbor
  CborProofs          │    RawProofs                  ├─ Encoder ── MCEncoder
                      ├─ Parity ── MCParity          │    EncoderProofs
                      │    ParityProofs              └─ Values ─┬─ Builders ─┐
                      ├─ MCWalk                                 │            │
                      └─ WalkProofs                             ├─ Diag ─────┤
Stream ── MCStream          Rules ── Grammar   Encoder, Values ─┴─ Writer ───┴─ MCValues
  StreamProofs                RulesProofs
                              GrammarProofs (of Walk and Rules)
  A == INSTANCE ItemStream
Grammar: the reference of MCWalk, MCRaw, MCEncoder and MCValues
Families: inputs and sequences that the MC modules share
CborProofs: heads, sequences as stacks and least numbers, for the other proofs
EncoderProofs has those of KeyOrder too
```

**Cbor** is the head reader (`HeadAt` = `Decoder.head`), its inverse
(`HeadBytes` = `Encoder.head`) and `ValidUTF8`, the external kernel of the `simd`
package. `HeadAt` returns the offset `head` leaves behind also when it fails,
since an argument cut short has consumed its initial byte. `ArgMax` (2^24) stands
for every larger argument: the code only compares arguments with limits and
lengths.

**Limits** declares the five limits as positive constants. `withDefaults` has
replaced zeros; negative limits are not modelled.

**Walk** is one Decoder over one buffer and all four methods. The mutual
recursion of the Go functions is a `stack` of frames; a frame is an active call
that has more to read.

| Go | TLA+ |
|---|---|
| `d.b`, `d.i`, `d.items` | `b`, `i`, `items` |
| which method runs, where its item starts | `op`, `start` |
| active `array`/`mapValue`/`jsonArray`/`jsonMap`/`skipContainer` | frame of kind `array` or `map`, with its `depth`, `indef`, declared `want`, items `got` |
| `decode(depth-1)` for a tag | frame of kind `tag`; for a key in `jsonPair`, `keytag` |
| `stringBody` in its chunk loop | frame of kind `bytes` or `text` with `part`, what it has so far |
| `len(out)` of a JSON map | `keys`, the set of keys in the Go map |
| the prologue of every reader | `TooDeep`, `OverBudget`, `BadHead`, `Admitted` |
| the switch on the major type | `Integer`, `Simple`, `DefiniteString`, `OpenString`, `OpenContainer`, `OpenTag`, `KeyNotString` |
| chunk loops | `BadChunk`, `TakeChunk`, `CloseString` |
| container loops | `CutContainer`, `CloseContainer`, `NextItem`, `IntoContainer` |
| return through a tag; return to the caller | `ThroughTag`; `Finish` |
| the caller reading the next item | `Again`, with any method |

The `pc` says where in those functions the walk is. Differences between the
methods are where the code has them: JSON keys (`AtJsonKey`), simple values
(`SimpleAllowed`), UTF-8 (`InvalidText`), caps of indefinite containers
(`OverCap`). Values are not kept here, except a string that may become a JSON key;
`Builders` has them.

**Raw** adds `RawArray` to Walk. Its own head is read outside any walk
(`RawStart`: not counted, no level of depth), then every element is a run of the
method "skip" of Walk (`RawMore`, the steps of Walk, `RawAppend`) on the same
cursor and the same budget. `raws` is the slice the Decoder reuses. Between calls
the caller may go on with any method (`OtherMethod`), so that all five are mixed
over one buffer.

**Rules** and **Grammar** are not code. Both say declaratively which bytes method
`o` promises to accept as one item with nesting budget `d`, and share only `HeadAt`
and `ValidUTF8` with Walk. Rules has them as closure conditions: a fact (`Item`,
`Key`, `Text`, `Row`, `Run`) is about the bytes between two offsets,
`RulesHold(o, s, X)` says that the set `X` of facts is closed under the rules, and
`Derived` are the facts of every such set, that is of the least one. It is what the
proofs use. `IsItem(o, s, d)` of Grammar computes the same by recursion, splitting
`s` in every possible way, and is what the runs use.

**Parity** puts two instances of Walk next to each other: two methods over one
buffer, or one method over a prefix and over the whole.

**Stream** numbers the bytes of the source and lets every buffer cell hold the
number of the byte in it, so that compaction, growth and `Read` can be judged by
where bytes end up. A walk over the window is reduced to its verdict: the item
is whole, or malformed, or truncated. That reduction is what `Stable` of Parity
checks. `views` are the places in the current buffer that delivered byte strings
still share (`value.FromBytes` keeps the slice it is given).

| Go | TLA+ |
|---|---|
| `s.buf[:len]`, `s.off`, `s.end` | `buf`, `off`, `end` |
| `s.err`, `s.done`, `s.pin`, `s.max` | `err` (`nil`, `eof`, `failed`), `done`, `pin`, `max` |
| top of the loop of Next/RawNext/SkipNext | `pc = "try"`: `Deliver`, `RefuseBorrow`, `Malformed`, `AtTheEnd`, `NeedMore` |
| `fill`, with what its caller does with its error | `pc = "fill"`: `FillSticky`, `FillTooLarge`, `FillRead(n, e)` |
| `io.Reader` | the choice of `n` and `e` in `Read` (external) |

**ItemStream** is the promise of a stream: the items of the source, each once and
in order, and any other answer only with a reason in the source, the reader or the cap. It
lets More be false once the reader has stalled, as the code has it (section 3).

**Encoder** has one action per public operation; a refused operation records the
sticky error. `Counted` is `item()`, `PopTags` is `popTag()`, `End` is `end()`
with `sortPairs` (`Sorted`) and `validIndefiniteText` inside the action. Bytes
are concrete, so its output can be read back with Grammar or Builders. Integers and
simple values are `Scalars`, encoded already; floats are written in the width
the mode and Floats give them. `Client` (MCEncoder) is a caller that makes only
the misuses its run names (`Mistakes`). Another caller
(`Document`) writes documents, making the calls for each one after the other.

**Writer** is `WriteValue` as a client of these actions: `Begin` is the call for
the head of a value, `Rest` the calls that follow, `todo` the recursion as a list
of calls still to make, which the first error ends. `WriteNative` is a caller's
own `WriteFloat64`.

**Floats** is every float conversion of `value/keys.go` and `value/value.go`, bit
field by bit field, over formats of any size `[e |-> ..., m |-> ...]`:
`HalfToSingle`, `SingleToHalf`, `HalfExact`, `SingleExact`, `Shortest`,
`AsFloat64`. What the machine's conversions do (rounding to even, overflow, quieting a
NaN) is `Converted`, external; `Meaning` is what a float is whatever its width, the
reference for all of them.

**KeyOrder** is `CompareKeys` in both orders and the stable sort. **Values** is the value
model (a record of kind, number, bytes, parts and the indefinite flag), canonical
keys, `SortMap`, `applyDuplicatePolicy` (`Resolved`) and `Interpret`. **Builders**
has the values the two builders return for input the walk accepts -- `DecodeAt`
under any options, `JsonAt` -- then `Project` of the adapter and `Marshal`. Verdicts
of the walk stay in Walk; what a builder refuses of its own is here. **Diag** is
Render and Parse over tokens (a run of digits and a keyword are one token each, a character
of a text string is one).

Operators named after a definition and marked "Mutant" stand next to it: a
plausible bug of that definition, which the property paired with it in
`PROJECT.json` must notice. No specification uses them.

## 3. What the runs check

Runs that pass:

| run | property | what it shows |
|---|---|---|
| MCWalkGrammar | AcceptsItems, RefusesOthers | all four methods accept exactly the grammar, nested up to the limit and beyond; of the limits only depth and budget are within reach |
| | RulesAssumption | what Grammar accepts is closed under Rules (an assumption TLC evaluates first) |
| MCRaw | CursorInBounds, BudgetKept, RecursionBounded | any mix of the methods and RawArray on one Decoder stays in bounds, within budget and depth |
| | PresizeBounded | hostile claims: no container reserves more than the bytes left behind its head, and every open one claims less than the bytes of its item |
| | LimitsExact | no limit is off by one in Decode, SkipStrict, Skip and RawNext |
| | MessagesTile, RawExact | the messages of RawArray are its elements, all and only, without a gap |
| | Progress | each step of a call leaves strictly less to do, bounded from the start by the bytes unread |
| | AllReturn | every call returns |
| MCParity | Covered, InStep | Decode within SkipStrict within Skip with equal spans, step by step; DecodeJSON within the others but for `Excused` |
| | Stable | more input changes no verdict but truncation |
| MCStreamAny | WindowHolds | no byte lost, repeated or reordered |
| | BufferFollowsItem | the buffer grows only within the cap in force, and past its first size only for the item at its front, to at most twice that item |
| | Promise | Stream implements ItemStream |
| | CallsReturn | no call spins, unless its item cannot fit the buffer |
| | MovesOn | each step of a call uses up a byte, a pause or an error of the reader, or nears the call's end, but for an item that cannot fit |
| | Drained | the loop documented for More ends with More false and everything delivered, or at the item that stops it, unless the reader fails or stalls or an item cannot fit |
| MCEncoder | BytesWellFormed, RefusedBeforeWriting, Poisoned | what Bytes returns can be read back; a refusal writes nothing, and nothing is written after one until Reset |
| | Accounted | no container or tag holds more than its head announced, no tag outlives its content |
| | MarksInBuffer | the offsets of all open maps are in the buffer and ascend: sortPairs slices nothing out of range |
| | KeysInOrder | in both deterministic orders every map of a document leaves sorted, in keys, values, arrays and under tags |
| | NotedStays | sorting a map inside a key or value of another leaves the offsets of the outer one true |
| MCValues | WritesBack | WriteValue and Decode are inverse, in every mode up to its normal form |
| | KeyIsEncoding, SameKeyMeansSame | canonical keys are the deterministic encoding, and equal exactly for equal values; SortMap agrees with the encoder |
| | ShortestExact | a float is narrowed exactly when, and as far as, it means the same |
| | PolicyResolves | each duplicate policy keeps the entries it promises, in place |
| | TagModes | keep, discard and interpret agree about everything but tags |
| | ProjectionAgrees | DecodeJSON is `project` over Decode |
| | MarshalInverse | what Unmarshal returned, Marshal writes and Unmarshal returns again |
| | ParseRender | Parse(Render(v)) is v, up to what the notation drops |

The type invariants of Walk (in MCRaw), Stream and Encoder are checked too.

Runs that end in a violation, each a disagreement between the code and what the
repository says of it:

| run | the code | the claim |
|---|---|---|
| MCWalkFullMap | `json.go:158` refuses an indefinite map of exactly MaxMapPairs keys | `limits.go:38` |
| MCStreamOversize | an item larger than the buffer makes `Next` spin: the error of `fill` is dropped while the window is not empty | `stream.go:31` |
| MCStreamAlias | a byte string from a stream is overwritten by compaction or refill | `docs/lld/decoder.md:112`, `stream.go:92` |
| MCStreamFail | under the loop on `More`, a failing reader is reported as `io.EOF` | `stream.go:25` |
| MCEncoderText | valid indefinite text is refused inside a container that is not full yet | `encoder_test.go:40` |
| MCExact | AsFloat64 calls a negative integer exact whose double is another one: it judges the magnitude before `-1 - mag` rounds | `value/value.go:270` |

More disagreements have no run of their own; the passing runs state them as the
exceptions they are:

- `Excused` (Parity) names four: the framing walks have no cap for indefinite
  containers, so SkipStrict accepts what Decode calls too large
  (`skip.go:119` against `decoder.go:91`); DecodeJSON counts the keys of its Go
  map, so it accepts more pairs than Decode when their keys repeat
  (`json.go:158`); RawNext does not look at text, so it accepts what Decode calls
  malformed (`raw.go:59` against `raw.go:55`); DecodeJSON reads a tagged key at
  its tag's depth, so Unmarshal accepts what Skip calls too deep (`json.go:201`
  against the root package's `skip.go:15`).
- RawArray gives each element the whole of MaxDepth and does not count its own
  head (`raw.go:80`), so it frames arrays that Decode calls too deep:
  `IsRawArray` (MCRaw) says so.
- More is false after a Read of no bytes and no error, which io.Reader allows,
  though the reader is not done (`stream.go:57` against `stream.go:44`): the loop
  on it then ends with items left. ItemStream allows the answer after such a
  stall, and Drained is about readers that never stall. Without `stalled'` in
  `Justified`, Promise fails.
- The encoder's caller avoids three misuses the encoder does not notice, against
  `encoder.go:14` and `encoder.go:24`: items inside an open string
  (`encoder.go:82`), an indefinite map ended after a key (`encoder.go:372`), and
  a map of 2^63 pairs, whose count wraps (`encoder.go:312`). Adding one of
  `"in string"`, `"odd map"`, `"wide map"` (the last with 8 among the Counts) to
  `Mistakes` in MCEncoder.cfg makes BytesWellFormed fail.
- ProjectionAgrees excepts two kinds of map (`decode.go:45`, "the same answer"):
  a byte-string key under a tag, which `project` takes and DecodeJSON does not,
  and keys of different kinds with the same bytes, which only Go's map makes one.
  No shipped code calls `project`.
- ParseRender compares with `Doubled`: the width of a float and the payload of a
  NaN are not in the notation (against `parse.go:16`).
- PolicyResolves: a map of fewer than two pairs is returned before its key is
  looked at, so a key the mode forbids passes (`decoder.go:429`).
- KeyIsEncoding is about normal values, because the canonical key of a map is
  not sorted; and SortMap leaves a map unsorted when a key nests beyond
  `maxKeyDepth`, which the encoder sorts.
- `Signalling`: the machine quiets a signalling NaN on conversion, so such a
  double is never narrowed, though a single with its payload may exist.
- ExactMeansExact does not ask the converse: AsFloat64 also denies exactness to
  negative integers whose double is right.
- MarshalInverse excepts keys that are not text, which Unmarshal returns from
  byte strings and Marshal writes as text strings no decoder accepts; and it does
  not claim the output canonical in the sense of `value/order.go`: Marshal sorts
  by Go's string order and never writes a half (`encode.go:15`).

The passing runs leave out what the violated ones show: MCWalkGrammar keeps the
caps of strings and containers away, and LimitsExact is not about `json`; MCStreamAny does not ask that
delivered byte strings keep their bytes, nor that a call which meets an oversized
item returns, nor of the loop on More what a stall makes it miss; in MCEncoder and MCValues indefinite text inside a container ends in
the error the code gives it.

`RecursionBounded` is stated as the code has it: MaxDepth + 1 calls, and under
DecodeJSON up to twice as many, because of tagged keys. `BudgetKept` is likewise
about the Decoder and not about one call: `items` is never reset
(`decoder.go:153`).

### Bounds

Inputs are all buffers of three bytes over 24 heads (each kind, width and form,
the reserved ones, the break), and longer ones over smaller alphabets: chunks
around a two-byte rune, maps with string, tagged and other keys, nesting beyond
the limits. In MCRaw limits of one and two make each limit, its boundary and its
excess reachable in four to six bytes, and a budget of four items lets several
calls share it. MCWalkGrammar has a MaxDepth of two, so that nested containers, tags
and tagged keys of JSON maps end at, within and beyond it. `CutSamples` are read once for every cut.

A stream has up to three items in up to five bytes and a buffer that grows from
two bytes to four; `SetMaxBuffer` sets caps of 0, 1, 3 and 6, above the default,
no multiple of the first size, below what is allocated and of no room at all, at
any time: items smaller than, equal to and larger than the buffer, growth, every
cut. `MaxStalls` bounds how often a reader returns nothing;
`Longest` bounds the source.

The caller of any calls (`Client`) writes, in a deterministic mode, one item of
integers, arrays and maps, with less than six bytes (`LongBytes`) in front of the last part:
enough to mix up every kind of container, and for one map of the two keys `20`
and `18 20` the orders disagree about. In adapter mode it writes below four bytes
(`ShortBytes`) before the last item, of every kind, with as many items at the top
level as fit. Maps in maps are in the documents (`MapDocuments`): all maps of two
pairs over three integer keys, in both forms, in the keys and values of others, in
arrays and under tags, and a family of those once more in keys and values. That
is three levels, so that what an inner sort moves has offsets of two maps around it.
`Word` is 16 instead of 2^64; heads stop at 16-bit arguments.

MCValues has floats of 5, 7 and 9 bits (`[2,2]`, `[3,3]`, `[4,4]` exponent and
mantissa bits), which have subnormals, infinities and several NaN payloads in each
width and leave gaps between integers; all of them are written. `FormatsAssumption` states what relates
the real formats and holds of these. `Word` is 128: heads of one and two bytes,
and integers beyond the double's precision; MCExact takes every one. Values are
all scalars, arrays of up to two and maps of up to three parts from families that
collide as keys (one number in three widths, text and bytes, tagged and not),
and containers nested once beyond `MaxKeyDepth` and `ParseDepth`, both two.
Tag 55799 does not fit that `Word`; its content is free, like that of tag 6.

Deadlock is checked in MCStreamAlias and MCEncoderText, where a caller
can always go on; a walk ends after an error, a writer when its value or document is
written, and the loop on More, which is also a client of MCStreamAny, where More
is false or Next hands over nothing, and after the one Next that asks why.

### Fairness

`WF_allVars(RawWork)` of Raw and `WF(Work)` of Stream: code inside a call runs on
until it returns, with nothing to wait for but `Read`, which is assumed to
return. Callers are under no fairness, except the loop on More, which is
the client whose progress `Drained` is about. `CallsReturn` also relies on a reader
that stalls finitely often, which io.Reader asks for in discouraging it; `Drained`
is about readers that never do, since one stall ends the loop (`stream.go:57`).

## 4. What is proved

**CborProofs**: what a head can be. A failed head consumes at most the
initial byte and leaves the cursor within the buffer; a good one consumes at
least one byte, has a type in 0..7 and an argument in Nat.

**WalkProofs**, for every set of inputs in `Seq(Byte)` and every positive
value of the limits: `TypeCorrect`, `CursorSafe`, `BudgetSafe`, `RecursionSafe`
and `PresizeSafe`, that is `Spec => []` of TypeOK, CursorInBounds, BudgetKept,
RecursionBounded and PresizeBounded. All five follow from `Invariance`, the
invariant `IInv`. The properties are not inductive by themselves, and `IInv` adds
why they hold:

- *Framed*: the stack fits the pc -- a chunk loop has a string frame innermost,
  no other frame is a string, a returning call has a typed result;
- *Deep*: frame `k` stands at a depth determined by `k` -- exactly
  `MaxDepth - (k-1)` outside JSON; under JSON a tagged key shares its level with
  the tag, so each frame loses at most one level and two neighbours at least one;
- *Paid*: every frame on the stack has consumed a byte of its own since `start`;
  with PresizeBounded, whose claim about a container just opened is what the guard
  of its `make` establishes (`GrowKeeps`), and whose claim about every open one is
  what is left of that when the cursor has moved on;
- the budget: each item counted has consumed a byte, unless the call just failed.

The proof has one lemma per action (`...Keeps`), on top of lemmas about the
ways a step ends (`FailKeeps`, `YieldKeeps`, `PushKeeps`, `GrowKeeps`), and
`NextKeeps` puts them together.

`WalkProgress` is `Spec => Progress`, on the same invariant. Termination under
fairness is beyond the prover, but its substance is not: the variant
`Work == 4 * (Len(b) - i) + 2 * Len(stack) + StepsLeft[pc]` is a natural number that
every step of a call makes smaller. A step that consumes a byte pays for the
frame it may open and for going back to any place in the code; a step that
consumes none closes a frame or moves on within one round. `AllReturn`, the liveness
TLC checks, is this and weak fairness.

**RulesProofs**, of the rules alone, for every buffer and method. *Inversion*: what
`Derived` has comes from a rule. Since it is the least closed set, it is enough that the facts
which a rule explains (`Explained...`) are closed themselves. `ItemEndsOnce`: two items
that begin at one offset end at one; with it rows and runs of one length are the same, and of
two that end at a break neither is longer (`RowsEnd`, `RunsEnd`). It goes the
same way: the facts that are unique where they begin are closed under the rules. So
a row that a walk has read so far is the beginning of the row the rules derive
(`RowAhead`, `RowGoesOn`, `RunGoesOn`).

**GrammarProofs**, under the assumptions of Walk: `WalkSound` is `Spec =>
[]AcceptsDerived`, whenever a method has succeeded, the bytes it stepped over are one
item that the rules derive at MaxDepth. Since `Derived` is about the least closed set,
it holds of any set of facts closed under the rules, and TLC has checked
(`RulesAssumption`) that the one `IsItem` computes is closed: AcceptsItems, for every
buffer and limit, as far as that reaches. The invariant is `GInv` on top of `IInv`: there
are offsets `at` such that `at[k]` is where frame `k` found its head and `at[k + 1]`
what it has read up to, and between them lies (`FrameReads`)

- for a string, a run of chunks of its type which hold `part`;
- for a container, a row of `got` items and keys one level down, of a length that is
  allowed so far (`CountOf`, `GoodCount`);
- for a tag, nothing but its head;

and that frames are *Linked*: only jsonPair reads a tag at the depth of its map, and only
strings and such tags are read as keys. A call that has just returned adds what it
has read (`Returns`): an item at the depth its caller gave it, or a key. There is a
lemma for each rule (`...Derived`), for each way a step changes the stack (`PushHolds`,
`PopHolds`, `GrowHolds`) and for each action (`...Holds`). Stating the
grammar as rules found an error in it: it charged the content of a tagged key of a
JSON map a level that jsonPair does not, which no run had reached; Grammar and the bound
of MCWalkGrammar are corrected.

`WalkComplete` is the converse, `Spec => []RefusesDerived`: a method that fails within
its budget of items does not stand at an item that the rules derive. It says nothing of
DecodeJSON failing with ErrTooLarge in a buffer with room for MaxMapPairs pairs: jsonMap
counts the keys of its Go map, not the pairs the rules count, and refuses one pair early (the
finding of MCWalkFullMap). The invariant is `Waiting` on top of `IInv` and `GInv`: a
container with a call in progress is not at its end, nor at a break it would take, and has
read at least as many pairs as it holds keys. The argument goes up the stack: if
the rules derive an item from `start`, they derive the item or key that each frame calls for
where it calls (`HopeBelow`, by `LowerExpects` and `HopeGoesOn` from one frame to the
next, and *UpToN* over all of them), because by uniqueness the row a frame has read is the
beginning of the one the rules have. So at a refusal the rules derive
something of the very head, chunk or row that the code refuses, and *Inversion* shows that
no rule does. There is a lemma for each refusing action (`...Refuses`). What stands in for
induction, here and in RulesProofs, is that a nonempty set of naturals has a least
member (`FirstOf`).

**RawProofs**: the same invariant holds with RawArray among the methods
(`RawDecoderSafe`), and so does Progress (`RawProgress`): a step of Walk is taken over from WalkProofs, and the steps of
RawArray meet it with an empty stack (*Between*). `MessagesSafe` is
`RawSpec => []MessagesTile`, from *Behind*, *Tiled* and *Followed*: the messages lie behind
each other, the first behind the array's head, and the cursor (or the start of the
element being framed) stands where the last one ends. `RawSound` is the framing side
of RawExact: every message is one item that the rules derive for a skip, and a
closed array has as many of them as its head declares, or all up to its break. Its
invariant adds `RawReads` to `RawInv`: the head of the array is still what it was
(*HeadKept*), its messages make up a row of the rules (*FramesRow*), and the walk
that frames the next one satisfies `GInv` (*Framing*). `RawComplete` is the other side
(`RawRefusesOthers`): RawArray fails within the budget only if no array can be framed from where it was
called (`WholeArray`), so neither ArrayError nor the loop nor RawNext refuses one too
early. `RawWaits` adds to `RawReads` that an element is framed only where the array is not
at its end, and that its walk satisfies `Waiting`; by uniqueness the messages
so far are the beginning of the row the rules have, and its next item stands where the
last message ends (`ArrayGoesOn`).

**ParityProofs**, for every set of buffers and cuts and every set of pairs of methods that
`MethodsAssumption` allows (any pair, but that DecodeJSON, which takes text keys
only, is nobody's follower except its own): `ParityInStep`, `ParityCovered` and
`ParityStable`, that is `Spec => []` of the three properties of MCParity. They
follow from one invariant, `PInv == LSound /\ Paired /\ Shared`:

- *LSound* is what the left walk needs of itself: types, the cursor within its
  buffer, a frame under every loop;
- *Paired*: the left buffer is the beginning of the right one, and is all of it
  unless both sides run one method;
- *Shared*, the disjunction that makes it inductive: both walks are *Joined*, at one place
  with one stack; or the left one has failed (by truncation, if the buffers
  differ), after which nothing is claimed; or the right one has ended with a
  verdict `Excused` names, for a pair that is not `Narrower`.

InStep alone is not inductive, since it says nothing of the returned string and of
pairs that may part later. When DecodeJSON is next to another method (*Loose*) its
frames are only `Alike`: a tagged key is a frame of another kind there, at a depth
the other method has already lost. The proof takes each action of the left walk
and shows that the right one can only take the same, or end by an excuse: the
heads agree because a head cut short is truncation (`PartOfPrefix` and the lemmas
on it), and the checks of each method are compared one by one.

**StreamProofs**, for every set of sources, every caps a caller may set (any
integers) and every behaviour of the reader: `StreamTyped`, `StreamWindow`,
`StreamBounded` (the action property BufferFollowsItem), and
`StreamKeepsPromise`, that is `Spec => Promise`: Stream implements ItemStream. The
invariant `SInv` adds to TypeOK and WindowHolds:

- *Honest*: no more is read than there is, an end of file means the whole source
  was read, and `done` is set only beside an error;
- *Hungry*: a refill with bytes in the window happens only if the item at the
  front is not whole. It is why growth follows the item: a full window that is
  smaller than its item may double, and no further than the cap it is compared with.

`CompactedKeeps` and `RoomKeeps` say what compaction and growth do to the cells of the window,
`ReadKeeps` what a Read adds behind it. For the promise each action is
a step of ItemStream or changes nothing it speaks of; that bytes are left exactly
when an item is (`LeftIffBytes`) gives every negative answer its reason.

`StreamMovesOn` is `Spec => MovesOn`, the safety half of CallsReturn: `ToDo`, four steps
for each byte, pause, error and end of file still ahead of the reader and the steps of
the round, is a natural number that every step of a call makes smaller. The one that
does not is the refusal to grow for an item that cannot fit, which is
MCStreamOversize. It needs that the reader's counters stay in their range (`Ahead...`)
and, from *Hungry*, that a full window at the cap is that item (`FullMeansOversize`).

**EncoderProofs**: `EncoderRefuses` and `EncoderPoisoned`. Every operation keeps to
one discipline (`StepDisciplined`): it writes and had no error, or it does not
write and keeps an error if there was one, or it is Reset.

`EncoderTyped`, `EncoderMarks` and `EncoderNoted` are TypeOK, MarksInBuffer and
NotedStays, for every content, count and tag, every order of calls and every
change of mode between them, misuse included. The invariant is
`EInv == TypeOK /\ MarksInBuffer`, and it needs all of both: that the offsets are within
the buffer is kept by a sort only because everything noted further out lies in
front of the first offset of the map being sorted, which is the order of all
offsets over the whole stack; and that the sorted buffer is bytes only because the
offsets of a pair are within it. `AgreesAround` says what the end of a
container leaves: the buffer is as it was up to an offset beyond every one noted
outside. One lemma for each way an operation ends (`WholeKeeps`,
`OpeningKeeps`, `ChunkKeeps`, `EndKeeps`, `RefuseKeeps`), put together in `ENext`.
`FlattenType`, that joined pairs are bytes however many there are, goes
by the least place where the recursive function of FlattenSeq would fail.

`EncoderAccounted` is `Spec => []Accounted`. A count is compared with its limit only in
`item()`, tags end their content implicitly, and a tag in a tag ends several at once: what
makes it inductive is that between two operations (`Settled`) the innermost frame, if a
tag, has no item, and every tag below has exactly the one being written; after an item is
counted and before popTag (`Fed`) all tags have one. `PopTagsSettles` takes one to
the other, and `FrontFed` says that closing a container is an item given to what
holds it.

Of the order of keys, in the same module: `KeyOrderTotal` and `KeyOrderTransitive`, both orders of
CompareKeys are strict total orders of byte strings of any length. The argument
compares where two keys first differ, which exists because the naturals are well
founded. `SortPermutes`: what `SortedPositions` returns is a permutation of the positions
in which every pair is in order and equal keys keep their places. The rank
of a position counts those before it; ranks differ, and as many different ranks as positions
take every place.

Assumptions: `LimitsAssumption`, `InputsAssumption`, `OpsAssumption`,
`RawAssumption`; `BuffersAssumption` and `MethodsAssumption` of Parity;
`SourcesAssumption`, `MethodsAssumption`, `BufferAssumption`,
`ReaderAssumption` of Stream; `FormatsAssumption`; and `ContentsAssumption`, `CountsAssumption` and
`RealsAssumption` of Encoder. The last says that the floats a caller writes encode to bytes,
and at least one: it is a fact about `Floats` at the widths of the code, but
for all formats it is one about powers of two, which the provers do not have. TLC
evaluates all of them in the runs of their modules, and has checked the
properties there.

Only model-checked:

- what speaks of Grammar, which is recursive, and recursion is outside the
  prover's reach: AcceptsItems (`WalkSound` is its counterpart over Rules),
  RefusesOthers (`WalkComplete`), LimitsExact, RawExact (`RawSound`, `RawComplete`),
  BytesWellFormed, KeysInOrder (that a sort permutes and orders the keys it is given is
  proved; that the bytes then are an item is not);
- everything about values, which are trees (the properties of MCValues);
- the conversions of floats, for the powers of two in them;
- liveness: AllReturn, CallsReturn, Drained.

## 5. What is not modelled, and why

- `RenderBytes`, white space, exponents and the escapes by number that Render does
  not write: layout and spelling of the notation. What strconv prints is taken
  as whole and fractional units;
- `mapErr` and the other wrappers of the root package: a renaming of verdicts;
  Marshal's float32, uint64 and its refusal of other Go types;
- negative limits, lengths near the width of `int`;
- arguments of 2^16 and more written by the encoder, which never differ from
  shorter ones but in their heads;
- a stream's decoder options: it has none, every try is a new Decoder of zero Mode;
- `SetMode` between writes, which its comment rules out (the action has no guard,
  the caller of MCEncoder has one);
- a failing walk's `Decoder` used again: callers in the repository stop.

## 6. Plan

Built, in this order: Cbor, Limits, Walk and Grammar, Parity, Stream with
ItemStream, Encoder; Raw; Floats, KeyOrder and Values; Builders, Writer and Diag;
proofs of Cbor, Walk, Raw, Stream, Encoder and KeyOrder; then of Parity, of the
progress of Walk and Raw, of the encoder's offsets and of the sort; then Rules and the
soundness of Walk and Raw, the progress of Stream and the encoder's accounting; then
that the rules have one reading of a buffer, and the completeness of Walk and Raw.

Next:

1. Encoder: that a closed map is a permutation of its pairs, byte for byte,
   from `SortPermutes` and the offsets.
2. Encoder: that the bytes of a finished top-level item are derived by Rules, which
   needs that what is derived at one offset is derived of the same bytes at another.
3. Floats: `HalfToSingle` and `SingleToHalf` as inverses for every format that
   meets `FormatsAssumption`, which needs lemmas about powers of two.
