# A TLA+ model of au

`au` is a binary, dictionary-compressed log format for JSON-like records, a
header-only encoder for it, and a tool that reads it (`cat`, `tail`, `grep`,
`stats`, `zindex`, `enc`).  This directory holds TLA+ modules for the parts of
it that keep state, TLC configurations that check them on small instances, and
TLAPS proofs of what must hold on every instance.  Paths and line numbers refer
to the source tree beside this directory (`src/src/au/AuEncoder.h` and so on).

## The system

| component | state it keeps | operations | what makes it right |
|---|---|---|---|
| `AuStringIntern` (AuEncoder.h:32-230) | the vector `dictInOrder_`, the hash `dictionary_` of views into it, the `UsageTracker` (list, hash, free list) | `idx`, `clear`, `purge`, `reIndex` | hash and vector agree, views stay valid, tracker nodes are not lost |
| `AuVectorBuffer`, `AuWriter` (232-640) | growing buffers | put, write, one `value` per type | what is written can be parsed back to the same value |
| `ValueParser` (AuDecoder.h) and its handlers | depth, the handler's context stack | `value`, `key`, `parseArray`, `parseObject` | each value is reported as it was written, whatever its encoding |
| `AuEncoder` (642-849) | `backref_`, `lastDictSize_`, `records_`, two buffers | `encode`, `clearDictionary`, `purgeDictionary`, `reIndexDictionary` | every record points at its dictionary, every index means the string that was written |
| `RecordParser`, `AuRecordHandler` (AuDecoder.h, AuRecordHandler.h) | position, the dictionary being added to | one handler per record kind | each record is decoded with the dictionary its backref selects |
| `Dictionary` (Dictionary.h) | up to `maxDicts` dictionaries, each with the range of positions it covers | `clear`, `findDictionary`, `search`, `add` | a position selects at most one dictionary, and the right one |
| byte sources (AuByteSource.h, FileByteSource.h, BufferByteSource.h) | buffer window, position, pin | next, peek, skip, seek, scanTo, setPin | bytes come in order, pinned ones stay available, following waits |
| `tail` (Tail.h) | a dictionary being rebuilt | `sync`, `DictionaryBuilder::build` | starts at a real record with the complete dictionary |
| `grep` (GrepHandler.h) | context buffer, counters, bisection bounds | scan, rewind, bisect | prints the records asked for, each once |
| `zindex` (Zindex.cpp) | the index file, the inflater | build, load, seek | position p of the index is position p of the data; half-written indices are refused |
| `enc` (Json2Au.cpp) | counters, intern hint of the SAX handler | encode each file | one record per JSON value, no more than asked for |
| `GrepHandler`, `Pattern`, TimestampPattern.h | context stack, `attempted`, `matched`; a time of day that waits for its date | one callback per event | the same value matches whatever file it comes from, and its key is found at any depth |
| `stats`, output handlers, command line | nothing that outlives a call, or counters | | |

The encoder and its readers never talk to each other: everything a reader knows
is in the stream.  A stream is `H` (header), then `C` (forget the dictionary),
`A` (add these strings) and `V` (one value) records.  An `A` or `V` carries a
*backref*, the distance from its first byte back to the first byte of the last
`A` or `C`; that is how a reader that enters in the middle finds its dictionary.
A value names a string by its index in the dictionary as the encoder sees it, so
the two sides stay in step only if every change the encoder makes to its
vector is either an append, exported before the value that uses it, or
announced by a `C`.

What is hard to get right here, and hard to test, is in `PROJECT.json` under
`hazards`.  The programs are single-threaded; the concurrency is that of a
reader following a file another process appends to.  The difficulties are long
histories (purge, then re-index, then a clear falling due on one record),
boundaries (the 32-bit backref, a vector that is exactly full), and readers
that enter, rewind or follow at any point.

## Modules

| module | what it is |
|---|---|
| `AuStringIntern` | the interner and its tracker, one action per path through `idx` and one per other operation |
| `AuEncoder` | extends it: the emission of records and their sizes, `encode`, the maintenance after each record, the dictionary operations callers have |
| `Dictionary` | the reader's dictionary cache, as operators on the sequence `dictionaries_` |
| `AuReader` | a sequential reader of a file that may grow, one action per record kind |
| `RecordLog` | the abstract specification: values are delivered as written, in order, each once, and eventually |
| `AuPipeline` | the encoder and a reader following its file, claimed to implement `RecordLog` |
| `AuLog` | extends the reader with the file it reads: any stream the encoder can produce, without the encoder's state |
| `AuTail` | extends `AuLog`: `sync()` and `DictionaryBuilder` over a log entered at any position, with bytes that look like a record |
| `AuGrep` | extends `AuLog`: the date scan and the context loop of `grep`, and what it should print |
| `GrepBisect` | `grep -o`: the bisection of a roughly ordered file by position, for au, JSON and text, and the scan it ends with |
| `Timestamp` | texts of times: parsing of whole ones and of prefixes, the ranges they stand for, printing (a library of operators, as are the next two) |
| `ValueFormat` | the bytes of a value: what `AuWriter` writes, what `ValueParser` reads |
| `GrepValue` | `Pattern` and `GrepHandler`: whether a value matches |
| `AuValues` | composes the three: a value from its producer through the writer and the parser to the search and the printer |
| `ByteStream` | the abstract specification of a byte source: a file that may grow is an array with a position |
| `FileByteSource` | the buffered window of the file, one action per `read()`, per call and per return, claimed to implement `ByteStream` |
| `Zindex` | building, loading and using the index of a gzipped file |
| `AuEncoder_proofs`, `AuPipeline_proofs` | proofs about the interner and the encoder, and about a follower of its file |
| `AuLog_proofs`, `AuTail_proofs`, `AuGrep_proofs` | lemmas about logs and caches read from them; proofs about `tail` and about the context loop of `grep` |
| `GrepBisect_proofs`, `FileByteSource_proofs`, `Zindex_proofs` | proofs about the modules of those names |
| `MC*` | constants for model checking |

### How state and steps correspond

`dictInOrder`, `dictionary`, `inOrder`, `seen` are the members of the same role;
`freeNodes` is the length of the free list and `capacity` what
`dictInOrder_.capacity()` would return, because both are tested by the code.
Indices are the code's, from 0, so position *i* of the vector is
`dictInOrder[i + 1]`.  `std::sort` is modelled by what it guarantees: the
sequence in which each pair outranks the next, of which there is exactly one.

`enc.log` is the sequence of records put into `dictBuf_` since the start, each
with its position and its size in bytes, `enc.end` the position of the next
byte, `enc.backref` and `enc.lastDictSize` the members.  Records leave
`dictBuf_` when `write()` is called: `flushed` counts those, and only those are
in the file a reader sees, so a `C` that maintenance has emitted stays invisible
until the next record.  The operators `EmitDictClear`, `ExportDict`, `EmitValue`
are the functions of those names (`EmitValue` is the second half of
`finalizeAndWrite`); `EndRecord` composes them in the code's order, maintenance
included, because nothing can come between.  A record is written by several
`WriteString` and `WriteScalar` steps, since each `idx` call may change the
dictionary while earlier indices of the same record are already in `buf_`.
Bytes are counted, not represented: `VarintLen`, `StringSize`, `TokenSize` give
the sizes the code would produce.

`EndRecordThrows` is `checkedBackref` throwing.  After it the model stops, as
the programs do.

The history variables `sent` and `saying` record what the caller wrote.

In `AuLog` the file is written by the actions `WriteClear`, `WriteAdd` and
`WriteValue`, which produce the streams that `AuEncoder` is shown to produce
(every backref lands on the nearest `A` or `C`, an `A` is followed by the value
that needed it) without the encoder's own state.  A record takes six positions whatever its kind, and a string is
named by the position of the `A` record that adds it, so that no two
dictionaries can be confused.  The history variable `known` holds, for every
record, what the writer's dictionary was behind it, `sent` the values and where
they are; the reader's actions look at neither.  In `AuTail`, `falses` are the places inside a string where the
bytes happen to look like the start of a value record, each with an arbitrary
backref.  Two things are assumed of them: the bytes behind a false start do not
form a complete well-formed value, and no false backref meets bytes that look
like a complete `A` or `C` record; the format cannot rule either out.
`sync()`'s attempt is split where it looks at the file again: `Try` (scan, read
the backref), one `BuildAdd` or `BuildClear` per dictionary record visited,
`Validate`.  Every `throw` inside the `try` block is the same transition,
`GiveUp`, as it is in the code.  What `ValidatingHandler` and `ValueParser`
decide is the predicate that the value is sound.  `use` is what the
handler is used for, with the bounds on that use: `tail`, `tail -f` (`use.follow`:
the source waits at the end, so that `NothingFound` and `Finish` are disabled), or
the entries of a bisection, one after another into a file that does not grow.

In `AuGrep` a value is a *hit*, a *miss* (it has the key, with another value) or
*neither*; that is all the loop asks of `GrepHandler`.  `loc` is where in
`performDateScan` or `reallyDoGrep` the program is, `due` how many times
`outputValue` is still to be called; the other variables are the locals of those
names.  Positions count records.  The records between two values are read by the
same `ReadClear` and `ReadAdd` steps, with their effect on the dictionary cache,
whether the value after them is then matched or printed.  What should be printed
is defined without the loop (`Hits`, `Followed`, `Wanted`), from the usage text's
description of `-m`, `-F`, `-A`, `-B`, for the code to be compared with.
`scanSuffixAmount` is only set by the bisection, which is `GrepBisect`'s.

In `GrepBisect` positions are bytes and a record is its position, its size and
how it compares with the pattern: less, match, greater, or without the key.
`seekSync` is where it lands (`Landings`): in an au file at the next record that
begins two bytes behind the position, or it throws; in JSON and text at the next
newline.  `matchOrGreater` is a member of the pattern and lives on to the next
file, as in the code.  The range that is scanned (256 KiB), the
prefix of the scan (512 KiB) and its overrun (512 KiB) are scaled to a few bytes; what the code needs of them, and of the file, is
`RoughnessAssumption`: the order is no rougher than the prefix the scan begins
with, and the key no rarer than the overrun it ends with.  `Bisectable` adds what
no constant can make up for: some record in the last part of the file has the key.

In `ValueFormat` the markers, inline lengths and varints are the bytes they are,
with varints of 3 bits to the byte and integers of 10 bits, of which those from
256 on take "eight bytes".  The content of a string and the eight bytes of an
integer, a double or a time are one element each.  In `Timestamp` a text is the
sequence of its characters, since the parsing of prefixes is what is at stake; an
hour has two minutes of six seconds and a second 100 ticks, so that times fit in
TLC's integers, and the calendar is the real one.  A value that may be missing is
a set of at most one element.  In `AuValues` a producer says a value event by
event, the JSON reader (with the time recognition of `JsonSaxProxy` and the intern
hints of `JsonSaxHandler`) or a program that calls `AuWriter`; whether the
interner has or gives an index is a choice, because `AuStringIntern` says when.
`jsonGrep` is the `GrepHandler` that is told the same events, `auGrep` the one the
parser tells, `shown` what a printing handler is told.  `frames` are the parser's
recursive calls.  `BrokenOff` is JSON that ends in the middle of a value: `encode`
ends the record all the same, and half a value is in the file
(AuEncoder.h:804-814).

In `FileByteSource` the buffer holds positions instead of bytes, which makes
"the right byte" a statement about numbers.  `buf`, `cur`, `bufSize` are
`buf_`..`limit_`, `cur_ - buf_` and `bufSize_`, `offset` is where the next
`fread` continues.  A call is several steps: `Invoke`, as many `Fill`s as it
takes, the steps that consume (`Consume`, `ScanOn`), and a return.  `Grow` may
come between any two of them.  `fread` may return less than asked for; it
returns nothing only at the end of the file.  `file.seekable` distinguishes a
pipe, where `doSeek` throws; `file.follow` a source that sleeps and retries.
`Invoke` respects what callers respect: no seek while a pin is set (an assertion
in the code) and none beyond the end.  `from`, `landed`, `high` are history
variables; the refinement maps the abstract position to `from` while a call is
in progress, to `pos` otherwise, so that a call takes effect when it returns.

In `Zindex` a gzip member is a sequence of blocks, and a byte of the data is
represented by its position.  The bit offset of a block boundary is part of the
boundary.  `context` is `CachedContext` together with the valid part of
`output_`, so that `limit_` is the length of `context.output`; its field
`inflated` is where the data continues that zlib yields next, and `sound` whether
the window it was given is the data before it.  The chain of records in the
index file is a sequence of entries, because the encoder's and the reader's
modules are about that chain.  A seek is a step that takes the call (`Seek`),
one that chooses what to do, and one per round of the skipping loop.  Two things
the model shows in passing: an index of a file with more than one member, which
`zindexFile` warns about and finishes (Zindex.cpp:231-236), is always refused
(Zindex.cpp:314), since the final entry's offset is not the file's size; and the
distance of a jump is counted from the start of the data, not from the reader
(Zindex.cpp:464), which costs time but no correctness.

## What the runs check

| run | question | bounds |
|---|---|---|
| `encoder` | do hash, vector and tracker of the interner agree through any order of its paths; does every backref land, stay bounded and fit its field, and does `encode` ever refuse one needlessly? | 3 strings, two of 12 bytes, 3 records of 2 values or 2 records and a call of a dictionary operation, 2 places reserved, tracker of 1, purge every 2nd, re-index every 3rd record, clear above 1 string, refresh above 26 bytes, a field that holds 31, so that one `A` record can be too large |
| `pipeline` | does a follower deliver exactly what was written, and all of it, through all maintenance and the caller's own dictionary operations, and is a dictionary that is too large forgotten in the end? | 2 strings, 5 records or 4 and a call, purge every 2nd, re-index every 3rd record, clear above 1 string |
| `pipeline_full` | (violated, see below) | 3 strings, 2 places reserved, 1 record |
| `source` | does the buffered window behave as an array, for files and pipes, followed or not? | a file of up to 5 bytes, a buffer of 3 that grows, a history of 2, calls of up to 3 bytes, a needle of 2 |
| `tail` | does `tail` start at the first real record with the true dictionary, deliver everything from there and end, and does `tail -f` catch up; does a cache filled by several entries, in any order, with recycling, stay true? | 6 records, 1 false start, entered once, before or behind the place a false start has in a record; or 7 records, entered twice; 2 dictionaries |
| `grep` | does `grep` print exactly the records it should, once and in order, with what it goes back to still buffered and readable, and end? | 4 values, 3 dictionaries, 2 of them cached, contexts of up to 2, date scan of 2, six combinations of `-A -B -m -F -c` and dates |
| `zindex` | is an index that is loaded always whole and of this file, and do reads and seeks with it yield the data of the positions asked for? | ten bytes in five blocks, the last of them empty, two access points and the final entry, windows and chunks of 3 bytes, one or two members, reads of up to 4 bytes |
| `tail_torn` | (violated, see below) | 4 records, the last of them cut off behind its first byte |
| `bisect` | does the bisection end in every file, keep the first match within reach of its scan, print what `-k` would, and leave the pattern as it was given? | a file of up to 9 records of 2 bytes and one of up to 4, neighbours out of order, one record of 4 bytes or without the key; scan below 6 bytes, prefix 4, overrun 6; au, JSON and text; with `-g` and without |
| `bisect_rare_key` | (violated, see below) | 5 records, 3 without the key |
| `values` | does every value come out as it went in, at every edge of the encodings; does a search find the same in JSON and in au, and what it should; does the prefix of a time match the times that begin with it? | nine scopes: shapes of up to 8 events nested 3 deep, with JSON that may break off; every integer of ten bits, signed and unsigned; strings of 0, 1, 2, 31, 32 and 64 bytes with dictionary indices about 128; 10 times and 40 prefixes of times and of times of day |
| `values_times` | (violated, see below) | the same 10 times |

The bounds are chosen around the events: in three records of two values, a
string can be interned by frequency or by force, be exported, purged, written
again, outlive or not outlive a re-index, and each maintenance step falls due
alone and together with another.  Thresholds (26 bytes, 31 bytes, a tracker of
one, two or three reserved places) replace 2^31, 2^32, 1000 and 1680;
the code compares with them and does nothing else, and the proofs below hold
for every value.  In the source's run a call of three bytes needs up to three
reads, the window shifts and grows, a needle straddles two windows, a pin lies
further back than the history and a rewind reaches its last byte; five bytes
are enough for each of these and for the file to grow in the middle.  Six
records hold two dictionaries, or a chain of two `A`s, and a false start;
seven with two entries make the cache build an older dictionary after a newer
one, recycle one of its two, and extend a cached one.  Four values
are enough for two contexts that touch, overlap or contain a match, and for a
context that reaches back over one or two recycled dictionaries.  Ten bytes in a
window of three make the window wrap before the second access point is taken,
`output_`, of six, is filled in pieces and started over, and a seek beyond the
end can reach the final entry or skip in vain.  In a file of nine
records, 20 bytes, with a scan below six, the bisection takes several steps
before it scans; a record of four bytes can make it land where the range ends; the
first record wanted can lie at the last place `FirstInReach` allows; and the scan,
whose suffix amount is 16, gives up before the end of the file, or reaches the end
only because it counts anew behind each match.  Without the overrun in that amount,
or without counting anew, matches are missed.  The second file meets the pattern the
first one left.  In `values`, ten bits
with groups of three have varints of one to three bytes, the widest integers
outside them, and the least signed integer; the times lie on either side of a
month's and a year's end, in a leap year, and before 1970, and there is a time for
every length a text may have.

Deadlock is checked nowhere: in each of these systems a writer, a file or a
command may end, and a source waits for ever in a file that never grows.  What
must not stop is stated as liveness (`ImplementsRecordLog`, `ImplementsByteStream`,
`TailEnds`, `FollowerCatchesUp`, `GrepEnds`, `SeekEnds`, `BisectEnds`).

**Fairness.** `PipeSpec` has weak fairness of the reader's step only: a reader
process with bytes to read is scheduled and reads them (`FileByteSource::read`
retries until it gets some).  Nothing is assumed of the writer, which may stop
for good after any record.  `SrcSpec` has weak fairness of the source's own
steps: a call that has what it needs goes on.  `TailSpec` has it of the two
parts of `tail`, `sync()` and the reading after it, `GrepSpec` of the search once
it has started, `BisectSpec` of the bisection and its scan, `ZSpec` of the steps of `doSeek` (a call that nothing interrupts).  None of them asks
anything of the process that writes the file.  `EncSpec`, `InternSpec` and
`ValuesSpec` state no fairness: nothing there is asked to happen.

**Refinement.** `ImplementsRecordLog` says that the pipeline, with `sent` as
`written` and `delivered` as `received`, is a behaviour of `RecordLog!LogSpec`,
liveness included: headers, clears and adds are stuttering steps, a value record
read is one delivery of the next value.  It subsumes "no value lost, duplicated
or reordered" and "every index means to the reader what it meant to the writer".

`ImplementsByteStream` says that the source is a behaviour of
`ByteStream!StreamSpec`: filling, shifting and skipping within the window are
stuttering steps, each return is the abstract call's outcome at that moment, and
an end of file is reported only while the file really ends there.  The abstract
fairness (a call that can return does) is implemented by that of the source.

### What the four violated runs show

* `pipeline_full`: when `dictInOrder_` is full, `idx()` re-indexes on the spot
  (AuEncoder.h:149-156).  Indices the current record has already written, or
  that were exported in earlier `A` records, are thereby renumbered, and no `C`
  follows.  The counterexample is a single record of three strings in a vector
  with room for two: the reader delivers the first two swapped, without an
  error.  The comment at AuEncoder.h:175-176 states the rule this breaks.  With
  the default configuration, room is reserved for 1680 strings and the
  dictionary is cleared after a record that leaves more than 1400, so it takes
  one record that brings in more than 280 new strings at once.  The other runs
  reserve enough for what they write.
* `tail_torn`: when an attempt fails, `sync()` seeks one byte behind the start
  it tried (Tail.h:225).  If that is the end of the file, which happens when the
  writer's last flush ended behind the `V` of a record, `FileByteSource::seek`
  throws for want of a byte to read.  The exception comes from within the
  handler and leaves `sync()`, so that `tail` ends with it instead of its
  own message (Tail.h:158-161).  The comment at BufferByteSource.h:57-58
  supposes that nothing seeks there.
* `bisect_rare_key`: when no record behind the middle of the range has the key,
  the bisection meets the end of the file and returns (GrepHandler.h:512) without
  a scan; matches before the middle are not printed, although `-o` is "like -k"
  (Grep.cpp:140-141).  `matchOrGreater`, which it has set, is not reset on that
  path, so that the next file is searched with `-g`.  `bisect` has files whose key
  is never that rare.
* `values_times`: a text such as 2018-02-31T00:00:00 is taken for a time, because
  days go to 31 in every month (TimestampPattern.h:103); `timegm` carries, and the
  value is decoded as the 3rd of March.  README.md:114-118 of the repository speaks
  of strings that are "representable as timestamps".  A time before 1970 with a
  fraction fails the same property: its fraction is printed as an unsigned 64-bit
  number (JsonOutputHandler.h:138-140).  `values` leaves both aside.

Other disagreements met on the way, which no run is spent on:

* "When the dictionary grows beyond this size, it will be cleared"
  (AuEncoder.h:743) does not hold at once when a re-index falls due on the same
  record: it sets `lastDictSize_` to 0, and the clear tests that (717-727).
  `LargeDictionariesForgotten` states what does hold.
* One digit of a day stands for a decade of days, also those the month does not
  have: the pattern 2018-04-3 matches the 1st of May, 2018-02-2 the 1st of March.
  `PrefixMatches` leaves such prefixes out (`DaysComplete`).
* "-g --or-greater match any value equal to or greater than <pattern>"
  (Grep.cpp:142) does not hold for a negative integer: it has no unsigned pattern
  (GrepHandler.h:100-104), and so no value read as unsigned, which is each that is
  not negative, is found; the bisection of `-o` across zero goes astray on it, too.
  `Matches` is stated with the usage text's meaning and leaves that case open
  (`LeftOpen`): there it asks only that JSON and au are searched alike and that
  nothing smaller is found.
* The depth of a value is bounded where it is read, not where it is written: a
  value nested deeper can be written and no more be read (AuDecoder.h:171-181).
* `enc -c` over several files subtracts a file's attempts, a final failed one
  included, from the count that is left (Json2Au.cpp:275), which may wrap.

## What is proved

TLAPS checks what follows for every value of the constants.  The assumptions
are named in the modules that declare the constants.  `InternAssumption`,
`EncoderAssumption`, `SourceAssumption`, `TailAssumption`, `GrepAssumption` and
`BisectAssumption` ask for little more than that the constants are numbers of the right sign (a
string's rank identifies it, the backref field holds at least the size of a `C`
record, a cache has room for one dictionary, `-c` leaves no context, which
GrepHandler.h:392 sees to).  `ZindexAssumption` says what
zlib's block boundaries are: positions in the file that increase, and positions
in the data that do not decrease (a block may be empty).
`RoughnessAssumption`, above, is a condition on the file, and the one assumption
that a user of `grep -o` can break.

Each of the proofs has an inductive invariant, and is laid out as one lemma per
action.  Elsewhere than in a sequence or a counter the provers know nothing of
induction over data; where a "first" or "nearest" thing is needed, its existence
comes from the least element of a non-empty set of naturals (`LeastNatural`,
from the well-foundedness of `<`).

**The interner.**  `AuEncoder_proofs`: `InternSpec` implies `[]InternTypeOK`,
`[]IndexNamesItsString`, `[]ViewsNeverDangle`, `[]TrackerConsistent`.  The
inductive invariant `InternInv` has two halves.  `DictInv` adds to the
properties that the hash is finite.  The interesting step is a re-index:
`doReIndex` builds a vector as long as the hash is large
(`ReindexedAgrees`), and a hash that points into the old vector, one string to
a place, cannot be larger than that vector is long (`HashNoLargerThanVector`,
by injection), so the new vector fits what is reserved.  `TrackerInv` is
about the list and the free list; its work is in removing from the middle of
the list (`PromoteTracker`) and from its front (`StartTrackingTracker`) while
no string is in it twice.

**The encoder.**  `AuEncoder_proofs`: `EncSpec` implies `[]EncTypeOK`, `[]BackrefsLand`,
`[]BackrefsBounded`, `[]BackrefsFit`, and `[]InternInv` (the encoder uses the
interner in an order that keeps its invariant).  `BackrefsLand` is not
inductive: it says nothing of the record to come.  What is inductive is that
`backref_` is always the distance from the next byte back to the last `A` or
`C` (`DictBehind`).  `AppendKeepsLog` is the common step: a record whose backref
is the running distance may be appended to a good log if the distance is close
(`Close`), which the refresh at the top of `finalizeAndWrite` establishes
(`RefreshedKeepsLog`) and an export re-establishes (`ExportDictKeepsLog`).
`BackrefsFit` follows because after the refresh only the size of an `A` record
can exceed the field.  `LargeDictionariesForgotten`, a property of histories, is
proved step by step: a record that leaves the dictionary too large either meets the
clear at its end or falls together with a re-index, which is one itself.

**Encoder and follower.**  Run `pipeline_full` shows that a record which fills the
vector is misread, so nothing can be proved of a follower without saying that
this does not happen.  The hypothesis is `RoomReserved`: the vector's capacity is
still what was reserved.  `AuPipeline_proofs`: `PipeSpec` and `[]RoomReserved`
imply `[]NeverBroken`, that what is delivered is a prefix of what was written, and
`RecordLog!LogSafety`, the safety half of `ImplementsRecordLog`.  The hypothesis is
not empty: `RoomStaysReserved` derives it from `RecordsFit`, a condition on the
constants alone (what is reserved exceeds `clearThreshold` by what two records
can bring in: two, because the clear can be put off by one record, see above), and
`ShortRecordsArrive` puts the two together.  The invariant, `PipeInv`, relates three
dictionaries: the interner's vector up to `lastDictSize_` is what the
records written so far spell out; the cached dictionary is what they spell out up
to where the reader is; and every index in a value record, or in a record half
written, means the same in the vector as in the spelled-out dictionary.

**The byte source.**  `FileByteSource_proofs`: `SrcSpec` implies `[]SrcTypeOK`,
`[]WindowIsFile`, `[]PinnedStaysBuffered`, `[]HistoryStaysBuffered`,
`RewindsServed`, and `ByteStream!StreamSafety`, the safety half of
`ImplementsByteStream`, for every buffer, history and file size.  The inductive
invariant `SrcInv` adds that the window does not begin
before the file, that `high` is the furthest position, and that a seek in
progress has no pin to lose.  `read()` is the one step that drops bytes:
`DroppedFits` bounds what it drops by both the history and the pin,
`ReadKeepsWindow` shows that shift and refill leave each byte at its place.
The refinement needs `CallInv` besides: how far a call in progress has come, so
that what it returns is what the abstract stream returns from the place where the
call was made.  Every step is then a return, which is the abstract one, or
invisible (`SourceStepIsStreams`).

**tail.**  `AuTail_proofs`: `TailSpec` implies `[]CacheIsTrue`, `[]SyncsAtFirst` and
`[]TailDelivers`, for every log, any number of false starts, of entries and of
dictionaries, and any cache size.  `TailInv` has these parts:

* `LogInv`, about the file: the backref of a record leads to the nearest
  dictionary record before it, whose dictionary it continues (`Linkage`); between
  two `C`s a dictionary only grows at its end, so that a short one is a prefix of a
  later one (`Growing`); a value's content stands for what was sent (`Sending`).
* `CacheOK`: every cached dictionary is the writer's at its last position, with
  no `C` since its first.
* `Chain`: while a dictionary is built backwards, the strings collected are
  exactly what the dictionary at `target` has and the one at `link` has not.  With
  it, adding them to a dictionary found at `link` makes that the one of `target`.
* `NoneSkipped` and `Trying`: no value record lies between the place entered and
  the place where `sync()` looks or tries.  The work is in `GiveUpPasses`: going on
  one byte behind a false start passes no record, because a false start lies inside
  one.
* `Building`, `Validating`: a record that is real is never given up, since its
  dictionary is found and resolves its content (`Decodes`).
* `Reading`: the dictionary in force is in the cache, so that no record read from
  here on can throw, and what was delivered is counted exactly.

`AuLog_proofs` holds what is about the log and the reader, whoever drives it.

**The context loop of grep.**  `AuGrep_proofs`: `GrepSpec` implies
`[]PrintsWanted`, `[]CountsHits`, `[]ContextReadable` and `RewindsPinned`, for every
log, every combination of `-A -B -m -F -c` and dates, and any number of
dictionaries kept.  What should be printed is defined by sets of records
(`Hits`, `Followed`, `Wanted`), what is printed comes from two counters, a flag and a
buffer of positions, so most of `GrepInv` says how the two correspond after the
first *n* values.  Its parts, besides `LogInv` and `CacheOK`:

* `Counts` and `Forces`: `total` is the number of hits among the *n*, and `force`
  how many of the next records are wanted on account of those; neither is said
  by what is printed, and both decide what will be.
* `Lists` and `Buffers`: what is delivered is, one for one, the wanted records
  among the *n* that do not depend on what follows (`Printed`), and `posBuffer`
  holds the ones in front of the next that are not yet printed, at most the
  context and without a gap to the last one printed.  From these follows that a
  hit prints the buffer and nothing twice.  `AtPrint` says the same while the
  loop has gone back: the `due` records from here on are exactly those wanted and
  not delivered.
* `Caching`: the cache never holds an arbitrary set of dictionaries.  It is a run
  of consecutive ones, the last of them the one in force; or, once the loop has
  gone back over one that was recycled, what is left of that run followed by
  another, begun earlier in the file, which reading the old `C` records again
  has put in the place of the former's first ones (`Runs`, `Forward`,
  `Backward`).  Hence the dictionary of a record gone back to is missing only
  where `MaxDicts` others begin within one context (`ContextReadable`).
* `Covering`: a cached dictionary lacks nothing that was read, so that the records
  gone back over are decoded with what they were written with.

`RewindsPinned` follows from the pin lying at the start of the scan, or at the
first element of `posBuffer`, in
every state from which the loop goes back.

**The bisection.**  `GrepBisect_proofs`: `BisectSpec` implies `[]FirstInReach` and
`[]PrintsMatches`.  The invariant says how the two ends of the range were come
by (`RangeInv`): a record at or behind the lower end is less than the pattern; the
record found from the upper end is not less and at most `KeyGap` behind it, or
the upper end is still that of the file, or the range is down to one byte.  With
the order `Disorder`-rough, a record wanted cannot lie further than that before the
first or behind the second, which is the argument that the prefix and overrun of
the scan are enough.  `ScanInv` adds that what is printed is what is wanted up
to here, and that the next record wanted lies within `SUFFIX_AMOUNT` of the last
one: the scan does not give up early.

**The gzip index.**  `Zindex_proofs`: `ZSpec` implies `[]ZTypeOK`,
`[]AccessPointsSound`, `[]LoadedIndexFits`, `[]OutputIsData`, `[]FailsOnlyAtEnd` and
`SeeksLand`.  `BuildInv` says what the circular window holds at every block
boundary, wrapped or not; `EntriesInv` that the entries increase and that only a
finished builder leaves a final one, so that a file whose builder was killed is
never loaded (`LoadInv`); `Consistent` that `output_`, the position and where the
inflater continues agree in every state of the reader, which a jump restores from
an access point and a skip moves along.

### What is only model-checked

* Liveness: the fairness halves of `ImplementsRecordLog` and
  `ImplementsByteStream`, `TailEnds`, `FollowerCatchesUp`, `GrepEnds`, `BisectEnds`,
  `SeekEnds`.  The prover has no rules for fairness and `ENABLED`.
* `AuValues`: what recursive encodings, the parser and the calendar compute.  A proof
  would be an induction over values, for which the provers lack the means; TLC
  checks all inputs of the scaled widths.
* What the four violated runs refute, of course, and `pipeline`'s properties in the
  absence of `RoomReserved`.

## What is not modelled, and the plan

Not modelled because it holds no state or belongs to someone else: the layout
of output, the formatting of numbers and the escaping of strings (rapidjson's),
regular expressions and `strtod`, command-line parsing, magic-byte detection,
`stats`' counters, vendored rapidjson/tclap/zlib (a gzipped file that is damaged or
cut off included), and callbacks that throw (the callers here end).
`BufferByteSource` is an array with a position, which is to say `ByteStream`.

Left out of the modelled parts: the lenient parsing of times in text logs (`-l`,
which picks a time out of a line), the context loop over JSON and text (it is the
au loop without dictionaries), bytes that no `AuWriter` wrote (each read of them
ends in a `parse_error`), the loop of `enc` over its files.

Of the plan nothing is left that these tools can do: every safety property that
a passing run checks is also a theorem (`NeverBroken` under `RoomReserved`, the
two of the bisection under `RoughnessAssumption`), except those of `AuValues`,
which would need induction over values.
