------------------------------ MODULE Fuzzing ------------------------------
(***************************************************************************)
(* Fuzzing of scalar literals (dfsm/dfsm-ast-data-structure.c and          *)
(* dfsm/dfsm-probabilities.c): how dfsm_ast_data_structure_to_variant()    *)
(* turns the value written in a description into the value sent over the   *)
(* bus.                                                                    *)
(*                                                                         *)
(* A choice is drawn the way dfsm_random_nonuniform_distribution() draws   *)
(* it: a random word is compared with one interval after another, each     *)
(* probability times G_MAXUINT32 and truncated.  A string is a sequence of *)
(* BYTES, because the code mixes offsets in bytes and in characters; "lead"*)
(* and "cont" are the two bytes of a character outside ASCII (longer       *)
(* characters behave the same).  The words deadbeef and fuzzing are runs   *)
(* of the letter "a".  Integer widths are constants, so that what is       *)
(* checked on narrow integers is proved for all of them.                   *)
(***************************************************************************)
EXTENDS Integers, Sequences, FiniteSets

CONSTANTS
    Literals,        \* the literals of the description: [type, value, weighted]
    MaxByte,         \* G_MAXUINT8
    MaxInt16,        \* G_MAXINT16
    MaxInt32,        \* G_MAXINT32
    Separators,      \* random_block_separators
    MaxGenerated,    \* longest string generated from nothing (256 in the code)
    MaxPad           \* longest whitespace added at an end (5 in the code)

MaxUInt16 == 2 * MaxInt16 + 1
MaxUInt32 == 2 * MaxInt32 + 1
MaxUInt64 == (MaxUInt32 + 1) * (MaxUInt32 + 1) - 1
MaxInt64  == (MaxUInt64 - 1) \div 2

\* Integers are at least wide enough for the small ranges of the code, and each
\* is twice as wide as the one before.
ASSUME WidthsAssumption ==
    /\ MaxByte \in Nat /\ MaxInt16 \in Nat /\ MaxInt32 \in Nat
    /\ 10 <= MaxByte /\ MaxByte <= MaxInt16 /\ MaxUInt16 <= MaxInt32

\* There are fewer separators than words to share among them, and all of them are
\* ASCII characters.
ASSUME SeparatorsAssumption ==
    /\ IsFiniteSet(Separators) /\ Cardinality(Separators) <= 10
    /\ Separators \cap {"lead", "cont"} = {}

ASSUME LengthsAssumption == MaxGenerated \in Nat /\ MaxPad \in Nat

\* g_random_int () and g_random_int_range (a, b).
RandomInt == 0..MaxUInt32
RandomIntRange(a, b) == a..(b - 1)

-----------------------------------------------------------------------------
(* The types of literals and their ranges.                                 *)

SignedTypes   == {"int16", "int32", "int64"}
UnsignedTypes == {"byte", "uint16", "uint32", "uint64"}
IntegerTypes  == SignedTypes \union UnsignedTypes

UpperBound == [byte |-> MaxByte, int16 |-> MaxInt16, uint16 |-> MaxUInt16,
               int32 |-> MaxInt32, uint32 |-> MaxUInt32,
               int64 |-> MaxInt64, uint64 |-> MaxUInt64]
LowerBound(t) == IF t \in SignedTypes THEN -UpperBound[t] - 1 ELSE 0
RangeOf(t)    == LowerBound(t)..UpperBound[t]

-----------------------------------------------------------------------------
(* Strings.                                                                *)

Uppercase  == {"A"}
Lowercase  == {"a"}
Whitespace == {" "}
Digits == {"0"}
Bytes == Uppercase \union Lowercase \union Whitespace \union Digits
             \union Separators \union {"lead", "cont"}

\* What generate_character () may write: an ASCII character or a longer one.
MaxCharacterBytes == 2
GeneratedCharacters == {<<"A">>, <<"a">>, <<"lead", "cont">>}

\* g_utf8_validate ().
ValidUtf8(s) ==
    \A p \in 1..Len(s) :
        /\ s[p] = "lead" => p < Len(s) /\ s[p + 1] = "cont"
        /\ s[p] = "cont" => p > 1 /\ s[p - 1] = "lead"

\* g_variant_is_object_path (): elements separated by single slashes.
ValidObjectPath(s) ==
    /\ s # <<>> /\ s[1] = "/"
    /\ \A p \in 1..Len(s) :
          /\ s[p] \in {"/"} \union Uppercase \union Lowercase \union Digits
          /\ s[p] = "/" => Len(s) = 1 \/ (p < Len(s) /\ s[p + 1] # "/")

\* A literal was parsed into its type, and checked to be valid, or refused.
ASSUME LiteralsAssumption ==
    \A l \in Literals :
        /\ l.type \in IntegerTypes \union {"boolean", "string", "path"}
        /\ l.type \in IntegerTypes => l.value \in RangeOf(l.type)
        /\ l.type = "string" => l.value \in Seq(Bytes) /\ ValidUtf8(l.value)
        /\ l.type = "path" => l.value \in Seq(Bytes) /\ ValidObjectPath(l.value)

\* The bytes of s at the offsets from..to-1, offsets being counted from 0.
Chunk(s, from, to) == SubSeq(s, from + 1, to)

\* The offsets at which a character starts, and the end of the string.
Boundaries(s) == {o \in 0..Len(s) : o = Len(s) \/ s[o + 1] # "cont"}

\* g_utf8_strlen ().
CharacterCount(s) == Cardinality(Boundaries(s)) - 1

\* g_utf8_offset_to_pointer (): the offset n characters after the offset from.
Advance(s, from, n) ==
    CHOOSE o \in Boundaries(s) :
        o >= from /\ Cardinality({b \in Boundaries(s) : from <= b /\ b < o}) = n

SwapCase(b) == CASE b \in Uppercase -> "a" [] b \in Lowercase -> "A" [] OTHER -> b

-----------------------------------------------------------------------------
(* find_random_block (): a block of the bytes from..to-1 of s.             *)

\* The separators that occur.
SeparatorsFound(s, from, to) ==
    {c \in Separators : \E o \in from..(to - 1) : s[o + 1] = c}

\* find_random_block_with_separator (): a block starts after an occurrence of c
\* and ends after a later one, or with the input.
BlocksBetween(s, from, to, c) ==
    LET after == {o + 1 : o \in {p \in from..(to - 1) : s[p + 1] = c}}
    IN  {b \in [start : after, end : after \union {to}] :
            b.start < b.end \/ b.end = to}

\* Without separators a block is any run of characters that starts before the
\* end of the input.
BlocksAnywhere(s, from, to) ==
    {b \in [start : Boundaries(s), end : Boundaries(s)] :
        from <= b.start /\ b.start < to /\ b.start <= b.end /\ b.end <= to}

\* The separators found share the words equally, what is left over being nobody's:
\* the words that reach g_assert_not_reached ().
StuckWords(s, from, to) ==
    LET n == Cardinality(SeparatorsFound(s, from, to))
    IN  {w \in RandomInt : from < Len(s) /\ n > 0 /\ w \div (MaxUInt32 \div n) >= n}

RandomBlocks(s, from, to) ==
    LET found == SeparatorsFound(s, from, to)
    IN  CASE from = Len(s) -> {[start |-> from, end |-> from]}
          [] from < Len(s) /\ found = {} -> BlocksAnywhere(s, from, to)
          [] OTHER -> UNION {BlocksBetween(s, from, to, c) : c \in found}

-----------------------------------------------------------------------------
(* The distributions, in twentieths.                                       *)

Menu == [integer   |-> <<[name |-> "small",    p |-> 6],
                         [name |-> "default",  p |-> 6],
                         [name |-> "boundary", p |-> 2],
                         [name |-> "large",    p |-> 6]>>,
         boolean   |-> <<[name |-> "default", p |-> 12],
                         [name |-> "flip",    p |-> 8]>>,
         string    |-> <<[name |-> "case",     p |-> 2],
                         [name |-> "replace",  p |-> 4],
                         [name |-> "delete",   p |-> 2],
                         [name |-> "overwrite", p |-> 4],
                         [name |-> "clone",    p |-> 2],
                         [name |-> "swap",     p |-> 4],
                         [name |-> "separate", p |-> 2]>>,
         path      |-> <<[name |-> "default",  p |-> 14],
                         [name |-> "appended", p |-> 6]>>,
         character |-> <<[name |-> "ascii",   p |-> 10],
                         [name |-> "valid",   p |-> 8],
                         [name |-> "invalid", p |-> 2]>>]

\* Mutant: the word is divided before it is multiplied.
IntervalOfTwentieths(p) == p * (MaxUInt32 \div 20)

\* _DFSM_DISTRIBUTION_LIST_UINT32: the interval of a probability.
Interval(p) == (p * MaxUInt32) \div 20

VARIABLES
    pc,       \* what the evaluation does next
    literal,  \* the literal evaluated
    draw,     \* the draw under way: [menu, word, rnd, i], as in the code
    edit,     \* the case of fuzz_string () under way
    i,        \* next letter (or byte) to change; letters left to generate
    old_i,    \* the letter after the one changed last
    source,   \* offset of the pointer default_value
    buffer,   \* the bytes written to fuzzy_string
    alloc,    \* bytes allocated for it, the terminator's included
    length,   \* fuzzy_string_length
    value     \* the value of the variant built

vars == <<pc, literal, draw, edit, i, old_i, source, buffer, alloc, length, value>>
walk == <<i, old_i, source>>
text == <<buffer, alloc, length>>

NoDraw == [menu |-> "none", word |-> 0, rnd |-> 0, i |-> 1]

Default == literal.value

Init ==
    /\ pc = "evaluate"
    /\ literal \in Literals
    /\ draw = NoDraw
    /\ edit = "none"
    /\ i = 0 /\ old_i = 0 /\ source = 0
    /\ buffer = <<>> /\ alloc = 0 /\ length = 0
    /\ value = literal.value

-----------------------------------------------------------------------------
(* Drawing.                                                                *)

StartDraw(m) ==
    /\ pc' = "draw"
    /\ \E w \in RandomInt : draw' = [menu |-> m, word |-> w, rnd |-> w, i |-> 1]

\* The loop of dfsm_random_nonuniform_distribution ().
NextInterval ==
    LET n == Interval(Menu[draw.menu][draw.i].p)
    IN  /\ pc = "draw"
        /\ draw.i <= Len(Menu[draw.menu])
        /\ draw.rnd > n
        /\ draw' = [draw EXCEPT !.rnd = @ - n, !.i = @ + 1]
        /\ UNCHANGED <<pc, literal, edit, walk, text, value>>

\* g_assert (i < intervals_len).
DrawFails ==
    /\ pc = "draw"
    /\ draw.i > Len(Menu[draw.menu])
    /\ pc' = "aborted"
    /\ UNCHANGED <<literal, draw, edit, walk, text, value>>

Drawn(m, name) ==
    /\ pc = "draw"
    /\ draw.menu = m
    /\ draw.i <= Len(Menu[m])
    /\ draw.rnd <= Interval(Menu[m][draw.i].p)
    /\ Menu[m][draw.i].name = name

Return(v) == pc' = "returned" /\ value' = v

-----------------------------------------------------------------------------
(* dfsm_ast_data_structure_to_variant () of a scalar literal.              *)

\* should_be_fuzzed () is false: the literal's own value.
Unfuzzed ==
    /\ pc = "evaluate"
    /\ ~literal.weighted
    /\ Return(Default)
    /\ UNCHANGED <<literal, draw, edit, walk, text>>

EmptyString == literal.type = "string" /\ Default = <<>>

MenuOf(type) == CASE type \in IntegerTypes -> "integer"
                  [] type = "boolean" -> "boolean"
                  [] type = "path" -> "path"
                  [] OTHER -> "string"

Fuzzed ==
    /\ pc = "evaluate"
    /\ literal.weighted
    /\ ~EmptyString
    /\ StartDraw(MenuOf(literal.type))
    /\ UNCHANGED <<literal, edit, walk, text, value>>

\* Mutant: unsigned integers get the small range of signed ones.
SmallRangeAlwaysSigned == RandomIntRange(-5, 6)

\* The cases of fuzz_signed_int () and fuzz_unsigned_int ().
SmallRange == IF literal.type \in SignedTypes THEN RandomIntRange(-5, 6)
                                              ELSE RandomIntRange(0, 11)

\* The large range leaves out the upper bound; a negative 64-bit integer is
\* computed in 32 unsigned bits.
ReturnLarge ==
    LET t == literal.type IN
    \/ /\ UpperBound[t] <= MaxInt32
       /\ \E v \in RandomIntRange(LowerBound(t), UpperBound[t]) : Return(v)
    \/ t = "uint32" /\ \E w \in RandomInt : Return(w)
    \/ /\ t = "int64"
       /\ \E w \in RandomInt : Return(w) \/ Return((-1 - w) % (MaxUInt32 + 1))
    \/ /\ t = "uint64"
       /\ \E w, v \in RandomInt : Return(w * (MaxUInt32 + 1) + v)

FuzzInteger ==
    /\ \/ Drawn("integer", "small") /\ \E v \in SmallRange : Return(v)
       \/ Drawn("integer", "default") /\ Return(Default)
       \/ /\ Drawn("integer", "boundary")
          /\ \E v \in {LowerBound(literal.type), UpperBound[literal.type]} : Return(v)
       \/ Drawn("integer", "large") /\ ReturnLarge
    /\ draw' = NoDraw
    /\ UNCHANGED <<literal, edit, walk, text>>

FuzzBoolean ==
    /\ \/ Drawn("boolean", "default") /\ Return(Default)
       \/ Drawn("boolean", "flip") /\ Return(~Default)
    /\ draw' = NoDraw
    /\ UNCHANGED <<literal, edit, walk, text>>

\* fuzz_object_path (), with its sanity check.
FuzzObjectPath ==
    /\ \/ Drawn("path", "default") /\ buffer' = Default
       \/ Drawn("path", "appended") /\ \E d \in Digits : buffer' = Default \o <<d>>
    /\ IF ValidObjectPath(buffer') THEN Return(buffer')
                                  ELSE pc' = "aborted" /\ UNCHANGED value
    /\ draw' = NoDraw
    /\ UNCHANGED <<literal, edit, walk, alloc, length>>

-----------------------------------------------------------------------------
(* fuzz_string ().                                                         *)

\* The empty string is kept, or replaced by generated characters.
FuzzEmptyString ==
    /\ pc = "evaluate"
    /\ literal.weighted
    /\ EmptyString
    /\ \/ pc' = "whitespace" /\ UNCHANGED <<draw, edit, i, alloc>>
       \/ \E n \in RandomIntRange(1, MaxGenerated + 1) :
            /\ i' = n
            /\ alloc' = n * MaxCharacterBytes + 1
            /\ edit' = "generate"
            /\ StartDraw("character")
    /\ UNCHANGED <<literal, old_i, source, buffer, length, value>>

GenerateNext ==
    /\ edit = "generate"
    /\ \E name \in {"ascii", "valid", "invalid"} : Drawn("character", name)
    /\ \E c \in GeneratedCharacters :
          /\ buffer' = buffer \o c
          /\ length' = Len(buffer')
    /\ i' = i - 1
    /\ IF i' > 0 THEN StartDraw("character")
                 ELSE pc' = "whitespace" /\ draw' = NoDraw
    /\ UNCHANGED <<literal, edit, old_i, source, alloc, value>>

\* CASE_CHANGE: bytes, not letters, are visited, further and further apart.
StartCaseChange ==
    /\ Drawn("string", "case")
    /\ buffer' = Default
    /\ length' = Len(Default)
    /\ alloc' = Len(Default) + 1
    /\ i' \in RandomIntRange(0, Len(Default) + 1)
    /\ edit' = "case"
    /\ pc' = "edit"
    /\ draw' = NoDraw
    /\ UNCHANGED <<literal, old_i, source, value>>

\* Mutant: the next byte may be the same one.
ChangeCaseStandingStill ==
    /\ pc = "edit" /\ edit = "case"
    /\ i < length
    /\ buffer' = [buffer EXCEPT ![i + 1] = SwapCase(@)]
    /\ \E step \in RandomIntRange(0, length + 1) : i' = i + step
    /\ UNCHANGED <<pc, literal, draw, edit, old_i, source, alloc, length, value>>

ChangeCase ==
    /\ pc = "edit" /\ edit = "case"
    /\ i < length
    /\ buffer' = [buffer EXCEPT ![i + 1] = SwapCase(@)]
    /\ \E step \in RandomIntRange(i + 1, length + 1) : i' = i + step
    /\ UNCHANGED <<pc, literal, draw, edit, old_i, source, alloc, length, value>>

EndCaseChange ==
    /\ pc = "edit" /\ edit = "case"
    /\ i >= length
    /\ pc' = "whitespace"
    /\ UNCHANGED <<literal, draw, edit, walk, text, value>>

\* Mutant: one byte is allocated for each letter.
StartLettersOfOneByte ==
    /\ \E name \in {"replace", "separate"} : Drawn("string", name) /\ edit' = name
    /\ alloc' = CharacterCount(Default) + 1
    /\ old_i' = 0
    /\ i' \in RandomIntRange(0, CharacterCount(Default) + 1)
    /\ pc' = "edit"
    /\ draw' = NoDraw
    /\ UNCHANGED <<literal, source, buffer, length, value>>

\* REPLACE_LETTERS and ADD_SEPARATORS walk the literal by characters, copying
\* those between two replaced ones.
StartLetters ==
    /\ \/ /\ Drawn("string", "replace")
          /\ edit' = "replace"
          /\ alloc' = CharacterCount(Default) * MaxCharacterBytes + 1
       \/ /\ Drawn("string", "separate")
          /\ edit' = "separate"
          /\ alloc' = Len(Default) + 1
    /\ old_i' = 0
    /\ i' \in RandomIntRange(0, CharacterCount(Default) + 1)
    /\ pc' = "edit"
    /\ draw' = NoDraw
    /\ UNCHANGED <<literal, source, buffer, length, value>>

CopyChunk(to) == buffer \o Chunk(Default, source, to)

\* Write one replaced letter and skip the one it replaces.
WriteLetter(c) ==
    LET next == Advance(Default, source, i - old_i) IN
    /\ buffer' = CopyChunk(next) \o c
    /\ source' = Advance(Default, next, 1)
    /\ old_i' = i + 1
    /\ i' \in RandomIntRange(old_i', CharacterCount(Default) + 1)
    /\ pc' = "edit"
    /\ draw' = NoDraw
    /\ UNCHANGED <<literal, edit, alloc, length, value>>

ChooseLetter ==
    /\ pc = "edit" /\ edit = "replace"
    /\ i < CharacterCount(Default)
    /\ StartDraw("character")
    /\ UNCHANGED <<literal, edit, walk, text, value>>

ReplaceLetter ==
    /\ edit = "replace"
    /\ \E name \in {"ascii", "valid", "invalid"} : Drawn("character", name)
    /\ \E c \in GeneratedCharacters : WriteLetter(c)

AddSeparator ==
    /\ pc = "edit" /\ edit = "separate"
    /\ i < CharacterCount(Default)
    /\ \E c \in Separators : WriteLetter(<<c>>)

EndLetters ==
    /\ pc = "edit" /\ edit \in {"replace", "separate"}
    /\ i >= CharacterCount(Default)
    /\ LET end == Advance(Default, source, i - old_i) IN
          /\ buffer' = CopyChunk(end)
          /\ source' = end
    /\ length' = Len(buffer')
    /\ pc' = "whitespace"
    /\ UNCHANGED <<literal, draw, edit, i, old_i, alloc, value>>

\* The edits of one or two blocks.
Edited(name, new, newLength) ==
    /\ edit' = name
    /\ buffer' = new
    /\ length' = newLength
    /\ alloc' = newLength + 1
    /\ pc' = "whitespace"
    /\ draw' = NoDraw

BlockFails(from, to) ==
    /\ pc' = "aborted"
    /\ \E w \in StuckWords(Default, from, to) :
          draw' = [menu |-> "separators", word |-> w, rnd |-> w, i |-> 1]
    /\ UNCHANGED <<edit, text>>

\* Mutant: the byte before the block is overwritten too.
OverwriteBlockAndBefore(b) ==
    Edited("overwrite",
           [p \in 1..Len(Default) |->
               IF b.start <= p /\ p <= b.end THEN "a" ELSE Default[p]],
           Len(Default))

\* DELETE_BLOCK, OVERWRITE_BLOCK and CLONE_BLOCK, applied to block b.
DeleteBlock(b) ==
    Edited("delete",
           Chunk(Default, 0, b.start) \o Chunk(Default, b.end, Len(Default)),
           Len(Default) - (b.end - b.start))

OverwriteBlock(b) ==
    Edited("overwrite",
           [p \in 1..Len(Default) |->
               IF b.start < p /\ p <= b.end THEN "a" ELSE Default[p]],
           Len(Default))

CloneBlock(b) ==
    Edited("clone",
           Chunk(Default, 0, b.end) \o Chunk(Default, b.start, b.end)
               \o Chunk(Default, b.end, Len(Default)),
           Len(Default) + (b.end - b.start))

EditOneBlock ==
    /\ \E name \in {"delete", "overwrite", "clone"} : Drawn("string", name)
    /\ \/ BlockFails(0, Len(Default))
       \/ \E b \in RandomBlocks(Default, 0, Len(Default)) :
             \/ Drawn("string", "delete") /\ DeleteBlock(b)
             \/ Drawn("string", "overwrite") /\ OverwriteBlock(b)
             \/ Drawn("string", "clone") /\ CloneBlock(b)
    /\ UNCHANGED <<literal, walk, value>>

\* Mutant: what lies between the blocks is taken from the first block's start.
SwappedWithOverlap(b, c) ==
    Edited("swap",
           Chunk(Default, 0, b.start) \o Chunk(Default, c.start, c.end)
               \o Chunk(Default, b.start, c.start) \o Chunk(Default, b.start, b.end)
               \o Chunk(Default, c.end, Len(Default)),
           Len(Default))

\* SWAP_BLOCKS: the second block comes from the larger part the first leaves.
SwappedWith(b, c) ==
    Edited("swap",
           Chunk(Default, 0, b.start) \o Chunk(Default, c.start, c.end)
               \o Chunk(Default, b.end, c.start) \o Chunk(Default, b.start, b.end)
               \o Chunk(Default, c.end, Len(Default)),
           Len(Default))

SwapBlocks ==
    /\ Drawn("string", "swap")
    /\ \/ BlockFails(0, Len(Default))
       \/ \E b \in RandomBlocks(Default, 0, Len(Default)) :
             LET before == b.start > Len(Default) - b.end
                 from == IF before THEN 0 ELSE b.end
                 to == IF before THEN b.start ELSE Len(Default)
             IN  \/ BlockFails(from, to)
                 \/ \E c \in RandomBlocks(Default, from, to) :
                       IF before THEN SwappedWith(c, b) ELSE SwappedWith(b, c)
    /\ UNCHANGED <<literal, walk, value>>

\* Whitespace may be added at either end; then the string must be as long as its
\* length says, and valid.
AddWhitespace(before, after) ==
    /\ buffer' = [p \in 1..before |-> " "] \o Chunk(buffer, 0, length)
                     \o [p \in 1..after |-> " "]
    /\ length' = length + before + after
    /\ alloc' = before + length + after + 1

FinishString ==
    /\ pc = "whitespace"
    /\ \/ edit # "none" /\ UNCHANGED text
       \/ edit = "none"
             /\ buffer' = Default /\ length' = Len(Default) /\ alloc' = Len(Default) + 1
       \/ \E before, after \in {0} \union RandomIntRange(1, MaxPad + 1) :
             AddWhitespace(before, after)
    /\ IF length' = Len(buffer') /\ ValidUtf8(buffer')
       THEN Return(buffer')
       ELSE pc' = "aborted" /\ UNCHANGED value
    /\ UNCHANGED <<literal, draw, edit, walk>>

\* The literal may be evaluated again; its own value is never touched.
EvaluateAgain ==
    /\ pc = "returned"
    /\ pc' = "evaluate"
    /\ edit' = "none"
    /\ i' = 0 /\ old_i' = 0 /\ source' = 0
    /\ buffer' = <<>> /\ alloc' = 0 /\ length' = 0
    /\ value' = Default
    /\ UNCHANGED <<literal, draw>>

-----------------------------------------------------------------------------

Step ==
    \/ Unfuzzed \/ Fuzzed \/ NextInterval \/ DrawFails
    \/ FuzzInteger \/ FuzzBoolean \/ FuzzObjectPath
    \/ FuzzEmptyString \/ GenerateNext
    \/ StartCaseChange \/ ChangeCase \/ EndCaseChange
    \/ StartLetters \/ ChooseLetter \/ ReplaceLetter \/ AddSeparator \/ EndLetters
    \/ EditOneBlock \/ SwapBlocks \/ FinishString

Next == Step \/ EvaluateAgain

\* An evaluation is a function call: it runs until it returns or aborts.
Spec == Init /\ [][Next]_vars /\ WF_vars(Step)

-----------------------------------------------------------------------------
(* Properties.                                                             *)

Counters == [menu : DOMAIN Menu \union {"none", "separators"},
             word : RandomInt, rnd : RandomInt, i : Nat]

TypeOK ==
    /\ pc \in {"evaluate", "draw", "edit", "whitespace", "returned", "aborted"}
    /\ literal \in Literals
    /\ draw \in Counters
    /\ edit \in {"none", "generate"} \union {Menu["string"][c].name : c \in 1..7}
    /\ i \in Nat /\ old_i \in Nat /\ source \in Nat
    /\ buffer \in Seq(Bytes) /\ alloc \in Nat /\ length \in Nat

\* An integer literal is fuzzed within the range of its type, so that nothing is
\* lost when the result is narrowed to the type of the variant, on every path of
\* fuzz_signed_int () and fuzz_unsigned_int ().
IntegersStayInRange ==
    literal.type \in IntegerTypes /\ pc = "returned" => value \in RangeOf(literal.type)

\* The truncated intervals do not add up to G_MAXUINT32, so a draw can run off
\* their end and abort the program (dfsm_random_nonuniform_distribution () and
\* find_random_block ()); only the topmost words do, one per interval at most.
OnlyTopWordsAbort ==
    pc = "aborted" /\ draw.menu # "none" =>
        draw.word > MaxUInt32 - (IF draw.menu = "separators"
                                 THEN Cardinality(Separators)
                                 ELSE Len(Menu[draw.menu]))

\* The sanity checks that end fuzz_string () and fuzz_object_path () never fail:
\* the length accounted for is the length written, blocks and letters are cut
\* between characters, and a path with a digit appended is a path.
StringsAreWhole == pc = "aborted" => draw.menu # "none"

\* No edit writes past the memory it allocated, the terminator included.
BufferIsBigEnough == alloc > 0 => Len(buffer) < alloc

\* Swapping blocks keeps every byte of the literal, changing case every letter up
\* to its case, and replacing letters their number: no edit drops the rest of the
\* string.
EditsLoseNothing ==
    pc = "whitespace" =>
        CASE edit = "swap" ->
                \A b \in Bytes : Cardinality({p \in 1..Len(buffer) : buffer[p] = b})
                                = Cardinality({p \in 1..Len(Default) : Default[p] = b})
          [] edit = "case" ->
                /\ Len(buffer) = Len(Default)
                /\ \A p \in 1..Len(buffer) :
                      buffer[p] \in {Default[p], SwapCase(Default[p])}
          [] edit \in {"replace", "separate"} ->
                CharacterCount(buffer) = CharacterCount(Default)
          [] OTHER -> TRUE

\* The random walks of fuzz_string () advance at every turn, so that an
\* evaluation ends.
EvaluationEnds == pc = "evaluate" ~> pc \in {"returned", "aborted"}
============================================================================
