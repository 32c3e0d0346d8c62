------------------------ MODULE HierarchicalBitmap -------------------------
(***************************************************************************)
(* The occupancy index of src/include/matching_engine/                     *)
(* hierarchical_bitmap.hpp: a bitmap of machine words, with a summary bit  *)
(* for every word in the level above it, up to a level of one word.        *)
(*                                                                         *)
(* A word is the set of its bits that are 1, a bitmap a function from      *)
(* levels to arrays of words; the offsets of the levels in the one         *)
(* allocated array are left out.  A std::optional index is a set of at     *)
(* most one index.                                                         *)
(***************************************************************************)
EXTENDS Integers, FiniteSetsExt

CONSTANTS
  WordBits,    \* kWordBits
  TickCount    \* bit_count_: one bit for each price level

ASSUME BitmapAssumption == WordBits \in Nat \ {0, 1} /\ TickCount \in Nat \ {0}

MaximumLevels == 6
BitIndices == 0 .. WordBits - 1

words_for(bits) == (bits + (WordBits - 1)) \div WordBits

\* make_layout(): the number of words of every level.
word_counts[level \in 0 .. MaximumLevels - 1] ==
  words_for(IF level = 0 THEN TickCount ELSE word_counts[level - 1])

level_count == 1 + Min({level \in DOMAIN word_counts : word_counts[level] = 1})
BitmapLevels == 0 .. level_count - 1

EmptyBitmap ==
  [level \in BitmapLevels |-> [w \in 0 .. word_counts[level] - 1 |-> {}]]

\* The word and the bit of a level that cover a bit of the bottom level.
word_of(level, index) == index \div WordBits ^ (level + 1)
bit_of(level, index) == (index \div WordBits ^ level) % WordBits

test(bitmap, index) == bit_of(0, index) \in bitmap[0][word_of(0, index)]

\* The loop of set() climbs while the word below was empty.
set(bitmap, index) ==
  IF index >= TickCount \/ test(bitmap, index) THEN bitmap
  ELSE [level \in BitmapLevels |->
          IF \A below \in 0 .. level - 1 : bitmap[below][word_of(below, index)] = {}
          THEN [bitmap[level] EXCEPT ![word_of(level, index)] = @ \cup {bit_of(level, index)}]
          ELSE bitmap[level]]

\* The loop of clear() climbs while the word below became empty.
clear(bitmap, index) ==
  IF index >= TickCount \/ ~test(bitmap, index) THEN bitmap
  ELSE [level \in BitmapLevels |->
          IF \A below \in 0 .. level - 1 :
               bitmap[below][word_of(below, index)] = {bit_of(below, index)}
          THEN [bitmap[level] EXCEPT ![word_of(level, index)] = @ \ {bit_of(level, index)}]
          ELSE bitmap[level]]

level_bit_count(level) == IF level = 0 THEN TickCount ELSE word_counts[level - 1]

\* A candidate of the word itself, or the first bit of the next populated word,
\* which the summary above finds.
find_at_or_after(bitmap, from) ==
  LET find[level \in BitmapLevels, index \in 0 .. TickCount] ==
        IF index >= level_bit_count(level) THEN {}
        ELSE LET word == index \div WordBits
                 candidates == {bit \in bitmap[level][word] : bit >= index % WordBits}
                 next == IF level = level_count - 1 THEN {} ELSE find[level + 1, word + 1]
                 populated == {w \in next : w < word_counts[level] /\ bitmap[level][w] # {}}
             IN  {i \in IF candidates # {} THEN {word * WordBits + Min(candidates)}
                        ELSE {w * WordBits + Min(bitmap[level][w]) : w \in populated} :
                    i < level_bit_count(level)}
  IN  find[0, from]

\* Mutant of find_at_or_before: the summary is searched from the word just seen.
find_at_or_before_same(bitmap, from) ==
  LET find[level \in BitmapLevels, index \in 0 .. TickCount] ==
        IF index >= level_bit_count(level) THEN {}
        ELSE LET word == index \div WordBits
                 candidates == {bit \in bitmap[level][word] : bit <= index % WordBits}
                 previous == IF level = level_count - 1 \/ word = 0 THEN {}
                             ELSE find[level + 1, word]
                 populated == {w \in previous : w < word_counts[level] /\ bitmap[level][w] # {}}
             IN  IF candidates # {} THEN {word * WordBits + Max(candidates)}
                 ELSE {i \in {w * WordBits + Max(bitmap[level][w]) : w \in populated} :
                         i < level_bit_count(level)}
  IN  find[0, from]

find_at_or_before(bitmap, from) ==
  LET find[level \in BitmapLevels, index \in 0 .. TickCount] ==
        IF index >= level_bit_count(level) THEN {}
        ELSE LET word == index \div WordBits
                 candidates == {bit \in bitmap[level][word] : bit <= index % WordBits}
                 previous == IF level = level_count - 1 \/ word = 0 THEN {}
                             ELSE find[level + 1, word - 1]
                 populated == {w \in previous : w < word_counts[level] /\ bitmap[level][w] # {}}
             IN  IF candidates # {} THEN {word * WordBits + Max(candidates)}
                 ELSE {i \in {w * WordBits + Max(bitmap[level][w]) : w \in populated} :
                         i < level_bit_count(level)}
  IN  find[0, from]

first_set(bitmap) == find_at_or_after(bitmap, 0)
last_set(bitmap) == find_at_or_before(bitmap, TickCount - 1)
next_set(bitmap, index) == IF index >= TickCount THEN {} ELSE find_at_or_after(bitmap, index)
previous_set(bitmap, index) == IF index >= TickCount THEN {} ELSE find_at_or_before(bitmap, index)

\* No bit lies beyond the represented ones, and a summary bit is set exactly
\* when its word is not empty.
hierarchy_consistent(bitmap) ==
  \A level \in BitmapLevels :
    /\ \A w \in DOMAIN bitmap[level], bit \in BitIndices :
         bit \in bitmap[level][w] => w * WordBits + bit < level_bit_count(level)
    /\ level # 0 =>
         \A w \in DOMAIN bitmap[level - 1] :
           (w % WordBits \in bitmap[level][w \div WordBits]) <=> bitmap[level - 1][w] # {}

=============================================================================
