---------------------------- MODULE OrderArena -----------------------------
(***************************************************************************)
(* The arena of src/include/matching_engine/order_arena.hpp: a fixed array *)
(* of slots, a last-in first-out free list threaded through them, and      *)
(* handles that name a slot and its generation.                            *)
(*                                                                         *)
(* What a slot holds while it is free, and the free_next of a slot in use, *)
(* are left over from earlier and never read; the model forgets them.      *)
(***************************************************************************)
EXTENDS Integers, Sequences, FiniteSets

CONSTANTS
  Slots,           \* the indices 0 .. capacity_ - 1
  NoSlot,          \* kInvalidIndex
  MaxGeneration    \* the largest 32-bit generation

ASSUME IndexAssumption ==
  /\ IsFiniteSet(Slots) /\ Cardinality(Slots) \in Nat
  /\ Slots = 0 .. Cardinality(Slots) - 1
  /\ NoSlot \notin Slots
ASSUME GenerationAssumption == MaxGeneration \in Nat \ {0}

Forgotten == "forgotten"

Handles == [index : Slots \cup {NoSlot}, generation : 0 .. MaxGeneration]

EmptyArena ==
  [slot |-> [s \in Slots |->
               [live |-> FALSE, generation |-> 1, order |-> Forgotten,
                free_next |-> IF s + 1 \in Slots THEN s + 1 ELSE NoSlot]],
   free_head |-> IF Slots = {} THEN NoSlot ELSE 0,
   size |-> 0]

next_generation(generation) ==
  IF generation = MaxGeneration THEN 1 ELSE generation + 1

is_live_index(arena, index) == index \in Slots /\ arena.slot[index].live

\* Mutant of is_live_handle: any generation of a slot in use will do.
is_live_handle_any(arena, handle) == handle.generation # 0 /\ is_live_index(arena, handle.index)

is_live_handle(arena, handle) ==
  /\ handle.generation # 0
  /\ is_live_index(arena, handle.index)
  /\ arena.slot[handle.index].generation = handle.generation

handle_at(arena, index) == [index |-> index, generation |-> arena.slot[index].generation]

\* The caller has checked that a slot is free; it gets the slot of free_head.
acquire(arena, order) ==
  LET index == arena.free_head
  IN  [arena EXCEPT
        !.slot[index] = [@ EXCEPT !.live = TRUE, !.order = order, !.free_next = NoSlot],
        !.free_head = arena.slot[index].free_next,
        !.size = @ + 1]

\* Mutant of release: the slot keeps its generation.
release_same(arena, handle) ==
  IF ~is_live_handle(arena, handle) THEN arena
  ELSE [arena EXCEPT
         !.slot[handle.index] = [@ EXCEPT !.live = FALSE, !.order = Forgotten,
                                          !.free_next = arena.free_head],
         !.free_head = handle.index,
         !.size = @ - 1]

release(arena, handle) ==
  IF ~is_live_handle(arena, handle) THEN arena
  ELSE [arena EXCEPT
         !.slot[handle.index] = [live |-> FALSE, generation |-> next_generation(@.generation),
                                 order |-> Forgotten, free_next |-> arena.free_head],
         !.free_head = handle.index,
         !.size = @ - 1]

\* The list that starts at head.  Cut after one entry more than there are slots,
\* which only a list that runs in a circle reaches.
list(next, head) ==
  LET at[n \in 0 .. Cardinality(Slots)] ==
        IF n = 0 THEN head
        ELSE IF at[n - 1] \in Slots THEN next[at[n - 1]] ELSE NoSlot
  IN  IF head = NoSlot THEN <<>>
      ELSE SelectSeq([n \in 1 .. Cardinality(Slots) + 1 |-> at[n - 1]], LAMBDA s : s # NoSlot)

=============================================================================
