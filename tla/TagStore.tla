------------------------------ MODULE TagStore ------------------------------
(***************************************************************************)
(* The tag store of class Cache (Cache.hpp, Cache.cpp), as operators on a  *)
(* value: `store' maps a set index to the set's LRU list                   *)
(* (replacement_order) and to the tags it holds (the keys of ways).        *)
(*                                                                         *)
(* An address is abstracted to the number of its cache line, addr/cl_size, *)
(* so the shifts and masks of Cache.cpp become quotients and remainders.   *)
(* The code keeps sets in an unordered_map that grows on demand; a set not *)
(* yet in the map and an empty set behave alike, so the store is total.    *)
(* dirty_bit and mesi_bits are left out: no reachable code reads them.     *)
(***************************************************************************)
EXTENDS Naturals, Sequences

CONSTANTS
  Sets,      (* cache_config.sets                                           *)
  Ways,      (* cache_config.ways                                           *)
  ClSize,    (* cache_config.cl_size, in bytes                              *)
  TagSpace   (* tag_mask + 1: the number of tags the mask tells apart       *)

ASSUME TagStoreAssumption ==
  /\ Sets \in Nat \ {0}
  /\ Ways \in Nat \ {0}
  /\ ClSize \in Nat \ {0}
  /\ TagSpace \in Nat \ {0}

SeqExt == INSTANCE SequencesExt

(* set_mask is cl_size-1, not sets-1: there are as many sets as a line has *)
(* bytes, whatever cache_config.sets says.                                 *)
SetIndices == 0 .. ClSize - 1
Tags       == 0 .. TagSpace - 1

(* Mutants: the tag without its shift and mask, or with a shift too many.  *)
get_tag_unshifted(line)   == line
get_tag_overshifted(line) == (line \div (2 * Sets)) % TagSpace

get_set_idx(line) == line % ClSize
get_tag(line)     == (line \div Sets) % TagSpace

CacheIndex == [replacement_order : Seq(Tags), ways : SUBSET Tags]

EmptyStore == [idx \in SetIndices |-> [replacement_order |-> <<>>, ways |-> {}]]

can_read(store, line) == get_tag(line) \in store[get_set_idx(line)].ways

(* A full set loses the front of its LRU list, present or not the line is. *)
fill(store, line) ==
  LET tag  == get_tag(line)
      set  == store[get_set_idx(line)]
      kept == IF Len(set.replacement_order) >= Ways
              THEN [replacement_order |-> Tail(set.replacement_order),
                    ways |-> set.ways \ {Head(set.replacement_order)}]
              ELSE set
  IN  [store EXCEPT ![get_set_idx(line)] =
         [replacement_order |-> Append(kept.replacement_order, tag),
          ways              |-> kept.ways \cup {tag}]]

(* Mutant: the tag goes to the back of the list and stays where it was.    *)
read_keeps(store, line) ==
  IF can_read(store, line)
  THEN [store EXCEPT ![get_set_idx(line)].replacement_order = Append(@, get_tag(line))]
  ELSE store

(* An LRU list without a tag, and without every duplicate of it.           *)
Without(order, tag) ==
  SeqExt!FlattenSeq([n \in DOMAIN order |-> IF order[n] = tag THEN <<>> ELSE <<order[n]>>])

(* Moves the line's tag to the back of the list.                           *)
read(store, line) ==
  LET tag == get_tag(line)
  IN  IF can_read(store, line)
      THEN [store EXCEPT ![get_set_idx(line)].replacement_order =
              Append(Without(@, tag), tag)]
      ELSE store
=============================================================================
