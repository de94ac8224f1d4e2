------------------------------ MODULE FreeList ------------------------------
(***************************************************************************)
(* CRFPP::FreeList (freelist.h): the region allocator behind every lattice *)
(* node, lattice path and input string.  A list owns blocks of Size cells; *)
(* pi is the next free cell of block li.  alloc() hands out a region and   *)
(* never takes one back; free() resets the cursor to the first block, so   *)
(* the memory is handed out again while the blocks stay.                   *)
(*                                                                         *)
(* A region is [block, off, len].  live lists the regions handed out since *)
(* the last free(), oldest first: what the program may still dereference.  *)
(***************************************************************************)
EXTENDS Naturals, Sequences

CONSTANTS Size,       \* cells in a block: FreeList::size
          Lens,       \* lengths alloc() is called with
          MaxBlocks   \* bound on the blocks (the code has none)

(* Nothing bounds a request.  A node, a path or an element of the agenda   *)
(* asks for one cell of 8192, 131072 or 128 (feature_index.cpp 101-102,    *)
(* tagger.cpp 407); a row of features for one more than it has of 131072   *)
(* (feature_cache.cpp 14); a string for its length and the NUL of 8192     *)
(* (feature_index.cpp 46): a line of 8191 characters, the longest that is  *)
(* read, asks for a whole block, and what add() is given for any length.   *)
ASSUME SizeAssumption == /\ Size \in Nat
                         /\ Lens \subseteq Nat \ {0}
                         /\ MaxBlocks \in Nat

VARIABLES pi, li,
          blocks,     \* freeList.size()
          live        \* history: regions handed out since the last free()

cellsVars == <<pi, li, blocks, live>>

CellsInit == pi = 0 /\ li = 0 /\ blocks = 0 /\ live = <<>>

(* A request that does not fit moves on to the next block. *)
NextBlock(n) == IF pi + n >= Size THEN li + 1 ELSE li
NextCellUnreset(n) == pi                    \* mutant: pi = 0 forgotten
NextCell(n)  == IF pi + n >= Size THEN 0 ELSE pi

AllocOneCell(n) ==                          \* mutant: pi++ for pi += len
  /\ NextBlock(n) < MaxBlocks
  /\ li' = NextBlock(n)
  /\ blocks' = IF NextBlock(n) = blocks THEN blocks + 1 ELSE blocks
  /\ pi' = NextCell(n) + 1
  /\ live' = Append(live, [block |-> NextBlock(n), off |-> NextCell(n), len |-> n])

(* push_back adds one block, and only when the cursor stands exactly one   *)
(* past the last.                                                          *)
Alloc(n) ==
  LET b == NextBlock(n)
      c == NextCell(n)
  IN  /\ b < MaxBlocks
      /\ li' = b
      /\ blocks' = IF b = blocks THEN blocks + 1 ELSE blocks
      /\ pi' = c + n
      /\ live' = Append(live, [block |-> b, off |-> c, len |-> n])

Free == /\ pi' = 0
        /\ li' = 0
        /\ live' = <<>>
        /\ UNCHANGED blocks

(* Every region lies inside a block that exists.  The block alloc() takes  *)
(* is one of freeList unless the cursor steps past the end of it: then     *)
(* freeList[li] is no element (freelist.h 45), and a region that leaves    *)
(* its block is written over what follows.  Nothing is said of the program *)
(* after either.                                                           *)
InBlock(i)   == live[i].block < blocks /\ live[i].off + live[i].len <= Size
LiveInBlocks == \A i \in DOMAIN live : InBlock(i)
Lost == ~LiveInBlocks /\ UNCHANGED cellsVars

CellsNext == \/ LiveInBlocks /\ Free
             \/ LiveInBlocks /\ \E n \in Lens : Alloc(n)
             \/ Lost

CellsSpec == CellsInit /\ [][CellsNext]_cellsVars
-----------------------------------------------------------------------------
Region == [block : Nat, off : Nat, len : Lens]

CellsTypeOK == /\ pi \in Nat
          /\ li \in Nat
          /\ blocks \in Nat
          /\ live \in Seq(Region)

Overlap(r, s) == /\ r.block = s.block
                 /\ r.off < s.off + s.len
                 /\ s.off < r.off + r.len

(* No two regions handed out since the last free() share a cell, whatever  *)
(* lengths were asked for and however the blocks were reused: the property *)
(* every Node*, Path* and char* of a lattice rests on (freelist.h 37-48).  *)
LiveDisjoint == \A i, j \in DOMAIN live : i # j => ~Overlap(live[i], live[j])

(* The requests that go wrong: more than a block; and a whole block as the *)
(* first request of the list, which moves the cursor past a block that was *)
(* never made (freelist.h 38-42).                                          *)
TooLong(i) == live[i].len > Size \/ (live[i].len = Size /\ blocks = 0)

(* The regions in use share no cell, and each lies in a block that exists  *)
(* unless it was too long, when it never does: alloc() indexes past        *)
(* freeList or leaves a block for those requests and for no others,        *)
(* however the blocks were reused (freelist.h 37-48).                      *)
RegionsSound == LiveDisjoint /\ \A i \in DOMAIN live : InBlock(i) <=> ~TooLong(i)
-----------------------------------------------------------------------------
(* What an action must know of the state to keep it: the regions lie       *)
(* before the cursor, and the cursor's block exists as soon as there is    *)
(* one, as long as nothing went wrong.                                     *)
BeforeCursor == \A i \in DOMAIN live :
                  \/ live[i].block < li
                  \/ live[i].block = li /\ live[i].off + live[i].len <= pi
CursorInBlocks == /\ pi <= Size
                  /\ li < blocks \/ (li = 0 /\ pi = 0 /\ blocks = 0)

CellsInv == /\ CellsTypeOK /\ RegionsSound
            /\ LiveInBlocks => BeforeCursor /\ CursorInBlocks
=============================================================================
