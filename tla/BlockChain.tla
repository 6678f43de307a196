------------------------------ MODULE BlockChain ------------------------------
(***************************************************************************)
(* BlockChain (OrbitCore/BlockChain.h), the list of fixed-size blocks that *)
(* holds the text boxes of the time graph, the lines and boxes of the      *)
(* batcher and the call stacks of a sampling profiler.                     *)
(*                                                                         *)
(* In the time graph (role "timeGraph") the thread of ConsumeTimers adds   *)
(* items without a lock while the main thread iterates over the chain,     *)
(* drops its oldest blocks and clears it.  The batcher (role "batcher") is *)
(* the main thread's own: it fills the chain, resets it, keeping the       *)
(* blocks, and looks items up by their index.                              *)
(*                                                                         *)
(* Blocks are numbered along the list, m_Next of block b is b + 1, and     *)
(* items in the order in which they are added.                             *)
(***************************************************************************)
EXTENDS Integers

CONSTANTS BlockSize,
          MaxElems,   \* GParams.m_MaxNumTimers
          MaxItems    \* bound: the items added

ASSUME BlockChainAssumption ==
  /\ BlockSize \in Nat \ {0} /\ MaxElems \in Nat /\ MaxItems \in Nat

Blocks == 0 .. MaxItems
Items  == 1 .. MaxItems
Slots  == 0 .. BlockSize - 1

VARIABLES
  role,          \* whose chain it is
  root,          \* m_Root
  current,       \* m_Current
  last,          \* the last block that m_Next leads to
  size,          \* each block: m_Size
  data,          \* each block: m_Data, the items by their numbers, 0 if none
  numItems, numBlocks,
  added,         \* items given to push_back
  writerPC, block,       \* where the writer is in Block::Add, and its block
  readerPC, at, index,   \* where the main thread is; its iterator
  lastSeen,      \* the last item the iteration came to
  due,           \* the last item that was in the chain when it began
  raced          \* clear met a push_back in progress

chainVars  == <<root, current, last, size, data, numItems, numBlocks>>
writerVars == <<added, writerPC, block>>
readerVars == <<readerPC, at, index, lastSeen, due>>
vars == <<role, chainVars, writerVars, readerVars, raced>>

Init ==
  /\ role \in {"timeGraph", "batcher"}
  /\ root = 0 /\ current = 0 /\ last = 0
  /\ size = [b \in Blocks |-> 0]
  /\ data = [b \in Blocks |-> [i \in Slots |-> 0]]
  /\ numItems = 0 /\ numBlocks = 1
  /\ added = 0 /\ writerPC = "idle" /\ block = 0
  /\ readerPC = "idle" /\ at = 0 /\ index = 0 /\ lastSeen = 0 /\ due = 0
  /\ raced = FALSE

-----------------------------------------------------------------------------
(* The writer: push_back and Block::Add.                                   *)

WriterGoes(from, to) ==
  /\ writerPC = from /\ writerPC' = to
  /\ UNCHANGED <<role, root, readerVars, raced>>

\* m_Current->Add( a_Item )
PushBack ==
  /\ added < MaxItems
  /\ role = "batcher" => readerPC = "idle"
  /\ WriterGoes("idle", "test")
  /\ added' = added + 1
  /\ block' = current
  /\ UNCHANGED <<current, last, size, data, numItems, numBlocks>>

\* if( m_Size == Size )
AddTests ==
  /\ WriterGoes("test", IF size[block] = BlockSize THEN "link" ELSE "write")
  /\ UNCHANGED <<current, last, size, data, numItems, numBlocks, added, block>>

\* A new block unless a reset left one; m_Current moves to it.
AddLinks ==
  /\ WriterGoes("link", "countBlock")
  /\ last' = IF block = last THEN last + 1 ELSE last
  /\ current' = block + 1
  /\ UNCHANGED <<size, data, numItems, numBlocks, added, block>>

\* ++m_NumBlocks, then m_Next->Add.
AddCountsBlock ==
  /\ WriterGoes("countBlock", "test")
  /\ numBlocks' = numBlocks + 1
  /\ block' = block + 1
  /\ UNCHANGED <<current, last, size, data, numItems, added>>

\* m_Data[m_Size] = a_Item
AddWrites ==
  /\ WriterGoes("write", "grow")
  /\ data' = [data EXCEPT ![block][size[block]] = added]
  /\ UNCHANGED <<current, last, size, numItems, numBlocks, added, block>>

\* ++m_Size
AddGrows ==
  /\ WriterGoes("grow", "countItem")
  /\ size' = [size EXCEPT ![block] = size[block] + 1]
  /\ UNCHANGED <<current, last, data, numItems, numBlocks, added, block>>

\* ++m_NumItems
AddCountsItem ==
  /\ WriterGoes("countItem", "idle")
  /\ numItems' = numItems + 1
  /\ UNCHANGED <<current, last, size, data, numBlocks, added, block>>

Writer == PushBack \/ AddTests \/ AddLinks \/ AddCountsBlock \/ AddWrites
          \/ AddGrows \/ AddCountsItem

-----------------------------------------------------------------------------
(* The main thread: TimeGraph::Draw drops what is too old, then iterates.  *)

ReaderGoes(from, to) ==
  /\ readerPC = from /\ readerPC' = to
  /\ role = "batcher" => writerPC = "idle"
  /\ UNCHANGED <<role, writerVars>>

Draw ==
  /\ role = "timeGraph"
  /\ ReaderGoes("idle", "keep")
  /\ UNCHANGED <<chainVars, at, index, lastSeen, due, raced>>

\* Mutant: keep does not spare a block more than it must.
MutKept == MaxElems

\* a_MaxElems = max( BlockSize + 1, a_MaxElems )
Kept == IF MaxElems > BlockSize + 1 THEN MaxElems ELSE BlockSize + 1

\* A turn of the loop of keep.
KeepDeletes ==
  /\ numItems > Kept
  /\ ReaderGoes("keep", "keep")
  /\ numBlocks' = numBlocks - 1
  /\ numItems' = numItems - BlockSize
  /\ root' = root + 1
  /\ UNCHANGED <<current, last, size, data, at, index, lastSeen, due, raced>>

\* begin(); Draw may also find that there is nothing new to draw.
Begin ==
  /\ numItems <= Kept
  /\ ReaderGoes("keep", IF size[root] > 0 THEN "read" ELSE "idle")
  /\ at' = root /\ index' = 0
  /\ lastSeen' = data[root][0] - 1
  /\ due' = IF writerPC \in {"idle", "countItem"} THEN added ELSE added - 1
  /\ UNCHANGED <<chainVars, raced>>

\* The body of the loop uses m_Data[m_Index]; ++m_Index.
Read ==
  /\ ReaderGoes("read", "advance")
  /\ lastSeen' = data[at][index]
  /\ index' = index + 1
  /\ UNCHANGED <<chainVars, at, due, raced>>

\* if( ++m_Index == m_Block->m_Size )
Advance ==
  /\ ReaderGoes("advance", IF index = size[at] THEN "next" ELSE "read")
  /\ UNCHANGED <<chainVars, at, index, lastSeen, due, raced>>

\* Mutant: the size of the next block is not looked at.
MutNextBlock ==
  /\ IF at < last
       THEN ReaderGoes("next", "read") /\ at' = at + 1 /\ index' = 0
       ELSE ReaderGoes("next", "drawn") /\ UNCHANGED <<at, index>>
  /\ UNCHANGED <<chainVars, lastSeen, due, raced>>

\* if( m_Block->m_Next && m_Block->m_Next->m_Size > 0 )
NextBlock ==
  /\ IF at < last /\ size[at + 1] > 0
       THEN ReaderGoes("next", "read") /\ at' = at + 1 /\ index' = 0
       ELSE ReaderGoes("next", "drawn") /\ UNCHANGED <<at, index>>
  /\ UNCHANGED <<chainVars, lastSeen, due, raced>>

Drawn ==
  /\ ReaderGoes("drawn", "idle")
  /\ UNCHANGED <<chainVars, at, index, lastSeen, due, raced>>

\* TimeGraph::Clear.  A push_back in progress uses blocks that clear deletes,
\* or counts an item that is gone: nothing is said of what follows.
Clear ==
  /\ role = "timeGraph"
  /\ ReaderGoes("idle", "idle")
  /\ IF writerPC = "idle"
       THEN /\ size' = [b \in Blocks |-> 0]
            /\ last' = root /\ current' = root
            /\ numItems' = 0 /\ numBlocks' = 1
            /\ UNCHANGED <<root, data, raced>>
       ELSE raced' = TRUE /\ UNCHANGED chainVars
  /\ UNCHANGED <<at, index, lastSeen, due>>

\* Batcher::Reset: the blocks stay linked.
Reset ==
  /\ role = "batcher"
  /\ ReaderGoes("idle", "idle")
  /\ size' = [b \in Blocks |-> 0]
  /\ numItems' = 0 /\ numBlocks' = 1 /\ current' = root
  /\ UNCHANGED <<root, last, data, raced, at, index, lastSeen, due>>

Reader == Draw \/ KeepDeletes \/ Begin \/ Read \/ Advance \/ NextBlock
          \/ Drawn \/ Clear \/ Reset

Next == ~raced /\ (Writer \/ Reader)

Spec == Init /\ [][Next]_vars

\* Mutant: the blocks are counted from zero.
MutSlowAt(i) ==
  LET steps == {n \in 0 .. last - root : n = 0 \/ (n - 1) * BlockSize < i}
      most  == CHOOSE n \in steps : \A m \in steps : m <= n
  IN  data[root + most][i % BlockSize]

\* SlowAt( i ): the item it returns.  The loop enters the n-th block after the
\* root when n * BlockSize < i and there is such a block.
SlowAt(i) ==
  LET steps == {n \in 0 .. last - root : n = 0 \/ n * BlockSize < i}
      most  == CHOOSE n \in steps : \A m \in steps : m <= n
  IN  data[root + most][i % BlockSize]

-----------------------------------------------------------------------------
(* Properties.                                                             *)

WriterPCs == {"idle", "test", "link", "countBlock", "write", "grow",
              "countItem"}
ReaderPCs == {"idle", "keep", "read", "advance", "next", "drawn"}

\* Every variable keeps its type.
TypeOK ==
  /\ role \in {"timeGraph", "batcher"}
  /\ root \in Nat /\ current \in Nat /\ last \in Nat /\ block \in Nat
  /\ size \in [Blocks -> 0 .. BlockSize]
  /\ data \in [Blocks -> [Slots -> 0 .. MaxItems]]
  /\ numItems \in Int /\ numBlocks \in Int
  /\ added \in 0 .. MaxItems
  /\ writerPC \in WriterPCs /\ readerPC \in ReaderPCs
  /\ at \in Nat /\ index \in Nat /\ lastSeen \in Int /\ due \in Int
  /\ raced \in BOOLEAN

\* "assert( m_Root->m_Prev != m_Current )": keep drops no block the writer is
\* in or may return to, because the two counters it trusts are exact but for
\* the step the writer is about to make.
KeepSparesCurrent ==
  /\ root <= block \/ writerPC = "idle"
  /\ root <= current
  /\ numItems = (current - root) * BlockSize + size[current]
                  - (IF writerPC = "countItem" THEN 1 ELSE 0)
  /\ numBlocks = current - root + 1 - (IF writerPC = "countBlock" THEN 1 ELSE 0)

\* An iteration finds items written completely, in the order they were added,
\* and leaves out none that was there when it began, although blocks fill up
\* and are linked under its feet.
SeesAllInOrder ==
  /\ readerPC = "read" =>
       /\ index < size[at] /\ at \in root .. current
       /\ data[at][index] > lastSeen
       /\ lastSeen < due => data[at][index] = lastSeen + 1
  /\ readerPC = "drawn" => lastSeen >= due

\* The box or line picked by its index is the one drawn with that index, but
\* for the first of a block: there SlowAt returns the first of the block before.
PicksWhatWasDrawn ==
  role = "batcher" /\ writerPC = "idle" =>
    \A i \in 0 .. numItems - 1 :
      SlowAt(i) = data[root][0] + i
                    - (IF i > 0 /\ i % BlockSize = 0 THEN BlockSize ELSE 0)

===============================================================================
