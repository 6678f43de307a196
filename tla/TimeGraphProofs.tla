---------------------------- MODULE TimeGraphProofs ----------------------------
(***************************************************************************)
(* Proofs about the time graph, for every size of the blocks.              *)
(*                                                                         *)
(* BlockChain keeps the block of the writer, shows the main thread every   *)
(* item in order and finds an item by its index.                           *)
(*                                                                         *)
(* The invariant places every item that is in the chain: all blocks before *)
(* the current one are full and all behind it are empty, so the number of  *)
(* an item follows from its place counted back from the last item.  With   *)
(* it, an iterator that leaves a full block finds the next number, and one *)
(* that leaves a block it found partly filled has seen all it has to.      *)
(*                                                                         *)
(* The boxes of a core do not overlap, and they are the runs that the      *)
(* graph was told of.  The runs of a core follow each other, and what was  *)
(* told of it lies outside the runs that are still to be told, whichever   *)
(* trace thread tells them and in whatever order.  So the newest switch in *)
(* the map of the core, which TimeGraph does not clear, is at the end of   *)
(* a run, at its beginning if that was told and otherwise before it, or    *)
(* else the run is told late and its box is upside down.  What is          *)
(* proved of the core time line alone holds in the time graph, where the   *)
(* chain and the time line do not meet.                                    *)
(***************************************************************************)
EXTENDS MCTimeGraph, TLAPS

USE BlockChainAssumption DEF BlockChainAssumption

\* The last item that is in the chain.
Shown == IF writerPC \in {"idle", "countItem"} THEN added ELSE added - 1

\* The blocks of the chain, and what the list holds behind them.
Order == root <= current /\ current <= last /\ last <= added

Filled ==
  \A b \in Blocks : /\ root <= b /\ b < current => size[b] = BlockSize
                    /\ b > current => size[b] = 0

\* The steps of Block::Add; only a full block links, and then for an item
\* that has no block yet.
Writing ==
  /\ writerPC \in {"test", "link", "write", "grow", "countItem"} =>
       block = current
  /\ writerPC = "countBlock" =>
       block + 1 = current /\ root <= block /\ size[current] = 0
  /\ writerPC = "test" /\ size[current] = BlockSize => last < added
  /\ writerPC = "link" => size[current] = BlockSize /\ last < added
  /\ writerPC \in {"write", "grow"} => size[current] < BlockSize
  /\ writerPC = "grow" => data[current][size[current]] = added
  /\ writerPC = "countItem" => size[current] > 0

\* The counters that keep trusts.
Counted ==
  /\ numItems = (current - root) * BlockSize + size[current]
                  - (IF writerPC = "countItem" THEN 1 ELSE 0)
  /\ numBlocks = current - root + 1
                   - (IF writerPC = "countBlock" THEN 1 ELSE 0)

\* Items behind the one in slot i of block b
Behind(b, i) == (current - b) * BlockSize + size[current] - 1 - i

Placed ==
  \A b \in Blocks : \A i \in Slots :
    root <= b /\ b <= current /\ i < size[b] =>
      data[b][i] = Shown - Behind(b, i)

\* The iterator: within the chain, at the number after the last one until it
\* has come to the end.
Reading ==
  /\ readerPC \in {"read", "advance", "next"} =>
       root <= at /\ at <= current /\ due <= Shown
  /\ readerPC = "read" =>
       /\ index < size[at]
       /\ data[at][index] > lastSeen
       /\ lastSeen < due => data[at][index] = lastSeen + 1
  /\ readerPC \in {"advance", "next"} =>
       /\ 1 <= index /\ index <= size[at]
       /\ lastSeen = data[at][index - 1]
  /\ readerPC = "next" /\ index < BlockSize => lastSeen >= due
  /\ readerPC = "drawn" => lastSeen >= due

IInv == TypeOK /\ Order /\ Filled /\ Writing /\ Counted /\ Placed /\ Reading

-----------------------------------------------------------------------------
(* Arithmetic.                                                             *)

\* A block more or less: the products in Counted and Behind.
LEMMA OneBlock ==
  ASSUME NEW k \in Int
  PROVE  /\ k * BlockSize \in Int
         /\ (k + 1) * BlockSize = k * BlockSize + BlockSize
         /\ (k - 1) * BlockSize = k * BlockSize - BlockSize
         /\ 0 * BlockSize = 0
  BY SMT

\* What keep leaves: more than a block of items is not in one block.
LEMMA TwoBlocks ==
  ASSUME NEW k \in Int, k * BlockSize > BlockSize
  PROVE  k >= 2
<1>1. CASE k <= 1
  BY <1>1, SMT
<1> QED BY <1>1

LEMMA KeptIsMore == Kept \in Nat /\ Kept > BlockSize
BY DEF Kept

-----------------------------------------------------------------------------
LEMMA Initially == Init => IInv
<1> SUFFICES ASSUME Init PROVE IInv
  OBVIOUS
<1> USE DEF Init
<1>1. TypeOK
  <2>1. size \in [Blocks -> 0 .. BlockSize]
    BY DEF Blocks
  <2>2. data \in [Blocks -> [Slots -> 0 .. MaxItems]]
    BY DEF Blocks, Slots
  <2>3. writerPC \in WriterPCs /\ readerPC \in ReaderPCs
    BY DEF WriterPCs, ReaderPCs
  <2> HIDE DEF WriterPCs, ReaderPCs, Blocks, Slots
  <2>4. added \in 0 .. MaxItems
    OBVIOUS
  <2>5. raced \in BOOLEAN /\ role \in {"timeGraph", "batcher"}
    OBVIOUS
  <2>6. /\ root \in Nat /\ current \in Nat /\ last \in Nat /\ block \in Nat
        /\ numItems \in Int /\ numBlocks \in Int
        /\ at \in Nat /\ index \in Nat /\ lastSeen \in Int /\ due \in Int
    OBVIOUS
  <2> HIDE DEF Init
  <2> QED BY <2>1, <2>2, <2>3, <2>4, <2>5, <2>6 DEF TypeOK
<1>2. Order /\ Filled
  BY DEF Order, Filled, Blocks
<1>3. Writing
  BY DEF Writing
<1>4. Counted
  BY OneBlock DEF Counted, Blocks
<1>5. Placed
  BY DEF Placed, Blocks, Slots
<1>6. Reading
  BY DEF Reading
<1> QED BY <1>1, <1>2, <1>3, <1>4, <1>5, <1>6 DEF IInv

\* The block the writer may be in is in the range of the functions.
LEMMA InRange ==
  ASSUME TypeOK, Order
  PROVE  root \in Blocks /\ current \in Blocks
BY DEF TypeOK, Order, Blocks

LEMMA BehindInt ==
  ASSUME TypeOK, Order
  PROVE  Shown \in Int /\ \A b, i \in Int : Behind(b, i) \in Int
<1>1. ASSUME NEW b \in Int, NEW i \in Int PROVE Behind(b, i) \in Int
  <2>1. (current - b) * BlockSize \in Int
    BY OneBlock DEF TypeOK
  <2>2. size[current] \in Int
    BY InRange DEF TypeOK
  <2> QED BY <2>1, <2>2 DEF Behind
<1>2. Shown \in Int
  BY DEF Shown, TypeOK
<1> QED BY <1>1, <1>2

\* So is the block of the iterator, and its index is one of its slots.
LEMMA IterInRange ==
  ASSUME TypeOK, Order, Reading, readerPC \in {"read", "advance", "next"}
  PROVE  /\ at \in Blocks
         /\ readerPC = "read" => index \in Slots /\ index < size[at]
         /\ readerPC # "read" => index - 1 \in Slots /\ index - 1 < size[at]
<1>1. at \in Blocks
  <2>1. root <= at /\ at <= current
    BY DEF Reading
  <2> QED BY <2>1, InRange DEF TypeOK, Blocks
<1>2. size[at] \in 0 .. BlockSize
  BY <1>1 DEF TypeOK
<1>3. CASE readerPC = "read"
  <2>1. index < size[at] /\ index \in Nat
    BY <1>3 DEF Reading, TypeOK
  <2> QED BY <1>1, <1>2, <1>3, <2>1 DEF Slots
<1>4. CASE readerPC \in {"advance", "next"}
  <2>1. 1 <= index /\ index <= size[at] /\ index \in Nat
    BY <1>4 DEF Reading, TypeOK
  <2> QED BY <1>1, <1>2, <1>4, <2>1 DEF Slots
<1> QED BY <1>3, <1>4

-----------------------------------------------------------------------------
(* The writer.                                                             *)

LEMMA PushBackKeeps == IInv /\ PushBack => IInv'
<1> SUFFICES ASSUME IInv, PushBack PROVE IInv'
  OBVIOUS
<1> USE DEF IInv, PushBack, WriterGoes, readerVars
<1>1. TypeOK'
  BY DEF TypeOK, WriterPCs
<1>2. Shown' = Shown
  BY DEF Shown, TypeOK
<1>3. Order' /\ Filled'
  BY DEF Order, Filled, TypeOK
<1>4. Writing'
  BY DEF Writing, Order, TypeOK
<1>5. Counted'
  BY DEF Counted
<1>6. Placed'
  BY <1>2 DEF Placed, Behind
<1>7. Reading'
  BY <1>2 DEF Reading
<1> QED BY <1>1, <1>3, <1>4, <1>5, <1>6, <1>7

LEMMA AddTestsKeeps == IInv /\ AddTests => IInv'
<1> SUFFICES ASSUME IInv, AddTests PROVE IInv'
  OBVIOUS
<1> USE DEF IInv, AddTests, WriterGoes, readerVars
<1>0. writerPC' \in {"link", "write"} /\ writerPC = "test"
  OBVIOUS
<1>1. TypeOK'
  BY DEF TypeOK, WriterPCs
<1>2. Shown' = Shown
  BY <1>0 DEF Shown
<1>3. Order' /\ Filled'
  BY DEF Order, Filled
<1>4. Writing'
  <2>1. block = current /\ size[current] \in 0 .. BlockSize
    BY InRange DEF Writing, TypeOK
  <2>2. CASE size[block] = BlockSize
    BY <2>1, <2>2 DEF Writing
  <2>3. CASE size[block] # BlockSize
    BY <2>1, <2>3 DEF Writing
  <2> QED BY <2>2, <2>3
<1>5. Counted'
  BY <1>0 DEF Counted
<1>6. Placed'
  BY <1>2 DEF Placed, Behind
<1>7. Reading'
  BY <1>2 DEF Reading
<1> QED BY <1>1, <1>3, <1>4, <1>5, <1>6, <1>7

LEMMA AddLinksKeeps == IInv /\ AddLinks => IInv'
<1> SUFFICES ASSUME IInv, AddLinks PROVE IInv'
  OBVIOUS
<1> USE DEF IInv, AddLinks, WriterGoes, readerVars
<1>0. /\ block = current /\ size[current] = BlockSize /\ last < added
      /\ current + 1 \in Blocks /\ size[current + 1] = 0
  BY DEF Writing, Order, Filled, TypeOK, Blocks
<1>1. TypeOK'
  BY DEF TypeOK, WriterPCs
<1>2. Shown' = Shown
  BY DEF Shown
<1>3. Order'
  BY <1>0 DEF Order, TypeOK
<1>4. Filled'
  BY <1>0 DEF Filled, TypeOK, Blocks
<1>5. Writing'
  BY <1>0 DEF Writing, Order, TypeOK
<1>6. Counted'
  <2>1. (current + 1 - root) * BlockSize = (current - root) * BlockSize + BlockSize
    <3>1. current - root \in Int /\ current + 1 - root = (current - root) + 1
      BY DEF TypeOK
    <3> QED BY <3>1, OneBlock
  <2> QED BY <1>0, <2>1, OneBlock DEF Counted, TypeOK
<1>7. Placed'
  <2> SUFFICES ASSUME NEW b \in Blocks, NEW i \in Slots,
                      root <= b, b <= current + 1, i < size[b]
               PROVE  data[b][i] = Shown - Behind(b, i)'
    BY <1>0, <1>2 DEF Placed
  <2>1. b <= current
    BY <1>0 DEF TypeOK, Blocks, Slots
  <2>2. data[b][i] = Shown - Behind(b, i)
    BY <2>1 DEF Placed
  <2>3. Behind(b, i)' = Behind(b, i)
    <3>1. current - b \in Int /\ current' - b = (current - b) + 1
      BY <1>0 DEF TypeOK, Blocks
    <3>2. (current' - b) * BlockSize = (current - b) * BlockSize + BlockSize
      BY <3>1, OneBlock
    <3>3. (current - b) * BlockSize \in Int
      BY <3>1, OneBlock
    <3>4. current' = current + 1 /\ size'[current'] = 0
      BY <1>0
    <3>5. i \in Int
      BY DEF Slots
    <3> HIDE DEF AddLinks, IInv
    <3> QED BY <1>0, <3>2, <3>3, <3>4, <3>5 DEF Behind
  <2> QED BY <2>2, <2>3
<1>8. Reading'
  BY <1>0, <1>2 DEF Reading, TypeOK
<1> QED BY <1>1, <1>3, <1>4, <1>5, <1>6, <1>7, <1>8

LEMMA AddCountsBlockKeeps == IInv /\ AddCountsBlock => IInv'
<1> SUFFICES ASSUME IInv, AddCountsBlock PROVE IInv'
  OBVIOUS
<1> USE DEF IInv, AddCountsBlock, WriterGoes, readerVars
<1>1. TypeOK'
  BY DEF TypeOK, WriterPCs
<1>2. Shown' = Shown
  BY DEF Shown
<1>3. Order' /\ Filled'
  BY DEF Order, Filled
<1>4. Writing'
  BY DEF Writing, TypeOK
<1>5. Counted'
  BY DEF Counted, TypeOK
<1>6. Placed'
  BY <1>2 DEF Placed, Behind
<1>7. Reading'
  BY <1>2 DEF Reading
<1> QED BY <1>1, <1>3, <1>4, <1>5, <1>6, <1>7

LEMMA AddWritesKeeps == IInv /\ AddWrites => IInv'
<1> SUFFICES ASSUME IInv, AddWrites PROVE IInv'
  OBVIOUS
<1> USE DEF IInv, AddWrites, WriterGoes, readerVars
<1>0. /\ block = current /\ current \in Blocks
      /\ size[current] \in Slots
  BY InRange DEF Writing, TypeOK, Slots
<1>1. TypeOK'
  BY <1>0 DEF TypeOK, WriterPCs
<1>2. Shown' = Shown
  BY DEF Shown
<1>3. Order' /\ Filled'
  BY DEF Order, Filled
<1>4. Writing'
  BY <1>0 DEF Writing, TypeOK
<1>5. Counted'
  BY DEF Counted
<1>6. \A b \in Blocks : \A i \in Slots : i < size[b] => data'[b][i] = data[b][i]
  BY <1>0 DEF TypeOK, Slots
<1>7. Placed'
  BY <1>2, <1>6 DEF Placed, Behind
<1>8. Reading'
  <2>1. CASE readerPC = "read"
    <3>1. at \in Blocks /\ index \in Slots /\ index < size[at]
      BY <2>1, IterInRange
    <3> QED BY <2>1, <3>1, <1>2, <1>6 DEF Reading
  <2>2. CASE readerPC \in {"advance", "next"}
    <3>1. at \in Blocks /\ index - 1 \in Slots /\ index - 1 < size[at]
      BY <2>2, IterInRange
    <3> QED BY <2>2, <3>1, <1>2, <1>6 DEF Reading
  <2>3. CASE readerPC \notin {"read", "advance", "next"}
    BY <2>3 DEF Reading
  <2> QED BY <2>1, <2>2, <2>3
<1> QED BY <1>1, <1>3, <1>4, <1>5, <1>7, <1>8

LEMMA AddGrowsKeeps == IInv /\ AddGrows => IInv'
<1> SUFFICES ASSUME IInv, AddGrows PROVE IInv'
  OBVIOUS
<1> USE DEF IInv, AddGrows, WriterGoes, readerVars
<1>0. /\ block = current /\ current \in Blocks
      /\ size[current] \in Slots
      /\ data[current][size[current]] = added
      /\ size' = [size EXCEPT ![current] = size[current] + 1]
  BY InRange DEF Writing, TypeOK, Slots
<1>1. TypeOK'
  <2>1. size[current] + 1 \in 0 .. BlockSize
    BY <1>0 DEF Slots
  <2>2. size' \in [Blocks -> 0 .. BlockSize]
    BY <1>0, <2>1 DEF TypeOK
  <2> QED BY <2>2 DEF TypeOK, WriterPCs
<1>2. Shown' = Shown + 1 /\ Shown' = added
  BY DEF Shown, TypeOK
<1>3. Order' /\ Filled'
  BY <1>0 DEF Order, Filled, TypeOK, Blocks
<1>4. size'[current] = size[current] + 1 /\ size[current] \in Nat
  BY <1>0 DEF TypeOK, Slots
<1>5. Writing'
  BY <1>0, <1>4 DEF Writing
<1>6. Counted'
  BY <1>4, OneBlock DEF Counted, TypeOK
<1>7. Placed'
  <2> SUFFICES ASSUME NEW b \in Blocks, NEW i \in Slots,
                      root <= b, b <= current, i < size'[b]
               PROVE  data[b][i] = Shown' - Behind(b, i)'
    BY DEF Placed
  <2>1. Behind(b, i)' = Behind(b, i) + 1 /\ Behind(b, i) \in Int
    <3>1. current - b \in Int
      BY DEF TypeOK, Blocks
    <3>2. (current - b) * BlockSize \in Int
      BY <3>1, OneBlock
    <3> QED BY <3>2, <1>4 DEF Behind, Slots
  <2>2. CASE i < size[b]
    <3>1. data[b][i] = Shown - Behind(b, i)
      BY <2>2 DEF Placed
    <3> QED BY <3>1, <2>1, <1>2 DEF Shown, TypeOK
  <2>3. CASE ~(i < size[b])
    <3>1. b = current /\ i = size[current]
      BY <2>3, <1>0 DEF TypeOK, Blocks, Slots
    <3>2. Behind(b, i)' = 0
      BY <3>1, <1>4, OneBlock DEF Behind, TypeOK
    <3> QED BY <3>1, <3>2, <1>0, <1>2 DEF TypeOK
  <2> QED BY <2>2, <2>3
<1>8. Reading'
  <2>1. \A b \in Blocks : size'[b] >= size[b]
    BY <1>0 DEF TypeOK
  <2>2. CASE readerPC = "read"
    <3>1. at \in Blocks
      <4>1. root <= at /\ at <= current
        BY <2>2 DEF Reading
      <4>2. current \in Blocks /\ root \in Nat /\ at \in Nat
        BY InRange DEF TypeOK
      <4> QED BY <4>1, <4>2 DEF Blocks
    <3> QED BY <2>1, <2>2, <3>1, <1>2, <1>1 DEF Reading, TypeOK, Shown
  <2>3. CASE readerPC \in {"advance", "next"}
    <3>1. at \in Blocks
      <4>1. root <= at /\ at <= current
        BY <2>3 DEF Reading
      <4>2. current \in Blocks /\ root \in Nat /\ at \in Nat
        BY InRange DEF TypeOK
      <4> QED BY <4>1, <4>2 DEF Blocks
    <3> QED BY <2>1, <2>3, <3>1, <1>2, <1>1 DEF Reading, TypeOK, Shown
  <2>4. CASE readerPC \notin {"read", "advance", "next"}
    BY <2>4 DEF Reading
  <2> QED BY <2>2, <2>3, <2>4
<1> QED BY <1>1, <1>3, <1>5, <1>6, <1>7, <1>8

LEMMA AddCountsItemKeeps == IInv /\ AddCountsItem => IInv'
<1> SUFFICES ASSUME IInv, AddCountsItem PROVE IInv'
  OBVIOUS
<1> USE DEF IInv, AddCountsItem, WriterGoes, readerVars
<1>1. TypeOK'
  BY DEF TypeOK, WriterPCs
<1>2. Shown' = Shown
  BY DEF Shown
<1>3. Order' /\ Filled'
  BY DEF Order, Filled
<1>4. Writing'
  BY DEF Writing
<1>5. Counted'
  <2>1. (current - root) * BlockSize \in Int /\ size[current] \in Int
    BY OneBlock, InRange DEF TypeOK
  <2> QED BY <2>1 DEF Counted
<1>6. Placed'
  BY <1>2 DEF Placed, Behind
<1>7. Reading'
  BY <1>2 DEF Reading
<1> QED BY <1>1, <1>3, <1>4, <1>5, <1>6, <1>7

-----------------------------------------------------------------------------
(* The main thread.                                                        *)

LEMMA DrawKeeps == IInv /\ Draw => IInv'
<1> SUFFICES ASSUME IInv, Draw PROVE IInv'
  OBVIOUS
<1> USE DEF IInv, Draw, ReaderGoes, writerVars, chainVars
<1>1. TypeOK'
  BY DEF TypeOK, ReaderPCs
<1>2. Shown' = Shown
  BY DEF Shown
<1>3. Order' /\ Filled' /\ Writing' /\ Counted'
  BY DEF Order, Filled, Writing, Counted
<1>4. Placed'
  BY <1>2 DEF Placed, Behind
<1>5. Reading'
  BY DEF Reading
<1> QED BY <1>1, <1>3, <1>4, <1>5

LEMMA DrawnKeeps == IInv /\ Drawn => IInv'
<1> SUFFICES ASSUME IInv, Drawn PROVE IInv'
  OBVIOUS
<1> USE DEF IInv, Drawn, ReaderGoes, writerVars, chainVars
<1>1. TypeOK'
  BY DEF TypeOK, ReaderPCs
<1>2. Shown' = Shown
  BY DEF Shown
<1>3. Order' /\ Filled' /\ Writing' /\ Counted'
  BY DEF Order, Filled, Writing, Counted
<1>4. Placed'
  BY <1>2 DEF Placed, Behind
<1>5. Reading'
  BY DEF Reading
<1> QED BY <1>1, <1>3, <1>4, <1>5

LEMMA BeginKeeps == IInv /\ Begin => IInv'
<1> SUFFICES ASSUME IInv, Begin PROVE IInv'
  OBVIOUS
<1> USE DEF IInv, Begin, ReaderGoes, writerVars, chainVars
<1>0. /\ root \in Blocks /\ 0 \in Slots
      /\ size[root] \in 0 .. BlockSize /\ data[root][0] \in 0 .. MaxItems
  BY InRange DEF TypeOK, Slots
<1>1. TypeOK'
  BY <1>0 DEF TypeOK, ReaderPCs
<1>2. Shown' = Shown
  BY DEF Shown
<1>3. Order' /\ Filled' /\ Writing' /\ Counted'
  BY DEF Order, Filled, Writing, Counted
<1>4. Placed'
  BY <1>2 DEF Placed, Behind
<1>5. Reading'
  <2>1. due' = Shown
    BY DEF Shown
  <2> QED BY <1>0, <1>2, <2>1 DEF Reading, Order, TypeOK, Shown
<1> QED BY <1>1, <1>3, <1>4, <1>5

LEMMA ReadKeeps == IInv /\ Read => IInv'
<1> SUFFICES ASSUME IInv, Read PROVE IInv'
  OBVIOUS
<1> USE DEF IInv, Read, ReaderGoes, writerVars, chainVars
<1>0. /\ at \in Blocks /\ index \in Slots /\ index < size[at]
      /\ data[at][index] \in 0 .. MaxItems
  BY IterInRange DEF TypeOK
<1>1. TypeOK'
  BY <1>0 DEF TypeOK, ReaderPCs
<1>2. Shown' = Shown
  BY DEF Shown
<1>3. Order' /\ Filled' /\ Writing' /\ Counted'
  BY DEF Order, Filled, Writing, Counted
<1>4. Placed'
  BY <1>2 DEF Placed, Behind
<1>5. Reading'
  <2>1. 1 <= index' /\ index' <= size[at] /\ index' - 1 = index
    BY <1>0 DEF TypeOK
  <2> QED BY <2>1, <1>2 DEF Reading
<1> QED BY <1>1, <1>3, <1>4, <1>5

LEMMA AdvanceKeeps == IInv /\ Advance => IInv'
<1> SUFFICES ASSUME IInv, Advance PROVE IInv'
  OBVIOUS
<1> USE DEF IInv, Advance, ReaderGoes, writerVars, chainVars
<1>0. /\ at \in Blocks /\ index - 1 \in Slots /\ index - 1 < size[at]
      /\ lastSeen = data[at][index - 1]
      /\ root <= at /\ at <= current
  BY IterInRange DEF Reading
<1>1. TypeOK'
  BY DEF TypeOK, ReaderPCs
<1>2. Shown' = Shown
  BY DEF Shown
<1>3. Order' /\ Filled' /\ Writing' /\ Counted'
  BY DEF Order, Filled, Writing, Counted
<1>4. Placed'
  BY <1>2 DEF Placed, Behind
<1>5. Reading'
  <2>1. lastSeen = Shown - Behind(at, index - 1)
    BY <1>0 DEF Placed
  <2>2. CASE index = size[at]
    <3>1. index < BlockSize => lastSeen >= due
      <4> SUFFICES ASSUME index < BlockSize PROVE lastSeen >= due
        OBVIOUS
      <4>1. at = current
        BY <2>2, <1>0 DEF Filled, TypeOK, Blocks
      <4>2. Behind(at, index - 1) = 0
        BY <2>2, <4>1, OneBlock DEF Behind, TypeOK
      <4> QED BY <2>1, <4>2 DEF Reading, Shown, TypeOK
    <3> QED BY <2>2, <3>1, <1>0, <1>2 DEF Reading
  <2>3. CASE index # size[at]
    <3>1. index < size[at] /\ index \in Slots
      BY <2>3, <1>0 DEF TypeOK, Slots
    <3>2. data[at][index] = Shown - Behind(at, index)
      BY <1>0, <3>1 DEF Placed
    <3>3. Behind(at, index) = Behind(at, index - 1) - 1
      <4>1. (current - at) * BlockSize \in Int
        BY OneBlock DEF TypeOK
      <4> QED BY <4>1, <1>0, InRange DEF Behind, TypeOK
    <3>4. data[at][index] = lastSeen + 1
      <4>0. at \in Int /\ index \in Int /\ index - 1 \in Int
        BY DEF TypeOK
      <4>1. /\ Behind(at, index) \in Int /\ Behind(at, index - 1) \in Int
            /\ Shown \in Int
        BY <4>0, BehindInt
      <4> QED BY <2>1, <3>2, <3>3, <4>1
    <3> QED BY <2>3, <1>2, <3>1, <3>4 DEF Reading, TypeOK
  <2> QED BY <2>2, <2>3
<1> QED BY <1>1, <1>3, <1>4, <1>5

LEMMA NextBlockKeeps == IInv /\ NextBlock => IInv'
<1> SUFFICES ASSUME IInv, NextBlock PROVE IInv'
  OBVIOUS
<1> USE DEF IInv, NextBlock, ReaderGoes, writerVars, chainVars
<1>0. /\ at \in Blocks /\ index - 1 \in Slots /\ index - 1 < size[at]
      /\ lastSeen = data[at][index - 1]
      /\ root <= at /\ at <= current
      /\ index < BlockSize => lastSeen >= due
  BY IterInRange DEF Reading
<1>1. TypeOK'
  BY DEF TypeOK, ReaderPCs
<1>2. Shown' = Shown
  BY DEF Shown
<1>3. Order' /\ Filled' /\ Writing' /\ Counted'
  BY DEF Order, Filled, Writing, Counted
<1>4. Placed'
  BY <1>2 DEF Placed, Behind
<1>a. lastSeen = Shown - Behind(at, index - 1)
  BY <1>0 DEF Placed
<1>b. (current - at) * BlockSize \in Int
  BY OneBlock DEF TypeOK
<1>5. Reading'
  <2>1. CASE at < last /\ size[at + 1] > 0
    <3>1. at + 1 \in Blocks /\ at + 1 <= current /\ size[at] = BlockSize
      <4>1. at + 1 \in Blocks
        BY <2>1 DEF Order, TypeOK, Blocks
      <4>2. at + 1 <= current
        BY <2>1, <4>1 DEF Filled, TypeOK
      <4> QED BY <4>1, <4>2, <1>0 DEF Filled, TypeOK
    <3>2. data[at + 1][0] = Shown - Behind(at + 1, 0)
      BY <2>1, <3>1, <1>0 DEF Placed, Slots, TypeOK
    <3>3. (current - (at + 1)) * BlockSize
            = (current - at) * BlockSize - BlockSize
      <4>1. current - at \in Int /\ current - (at + 1) = (current - at) - 1
        BY DEF TypeOK
      <4> QED BY <4>1, OneBlock
    <3>4. Behind(at, index - 1) = Behind(at + 1, 0) + (BlockSize - index + 1)
      <4>1. size[current] \in Int /\ index \in Int
        BY InRange DEF TypeOK
      <4> HIDE DEF IInv, NextBlock
      <4> QED BY <1>b, <3>3, <4>1 DEF Behind
    <3>5. data[at + 1][0] = lastSeen + (BlockSize - index + 1)
      <4>0. at \in Int /\ at + 1 \in Int /\ index \in Int /\ index - 1 \in Int
        BY DEF TypeOK
      <4>1. Shown \in Int /\ \A b, i \in Int : Behind(b, i) \in Int
        BY BehindInt
      <4>2. Behind(at, index - 1) \in Int
        BY <4>0, <4>1
      <4>3. Behind(at + 1, 0) \in Int
        BY <4>0, <4>1
      <4> HIDE DEF IInv, NextBlock
      <4> QED BY <1>a, <3>2, <3>4, <4>0, <4>1, <4>2, <4>3
    <3>6. index <= BlockSize
      BY <1>0, <3>1 DEF TypeOK
    <3>7. 0 < size[at + 1] /\ data[at + 1][0] > lastSeen
      BY <2>1, <3>5, <3>6 DEF TypeOK
    <3>8. lastSeen < due => data[at + 1][0] = lastSeen + 1
      BY <1>0, <3>5, <3>6 DEF TypeOK
    <3> QED BY <2>1, <1>0, <1>2, <3>1, <3>7, <3>8 DEF Reading, TypeOK
  <2>2. CASE ~(at < last /\ size[at + 1] > 0)
    <3>1. lastSeen >= due
      <4>1. CASE index < BlockSize
        BY <4>1, <1>0
      <4>2. CASE ~(index < BlockSize)
        <5>1. index = BlockSize /\ size[at] = BlockSize
          BY <4>2, <1>0 DEF TypeOK, Slots
        <5>2. Behind(at, index - 1) = 0
          <6>1. CASE at = current
            BY <6>1, <5>1, OneBlock DEF Behind, TypeOK
          <6>2. CASE at # current
            <7>1. at + 1 = current /\ size[current] = 0
              <8>1. at < last /\ at + 1 \in Blocks /\ at + 1 <= current
                BY <6>2, <1>0, InRange DEF Order, TypeOK, Blocks
              <8>2. size[at + 1] = 0
                BY <2>2, <8>1 DEF TypeOK
              <8> QED BY <1>0, <8>1, <8>2 DEF Filled, TypeOK
            <7>2. current - at = 1
              BY <7>1 DEF TypeOK
            <7>3. (current - at) * BlockSize = BlockSize
              BY <7>2
            <7> QED BY <5>1, <7>1, <7>3 DEF Behind
          <6> QED BY <6>1, <6>2
        <5>3. Shown \in Int /\ due <= Shown
          BY BehindInt DEF Reading
        <5> QED BY <5>2, <5>3, <1>a
      <4> QED BY <4>1, <4>2
    <3> QED BY <2>2, <3>1 DEF Reading
  <2> QED BY <2>1, <2>2
<1> QED BY <1>1, <1>3, <1>4, <1>5

LEMMA KeepDeletesKeeps == IInv /\ KeepDeletes => IInv'
<1> SUFFICES ASSUME IInv, KeepDeletes PROVE IInv'
  OBVIOUS
<1> USE DEF IInv, KeepDeletes, ReaderGoes, writerVars, chainVars
<1>0. numItems > BlockSize
  BY KeptIsMore DEF TypeOK
<1>h. numItems \in Int
  BY DEF TypeOK
<1>c. size[current] \in 0 .. BlockSize /\ current - root \in Int
  BY InRange DEF TypeOK
<1>d. (current - root) * BlockSize \in Int
  BY <1>c, OneBlock
<1>e. root + 1 <= current
  <2>1. numItems <= (current - root) * BlockSize + BlockSize
    BY <1>c, <1>d DEF Counted
  <2>2. (current - root) * BlockSize > 0
    <3> HIDE DEF IInv, KeepDeletes
    <3> QED BY <2>1, <1>0, <1>d, <1>h
  <2>3. current - root # 0
    BY <2>2, OneBlock
  <2> QED BY <2>3 DEF Order, TypeOK
<1>f. writerPC = "countBlock" => root + 1 <= block
  <2> SUFFICES ASSUME writerPC = "countBlock" PROVE root + 1 <= block
    OBVIOUS
  <2>1. numItems = (current - root) * BlockSize
    BY <1>d DEF Counted, Writing
  <2>2. current - root >= 2
    BY <2>1, <1>0, <1>c, TwoBlocks
  <2> QED BY <2>2 DEF Writing, TypeOK
<1>1. TypeOK'
  BY DEF TypeOK, ReaderPCs
<1>2. Shown' = Shown
  BY DEF Shown
<1>3. Order' /\ Filled' /\ Writing'
  <2>1. Order'
    BY <1>e DEF Order
  <2>2. Filled'
    BY DEF Filled, TypeOK, Blocks
  <2>3. Writing'
    BY <1>f DEF Writing
  <2> QED BY <2>1, <2>2, <2>3
<1>g. Counted'
  <2>1. (current - root') * BlockSize = (current - root) * BlockSize - BlockSize
    <3>1. current - root' = (current - root) - 1
      BY DEF TypeOK
    <3> QED BY <3>1, <1>c, OneBlock
  <2>2. numItems' = (current - root') * BlockSize + size[current]
                      - (IF writerPC = "countItem" THEN 1 ELSE 0)
    BY <2>1, <1>c, <1>d DEF Counted
  <2>3. numBlocks' = current - root' + 1
                       - (IF writerPC = "countBlock" THEN 1 ELSE 0)
    BY DEF Counted, TypeOK
  <2> QED BY <2>2, <2>3 DEF Counted
<1>4. Placed'
  BY <1>2 DEF Placed, Behind, TypeOK, Blocks
<1>5. Reading'
  BY DEF Reading
<1> QED BY <1>1, <1>3, <1>g, <1>4, <1>5

LEMMA ClearKeeps == IInv /\ Clear => IInv'
<1> SUFFICES ASSUME IInv, Clear PROVE IInv'
  OBVIOUS
<1> USE DEF IInv, Clear, ReaderGoes, writerVars, chainVars
<1>1. CASE writerPC = "idle"
  <2>0. /\ root \in Blocks /\ (root - root) * BlockSize = 0
        /\ size' = [b \in Blocks |-> 0]
    BY <1>1, InRange, OneBlock DEF TypeOK
  <2>1. TypeOK'
    <3>1. size' \in [Blocks -> 0 .. BlockSize]
      BY <2>0
    <3> QED BY <1>1, <3>1 DEF TypeOK, ReaderPCs
  <2>2. Order' /\ Filled'
    BY <1>1, <2>0 DEF Order, Filled, TypeOK, Blocks
  <2>3. Writing'
    BY <1>1 DEF Writing
  <2>4. Counted'
    BY <1>1, <2>0 DEF Counted, TypeOK
  <2>5. Placed'
    BY <1>1, <2>0 DEF Placed, Slots
  <2>6. Reading'
    BY DEF Reading
  <2> QED BY <2>1, <2>2, <2>3, <2>4, <2>5, <2>6
<1>2. CASE writerPC # "idle"
  <2>1. TypeOK'
    BY <1>2 DEF TypeOK, ReaderPCs
  <2>2. Order' /\ Filled' /\ Writing' /\ Counted'
    BY <1>2 DEF Order, Filled, Writing, Counted
  <2>3. Placed'
    BY <1>2 DEF Placed, Behind, Shown
  <2>4. Reading'
    BY DEF Reading
  <2> QED BY <2>1, <2>2, <2>3, <2>4
<1> QED BY <1>1, <1>2

LEMMA ResetKeeps == IInv /\ Reset => IInv'
<1> SUFFICES ASSUME IInv, Reset PROVE IInv'
  OBVIOUS
<1> USE DEF IInv, Reset, ReaderGoes, writerVars, chainVars
<1>0. /\ root \in Blocks /\ (root - root) * BlockSize = 0
      /\ size' = [b \in Blocks |-> 0] /\ writerPC = "idle"
  BY InRange, OneBlock DEF TypeOK
<1>1. TypeOK'
  <2>1. size' \in [Blocks -> 0 .. BlockSize]
    BY <1>0
  <2> QED BY <2>1 DEF TypeOK, ReaderPCs
<1>2. Order' /\ Filled'
  BY <1>0 DEF Order, Filled, TypeOK, Blocks
<1>3. Writing'
  BY <1>0 DEF Writing
<1>4. Counted'
  BY <1>0 DEF Counted, TypeOK
<1>5. Placed'
  BY <1>0 DEF Placed, Slots
<1>6. Reading'
  BY DEF Reading
<1> QED BY <1>1, <1>2, <1>3, <1>4, <1>5, <1>6

LEMMA StutterKeeps == IInv /\ UNCHANGED vars => IInv'
<1> SUFFICES ASSUME IInv, UNCHANGED vars PROVE IInv'
  OBVIOUS
<1> USE DEF IInv, vars, chainVars, writerVars, readerVars
<1>1. TypeOK' /\ Order' /\ Filled'
  BY DEF TypeOK, Order, Filled
<1>2. Writing' /\ Counted'
  BY DEF Writing, Counted
<1>3. Placed' /\ Reading'
  BY DEF Placed, Reading, Behind, Shown
<1> QED BY <1>1, <1>2, <1>3

-----------------------------------------------------------------------------
(* The batcher looks items up.                                             *)

LEMMA Times ==
  ASSUME NEW a \in Int, NEW b \in Int
  PROVE  /\ a * BlockSize \in Int
         /\ (b - a) * BlockSize = b * BlockSize - a * BlockSize
         /\ a <= b => a * BlockSize <= b * BlockSize
         /\ a < b => a * BlockSize + BlockSize <= b * BlockSize
<1>1. a * BlockSize \in Int /\ b * BlockSize \in Int
  BY SMT
<1>2. (b - a) * BlockSize = b * BlockSize - a * BlockSize
  BY SMT
<1>3. \A k \in Int : 0 <= k => 0 <= k * BlockSize
  BY SMT
<1>4. \A k \in Int : 1 <= k => BlockSize <= k * BlockSize
  BY SMT
<1>5. b - a \in Int
  OBVIOUS
<1>6. a <= b => a * BlockSize <= b * BlockSize
  <2> SUFFICES ASSUME a <= b PROVE a * BlockSize <= b * BlockSize
    OBVIOUS
  <2>1. 0 <= (b - a) * BlockSize
    BY <1>3, <1>5
  <2> QED BY <1>1, <1>2, <2>1
<1>7. a < b => a * BlockSize + BlockSize <= b * BlockSize
  <2> SUFFICES ASSUME a < b PROVE a * BlockSize + BlockSize <= b * BlockSize
    OBVIOUS
  <2>1. BlockSize <= (b - a) * BlockSize
    BY <1>4, <1>5
  <2> QED BY <1>1, <1>2, <2>1
<1> QED BY <1>1, <1>2, <1>6, <1>7

LEMMA Division ==
  ASSUME NEW i \in Nat
  PROVE  /\ i \div BlockSize \in Nat /\ i % BlockSize \in Slots
         /\ i = (i \div BlockSize) * BlockSize + (i % BlockSize)
<1>1. i \div BlockSize \in Nat
  OBVIOUS
<1>2. i % BlockSize \in 0 .. BlockSize - 1
  OBVIOUS
<1>3. i = (i \div BlockSize) * BlockSize + (i % BlockSize)
  OBVIOUS
<1> QED BY <1>1, <1>2, <1>3 DEF Slots

\* The block the loop of SlowAt stops at.
LEMMA StopsAt ==
  ASSUME NEW L \in Nat, NEW i \in Nat, NEW m \in 0 .. L,
         m = 0 \/ m * BlockSize < i, i <= (m + 1) * BlockSize
  PROVE  LET steps == {n \in 0 .. L : n = 0 \/ n * BlockSize < i}
         IN  m = CHOOSE n \in steps : \A k \in steps : k <= n
<1> DEFINE steps == {n \in 0 .. L : n = 0 \/ n * BlockSize < i}
<1>1. m \in steps
  OBVIOUS
<1>2. ASSUME NEW k \in steps PROVE k <= m
  <2> SUFFICES ASSUME m < k PROVE FALSE
    OBVIOUS
  <2>1. k * BlockSize < i
    OBVIOUS
  <2>2. (m + 1) * BlockSize <= k * BlockSize
    BY Times
  <2>3. (m + 1) * BlockSize \in Int /\ k * BlockSize \in Int
    BY Times
  <2> QED BY <2>1, <2>2, <2>3
<1>3. steps \subseteq Int
  OBVIOUS
<1> HIDE DEF steps
<1>4. \A n \in steps : (\A k \in steps : k <= n) => n = m
  <2> SUFFICES ASSUME NEW n \in steps, \A k \in steps : k <= n PROVE n = m
    OBVIOUS
  <2>1. m <= n /\ n <= m /\ m \in Int /\ n \in Int
    BY <1>1, <1>2, <1>3
  <2> QED BY <2>1
<1>5. m = CHOOSE n \in steps : \A k \in steps : k <= n
  BY <1>1, <1>2, <1>4
<1> QED BY <1>5 DEF steps

\* An item of the chain, by the place it has.
LEMMA ItemAt ==
  ASSUME IInv, writerPC = "idle", NEW q \in 0 .. current - root, NEW r \in Slots,
         r < size[root + q], 0 < size[root]
  PROVE  data[root + q][r] = data[root][0] + (q * BlockSize + r)
<1> USE DEF IInv
<1>1. root \in Nat /\ current \in Nat /\ root + q \in Blocks /\ root \in Blocks
      /\ 0 \in Slots /\ r \in Int
  <2>0. TypeOK /\ Order
    OBVIOUS
  <2> HIDE DEF IInv
  <2>1. root \in Blocks /\ current \in Blocks
    BY <2>0, InRange
  <2>2. root \in Nat /\ current \in Nat
    BY <2>0 DEF TypeOK
  <2>3. root + q \in Blocks
    BY <2>1, <2>2 DEF Blocks
  <2> QED BY <2>1, <2>2, <2>3 DEF Slots
<1>2. data[root + q][r] = Shown - Behind(root + q, r)
  BY <1>1 DEF Placed
<1>3. data[root][0] = Shown - Behind(root, 0)
  BY <1>1 DEF Placed, Order
<1>4. (current - (root + q)) * BlockSize = (current - root) * BlockSize - q * BlockSize
  <2>1. current - (root + q) = (current - root) - q
    BY <1>1
  <2> QED BY <1>1, <2>1, Times
<1>5. /\ (current - root) * BlockSize \in Int /\ q * BlockSize \in Int
      /\ size[current] \in Int /\ Shown \in Int
  <2>1. size[current] \in Int /\ Shown \in Int
    <3>0. TypeOK /\ Order
      OBVIOUS
    <3> HIDE DEF IInv
    <3>1. size[current] \in 0 .. BlockSize
      BY <3>0, InRange DEF TypeOK
    <3>2. Shown \in Int
      BY <3>0, BehindInt
    <3> QED BY <3>1, <3>2
  <2>2. current - root \in Int /\ q \in Int
    BY <1>1
  <2> QED BY <2>1, <2>2, Times
<1>6. Behind(root + q, r) = Behind(root, 0) - q * BlockSize - r
  <2> HIDE DEF IInv
  <2> QED BY <1>1, <1>4, <1>5 DEF Behind
<1>7. Behind(root, 0) \in Int
  BY <1>1, BehindInt
<1> HIDE DEF IInv
<1> QED BY <1>1, <1>2, <1>3, <1>5, <1>6, <1>7

LEMMA Picked ==
  ASSUME IInv, writerPC = "idle", NEW i \in 0 .. numItems - 1
  PROVE  SlowAt(i) = data[root][0] + i
                       - (IF i > 0 /\ i % BlockSize = 0 THEN BlockSize ELSE 0)
<1> DEFINE q == i \div BlockSize
           r == i % BlockSize
           L == last - root
           most == CHOOSE n \in {n \in 0 .. L : n = 0 \/ n * BlockSize < i} :
                     \A m \in {k \in 0 .. L : k = 0 \/ k * BlockSize < i} : m <= n
<1>1. /\ i \in Nat /\ numItems \in Int /\ root \in Nat /\ current \in Nat /\ last \in Nat
      /\ root <= current /\ current <= last
      /\ size[current] \in 0 .. BlockSize /\ root \in Blocks /\ current \in Blocks
  BY InRange DEF IInv, TypeOK, Order
<1>2. q \in Nat /\ r \in Slots /\ i = q * BlockSize + r /\ r \in 0 .. BlockSize - 1
  BY <1>1, Division DEF Slots
<1>3. numItems = (current - root) * BlockSize + size[current]
  <2>1. (current - root) * BlockSize \in Int
    BY <1>1, Times
  <2> QED BY <1>1, <2>1 DEF IInv, Counted
<1>4. /\ q * BlockSize \in Int /\ (current - root) * BlockSize \in Int
      /\ current - root \in Nat
  BY <1>1, <1>2, Times
<1>5. SlowAt(i) = data[root + most][r]
  BY DEF SlowAt
<1>6. ASSUME NEW m \in 0 .. current - root, m = 0 \/ m * BlockSize < i,
             i <= (m + 1) * BlockSize
      PROVE  most = m
  <2>1. L \in Nat /\ m \in 0 .. L
    BY <1>1
  <2> QED BY <1>1, <1>6, <2>1, StopsAt
<1>7. \A b \in Blocks : root <= b /\ b < current => size[b] = BlockSize
  BY DEF IInv, Filled
<1> HIDE DEF q, r, L, most
<1>8. q <= current - root
  <2> SUFFICES ASSUME current - root < q PROVE FALSE
    BY <1>1, <1>2
  <2>1. (current - root) * BlockSize + BlockSize <= q * BlockSize
    BY <1>1, <1>2, Times
  <2> QED BY <1>1, <1>2, <1>3, <1>4, <2>1
<1>9. 0 < size[root]
  <2>1. CASE root < current
    BY <1>1, <1>7, <2>1
  <2>2. CASE root = current
    <3>1. (current - root) * BlockSize = 0
      BY <1>1, <2>2, OneBlock
    <3> QED BY <1>1, <1>3, <2>2, <3>1
  <2> QED BY <1>1, <2>1, <2>2
<1>10. CASE i > 0 /\ r = 0
  <2>1. 1 <= q
    <3>1. q = 0 => q * BlockSize = 0
      BY OneBlock
    <3> QED BY <1>2, <1>10, <3>1
  <2>2. (q - 1) * BlockSize = q * BlockSize - BlockSize /\ (q - 1) + 1 = q
    BY <1>2, OneBlock
  <2>3. q - 1 \in 0 .. current - root /\ root + (q - 1) < current
    BY <1>1, <1>2, <1>8, <2>1
  <2>4. most = q - 1
    <3>1. (q - 1) * BlockSize < i /\ i <= ((q - 1) + 1) * BlockSize
      BY <1>2, <1>4, <1>10, <2>2
    <3> QED BY <1>6, <2>3, <3>1
  <2>5. size[root + (q - 1)] = BlockSize
    <3>1. root + (q - 1) \in Blocks /\ root <= root + (q - 1)
      BY <1>1, <2>3 DEF Blocks
    <3> QED BY <1>7, <2>3, <3>1
  <2>6. data[root + (q - 1)][r] = data[root][0] + ((q - 1) * BlockSize + r)
    BY <1>2, <1>9, <2>3, <2>5, ItemAt
  <2>7. data[root][0] \in Int
    BY <1>1 DEF IInv, TypeOK, Slots
  <2> QED BY <1>2, <1>4, <1>5, <1>10, <2>2, <2>4, <2>6, <2>7 DEF r
<1>11. CASE ~(i > 0 /\ r = 0)
  <2>1. r < size[root + q]
    <3>1. CASE root + q < current
      <4>1. root + q \in Blocks /\ root <= root + q
        BY <1>1, <1>2, <3>1 DEF Blocks
      <4> QED BY <1>2, <1>7, <3>1, <4>1
    <3>2. CASE root + q = current
      <4>1. q = current - root
        BY <1>1, <1>2, <3>2
      <4> QED BY <1>1, <1>2, <1>3, <1>4, <3>2, <4>1
    <3> QED BY <1>1, <1>2, <1>8, <3>1, <3>2
  <2>2. most = q
    <3>1. q = 0 \/ q * BlockSize < i
      <4>1. CASE i = 0
        <5>1. q >= 1 => BlockSize <= q * BlockSize
          <6>1. 0 < q => 0 * BlockSize + BlockSize <= q * BlockSize
            BY <1>2, Times
          <6> QED BY <1>2, <1>4, <6>1, OneBlock
        <5> QED BY <1>2, <1>4, <4>1, <5>1
      <4>2. CASE r > 0
        BY <1>2, <1>4, <4>2
      <4> QED BY <1>1, <1>2, <1>11, <4>1, <4>2
    <3>2. i <= (q + 1) * BlockSize
      BY <1>2, <1>4, OneBlock
    <3>3. q \in 0 .. current - root
      BY <1>1, <1>2, <1>8
    <3> QED BY <1>6, <3>1, <3>2, <3>3
  <2>3. data[root + q][r] = data[root][0] + (q * BlockSize + r)
    <3>1. q \in 0 .. current - root
      BY <1>1, <1>2, <1>8
    <3> QED BY <1>2, <1>9, <2>1, <3>1, ItemAt
  <2>4. data[root][0] \in Int
    BY <1>1 DEF IInv, TypeOK, Slots
  <2> QED BY <1>1, <1>2, <1>4, <1>5, <1>11, <2>2, <2>3, <2>4 DEF r
<1> QED BY <1>10, <1>11

-----------------------------------------------------------------------------
(* The theorems.                                                           *)

LEMMA Inductive == IInv /\ [Next]_vars => IInv'
<1>1. IInv /\ Writer => IInv'
  BY PushBackKeeps, AddTestsKeeps, AddLinksKeeps, AddCountsBlockKeeps,
     AddWritesKeeps, AddGrowsKeeps, AddCountsItemKeeps DEF Writer
<1>2. IInv /\ Reader => IInv'
  BY DrawKeeps, KeepDeletesKeeps, BeginKeeps, ReadKeeps, AdvanceKeeps,
     NextBlockKeeps, DrawnKeeps, ClearKeeps, ResetKeeps DEF Reader
<1> QED BY <1>1, <1>2, StutterKeeps DEF Next

\* The invariant holds of every behaviour.
THEOREM Invariant == Spec => []IInv
BY Initially, Inductive, PTL DEF Spec

\* Every variable keeps its type: in particular no block is filled past its
\* size, and none is linked that no item needs.
THEOREM TypeCorrect == Spec => []TypeOK
<1>1. IInv => TypeOK
  BY DEF IInv
<1> QED BY <1>1, Invariant, PTL

\* keep never drops the block of the writer, nor the current one; the counts it
\* goes by are exact up to the step push_back is about to make.
THEOREM CurrentSpared == Spec => []KeepSparesCurrent
<1>1. IInv => KeepSparesCurrent
  <2> SUFFICES ASSUME IInv PROVE KeepSparesCurrent
    OBVIOUS
  <2>1. root <= block \/ writerPC = "idle"
    BY DEF IInv, Writing, Order, TypeOK, WriterPCs
  <2> QED BY <2>1 DEF IInv, Order, Counted, KeepSparesCurrent
<1> QED BY <1>1, Invariant, PTL

\* An iteration meets every item that was there when it began, in order and
\* written, while the chain grows.
THEOREM AllSeenInOrder == Spec => []SeesAllInOrder
<1>1. IInv => SeesAllInOrder
  BY DEF IInv, Reading, TypeOK, SeesAllInOrder
<1> QED BY <1>1, Invariant, PTL

\* The item looked up by its index is the one that was drawn with that index,
\* but for the first of each block after the root (BlockChain.h, SlowAt).
THEOREM Picks == Spec => []PicksWhatWasDrawn
<1>1. IInv => PicksWhatWasDrawn
  BY Picked DEF PicksWhatWasDrawn
<1> QED BY <1>1, Invariant, PTL

-----------------------------------------------------------------------------
(* The core time line.                                                     *)

Types == {"In", "Out"}
Switches == [time : Nat, type : Types]
Events ==
  [trace : Nat, step : {"buffered", "in", "out"}, core : Cores,
   old : Threads \cup {Nobody}, new : Threads \cup {Nobody},
   since : Nat, time : Nat]
Boxes == [core : Cores, start : Nat, end : Nat, thread : Threads]

\* The variables keep their types.
ActivityTypeOK ==
  /\ running \in [Cores -> Threads \cup {Nobody}]
  /\ since \in [Cores -> Nat] /\ clock \in Nat
  /\ traces \in Nat
  /\ known \subseteq Threads
  /\ events \subseteq Events
  /\ utilization \in [Cores -> SUBSET Switches]
  /\ boxes \subseteq Boxes
  /\ told \subseteq [core : Cores, time : Nat, type : Types]

\* Nothing is later than the last switch of its core, and a run takes time.
Past ==
  /\ \A c \in Cores : since[c] <= clock
  /\ \A e \in events : e.since < e.time /\ e.time <= since[e.core]
  /\ \A s \in told : s.time <= since[s.core]

\* A run is over before the next one of its core begins.
Before(e, f) == e.time <= f.since
Apart ==
  \A e, f \in events : e.core = f.core => e = f \/ Before(e, f) \/ Before(f, e)

\* Nothing is told of the time of a run whose end is to come, but that the core
\* is handed over at the end.
Outside(s, e) == \/ s.time <= e.since
                 \/ s.time = e.time /\ s.type = "In" /\ e.step = "out"
                 \/ s.time > e.time
Gaps == \A e \in events, s \in told : s.core = e.core => Outside(s, e)

\* The map of a core knows what was told; a switch Out may meet one In.
Named(c, r) == [core |-> c, time |-> r.time, type |-> r.type]
SwitchIn(t) == [time |-> t, type |-> "In"]
Mapped ==
  /\ \A c \in Cores : \A r \in utilization[c] : Named(c, r) \in told
  /\ \A s \in told : \E r \in utilization[s.core] : r.time = s.time
  /\ \A s \in told : s.type = "In" => SwitchIn(s.time) \in utilization[s.core]

\* No box ends after the newest switch of its core.
Ended == \A b \in boxes : \E r \in utilization[b.core] : b.end <= r.time

-----------------------------------------------------------------------------
(* The map and the events.                                                 *)

LEMMA MapInserts ==
  ASSUME NEW map \in SUBSET Switches, NEW s \in Switches
  PROVE  /\ Insert(map, s) \in SUBSET Switches
         /\ map \subseteq Insert(map, s)
         /\ Insert(map, s) \subseteq map \cup {s}
         /\ \E r \in Insert(map, s) : r.time = s.time
         /\ (\A r \in map : r.time # s.time) => s \in Insert(map, s)
BY DEF Insert, Switches

LEMMA SwitchInserts ==
  ASSUME ActivityTypeOK, NEW e \in Events, NEW type \in Types,
         InsertSwitch(e, type)
  PROVE  LET s == [time |-> e.time, type |-> type] IN
         /\ utilization' \in [Cores -> SUBSET Switches]
         /\ \A c \in Cores : utilization[c] \subseteq utilization'[c]
         /\ \A c \in Cores : c # e.core => utilization'[c] = utilization[c]
         /\ utilization'[e.core] \subseteq utilization[e.core] \cup {s}
         /\ \E r \in utilization'[e.core] : r.time = e.time
         /\ (\A r \in utilization[e.core] : r.time # e.time) =>
              s \in utilization'[e.core]
<1> DEFINE s == [time |-> e.time, type |-> type]
<1>1. e.core \in Cores /\ s \in Switches /\ s.time = e.time
  BY DEF Events, Switches
<1>2. utilization' = [utilization EXCEPT ![e.core] = Insert(@, s)]
  BY DEF InsertSwitch
<1> HIDE DEF s
<1>3. utilization[e.core] \in SUBSET Switches
  BY <1>1 DEF ActivityTypeOK
<1>4. utilization'[e.core] = Insert(utilization[e.core], s)
  BY <1>1, <1>2 DEF ActivityTypeOK
<1>5. \A c \in Cores : c # e.core => utilization'[c] = utilization[c]
  BY <1>2 DEF ActivityTypeOK
<1>6. /\ Insert(utilization[e.core], s) \in SUBSET Switches
      /\ utilization[e.core] \subseteq utilization'[e.core]
      /\ utilization'[e.core] \subseteq utilization[e.core] \cup {s}
      /\ \E r \in utilization'[e.core] : r.time = e.time
      /\ (\A r \in utilization[e.core] : r.time # e.time) =>
           s \in utilization'[e.core]
  BY <1>1, <1>3, <1>4, MapInserts
<1>7. utilization' \in [Cores -> SUBSET Switches]
  BY <1>1, <1>2, <1>6 DEF ActivityTypeOK
<1>8. \A c \in Cores : utilization[c] \subseteq utilization'[c]
  BY <1>5, <1>6
<1> QED BY <1>5, <1>6, <1>7, <1>8 DEF s

LEMMA SwitchTells ==
  ASSUME NEW e, NEW type, InsertSwitch(e, type)
  PROVE  \A q \in told' \ told : q.core = e.core /\ q.time = e.time
<1>1. told' = told \cup {[core |-> e.core, time |-> e.time, type |-> type]}
  BY DEF InsertSwitch
<1> QED BY <1>1

\* An event that goes on is the same but for its step.
Same(f, e) == /\ f.trace = e.trace /\ f.core = e.core /\ f.old = e.old
              /\ f.new = e.new /\ f.since = e.since /\ f.time = e.time

LEMMA EventGoes ==
  ASSUME ActivityTypeOK, NEW e \in events, NEW s \in {"in", "out"},
         NEW steps \in {{}, {s}}, Goes(e, steps)
  PROVE  /\ e \in Events /\ e.core \in Cores /\ e.time \in Nat /\ e.since \in Nat
         /\ events' \subseteq Events
         /\ \A f \in events' : \/ f \in events /\ f # e
                               \/ steps = {s} /\ f.step = s /\ Same(f, e)
         /\ \A f, g \in events' :
              f = g \/ (f \in events /\ f # e) \/ (g \in events /\ g # e)
<1> DEFINE next == [e EXCEPT !.step = s]
<1>1. e \in Events
  BY DEF ActivityTypeOK
<1>2. e.core \in Cores /\ e.time \in Nat /\ e.since \in Nat
  BY <1>1 DEF Events
<1>3. next \in Events /\ next.step = s /\ Same(next, e)
  BY <1>1 DEF Events, Same
<1>4. events' = (events \ {e}) \cup {[e EXCEPT !.step = t] : t \in steps}
  BY DEF Goes
<1> HIDE DEF next
<1>5. \A f \in events' : (f \in events /\ f # e) \/ (steps = {s} /\ f = next)
  BY <1>4 DEF next
<1> QED BY <1>1, <1>2, <1>3, <1>5 DEF ActivityTypeOK

\* The steps that leave the core time line alone, but for its clear boxes.
Quiet == /\ UNCHANGED <<since, clock, events, utilization, told>>
         /\ boxes' \subseteq boxes

LEMMA QuietSteps ==
  ASSUME \/ Collide \/ StartRecording \/ StartTrace \/ StopTrace
         \/ StopRecording \/ UNCHANGED activityVars
         \/ \E t \in Threads : ThreadEvent(t)
  PROVE  Quiet
<1> USE DEF Quiet, world, control, graph
<1>1. CASE Collide
  BY <1>1 DEF Collide
<1>2. CASE StartRecording
  BY <1>2 DEF StartRecording
<1>3. CASE StartTrace \/ StopTrace \/ StopRecording
  BY <1>3 DEF StartTrace, StopTrace, StopRecording
<1>4. CASE UNCHANGED activityVars
  BY <1>4 DEF activityVars
<1>5. CASE \E t \in Threads : ThreadEvent(t)
  BY <1>5 DEF ThreadEvent
<1> QED BY <1>1, <1>2, <1>3, <1>4, <1>5

\* What an event of a trace does.
LEMMA CallbackIs ==
  ASSUME ActivityTypeOK, NEW e \in events, Callback(e)
  PROVE  /\ \E steps \in {{}, {"in"}} : Goes(e, steps)
         /\ UNCHANGED <<since, clock, utilization, boxes, told>>
BY DEF Callback, world, graph

LEMMA InIs ==
  ASSUME ActivityTypeOK, NEW e \in events, AddSwitchIn(e)
  PROVE  /\ e.step = "in" /\ Goes(e, {"out"})
         /\ InsertSwitch(e, "In") \/ UNCHANGED <<utilization, told>>
         /\ UNCHANGED <<since, clock, boxes, ran>>
BY DEF AddSwitchIn, world

LEMMA OutIs ==
  ASSUME ActivityTypeOK, NEW e \in events, AddSwitchOut(e)
  PROVE  /\ e.step = "out" /\ Goes(e, {})
         /\ \/ UNCHANGED <<utilization, told, boxes, ran>>
            \/ /\ e.old \in Threads /\ InsertSwitch(e, "Out")
               /\ ran' = ran \cup {Run(e)}
               /\ \A b : b \in boxes' <=>
                    \/ b \in boxes
                    \/ /\ isRecording
                       /\ \E r \in Newest(utilization[e.core]) :
                            r.type = "In" /\ b = BoxFrom(e, r)
         /\ UNCHANGED <<since, clock>>
<1> USE DEF world, graph
<1>1. CASE e.old \in known
  <2>1. /\ e.step = "out" /\ Goes(e, {}) /\ InsertSwitch(e, "Out")
        /\ ran' = ran \cup {Run(e)} /\ UNCHANGED <<since, clock>>
    BY <1>1 DEF AddSwitchOut
  <2>2. boxes' = boxes \cup
                 {BoxFrom(e, s) : s \in {r \in Newest(utilization[e.core]) :
                                           r.type = "In" /\ isRecording}}
    BY <1>1 DEF AddSwitchOut
  <2>3. e.old \in Threads
    BY <1>1 DEF ActivityTypeOK
  <2> QED BY <2>1, <2>2, <2>3
<1>2. CASE e.old \notin known
  BY <1>2 DEF AddSwitchOut
<1> QED BY <1>1, <1>2

-----------------------------------------------------------------------------
(* Types.                                                                  *)

\* A switch of a core and the event of it.
LEMMA SwitchIs ==
  ASSUME ActivityTypeOK, NEW c \in Cores, NEW new \in Threads \cup {Nobody},
         Switch(c, new)
  PROVE  /\ running' \in [Cores -> Threads \cup {Nobody}]
         /\ since' \in [Cores -> Nat] /\ clock' = clock + 1 /\ clock \in Nat
         /\ since[c] \in Nat /\ since'[c] = clock + 1
         /\ \A d \in Cores : d # c => since'[d] = since[d]
         /\ UNCHANGED <<traces, known, utilization, boxes, told>>
         /\ \A f \in events' :
              \/ f \in events
              \/ /\ f \in Events /\ f.core = c
                 /\ f.since = since[c] /\ f.time = clock + 1
         /\ \A f, g \in events' : f = g \/ f \in events \/ g \in events
<1> USE DEF control, graph
<1> DEFINE e == [trace |-> traces, step |-> "buffered", core |-> c,
                 old |-> running[c], new |-> new, since |-> since[c],
                 time |-> clock + 1]
<1>1. running[c] \in Threads \cup {Nobody} /\ since[c] \in Nat /\ clock \in Nat
  BY DEF ActivityTypeOK
<1>2. e \in Events /\ e.core = c /\ e.since = since[c] /\ e.time = clock + 1
  BY <1>1 DEF Events, ActivityTypeOK
<1>3. events' = events \cup (IF tracing THEN {e} ELSE {})
  BY DEF Switch
<1> HIDE DEF e
<1>4. \A f \in events' : f \in events \/ f = e
  BY <1>3
<1>5. /\ running' \in [Cores -> Threads \cup {Nobody}]
      /\ since' \in [Cores -> Nat] /\ clock' = clock + 1
      /\ since'[c] = clock + 1
      /\ \A d \in Cores : d # c => since'[d] = since[d]
  BY <1>1 DEF Switch, ActivityTypeOK
<1>6. UNCHANGED <<traces, known, utilization, boxes, told>>
  BY DEF Switch
<1> QED BY <1>1, <1>2, <1>4, <1>5, <1>6

LEMMA TypeStep == ActivityTypeOK /\ [ActivityNext]_activityVars => ActivityTypeOK'
<1> SUFFICES ASSUME ActivityTypeOK, [ActivityNext]_activityVars
             PROVE ActivityTypeOK'
  OBVIOUS
<1> USE DEF world, control, graph
<1>1. ASSUME NEW c \in Cores, NEW new \in Threads \cup {Nobody}, Switch(c, new)
      PROVE  ActivityTypeOK'
  <2>1. events' \subseteq Events
    BY <1>1, SwitchIs DEF ActivityTypeOK
  <2> QED BY <1>1, <2>1, SwitchIs DEF ActivityTypeOK
<1>2. ASSUME NEW e \in events, Callback(e) PROVE ActivityTypeOK'
  <2>1. events' \subseteq Events
    BY <1>2, CallbackIs, EventGoes
  <2> QED BY <1>2, <2>1 DEF Callback, ActivityTypeOK
<1>3. ASSUME NEW e \in events, AddSwitchIn(e) PROVE ActivityTypeOK'
  <2>1. events' \subseteq Events /\ e \in Events /\ e.core \in Cores /\ e.time \in Nat
    BY <1>3, InIs, EventGoes
  <2>2. CASE InsertSwitch(e, "In")
    <3>1. utilization' \in [Cores -> SUBSET Switches]
      BY <2>1, <2>2, SwitchInserts DEF Types
    <3>2. told' \subseteq [core : Cores, time : Nat, type : Types]
      BY <2>1, <2>2 DEF InsertSwitch, ActivityTypeOK, Types
    <3> QED BY <1>3, <2>1, <3>1, <3>2 DEF AddSwitchIn, ActivityTypeOK
  <2>3. CASE UNCHANGED <<utilization, told>>
    BY <1>3, <2>1, <2>3 DEF AddSwitchIn, ActivityTypeOK
  <2> QED BY <1>3, <2>2, <2>3, InIs
<1>4. ASSUME NEW e \in events, AddSwitchOut(e) PROVE ActivityTypeOK'
  <2>1. events' \subseteq Events /\ e \in Events /\ e.core \in Cores /\ e.time \in Nat
    <3>1. Goes(e, {})
      BY <1>4, OutIs
    <3> QED BY <3>1, EventGoes
  <2>2. CASE UNCHANGED <<utilization, told, boxes>>
    BY <1>4, <2>1, <2>2 DEF AddSwitchOut, ActivityTypeOK
  <2>3. CASE ~UNCHANGED <<utilization, told, boxes>>
    <3>1. /\ e.old \in Threads /\ InsertSwitch(e, "Out")
          /\ \A b \in boxes' :
               \/ b \in boxes
               \/ \E r \in Newest(utilization[e.core]) : b = BoxFrom(e, r)
      BY <1>4, <2>3, OutIs
    <3>2. utilization' \in [Cores -> SUBSET Switches]
      BY <2>1, <3>1, SwitchInserts DEF Types
    <3>3. told' \subseteq [core : Cores, time : Nat, type : Types]
      BY <2>1, <3>1 DEF InsertSwitch, ActivityTypeOK, Types
    <3>4. \A r \in Newest(utilization[e.core]) : BoxFrom(e, r) \in Boxes
      BY <2>1, <3>1 DEF Newest, BoxFrom, Boxes, Switches, ActivityTypeOK
    <3>5. boxes' \subseteq Boxes
      BY <3>1, <3>4 DEF ActivityTypeOK
    <3> QED BY <1>4, <2>1, <3>2, <3>3, <3>5 DEF AddSwitchOut, ActivityTypeOK
  <2> QED BY <2>2, <2>3
<1>5. CASE Collide \/ StartRecording \/ StartTrace \/ StopTrace \/ StopRecording
  BY <1>5 DEF Collide, StartRecording, StartTrace, StopTrace, StopRecording,
              ActivityTypeOK
<1>6. CASE \E t \in Threads : ThreadEvent(t)
  BY <1>6 DEF ThreadEvent, ActivityTypeOK
<1>7. CASE UNCHANGED activityVars
  BY <1>7 DEF activityVars, ActivityTypeOK
<1> QED BY <1>1, <1>2, <1>3, <1>4, <1>5, <1>6, <1>7 DEF ActivityNext

-----------------------------------------------------------------------------
(* The times.                                                              *)

LEMMA PastStep ==
  ActivityTypeOK /\ Past /\ [ActivityNext]_activityVars => Past'
<1> SUFFICES ASSUME ActivityTypeOK, Past, [ActivityNext]_activityVars
             PROVE Past'
  OBVIOUS
<1>1. ASSUME NEW c \in Cores, NEW new \in Threads \cup {Nobody}, Switch(c, new)
      PROVE  Past'
  <2>1. \A d \in Cores : since'[d] <= clock' /\ since[d] <= since'[d]
    BY <1>1, SwitchIs DEF Past, ActivityTypeOK
  <2>2. \A e \in events' : e.since < e.time /\ e.time <= since'[e.core]
    <3> SUFFICES ASSUME NEW e \in events'
                 PROVE  e.since < e.time /\ e.time <= since'[e.core]
      OBVIOUS
    <3>1. CASE e \in events
      <4>1. e.core \in Cores /\ e.time \in Nat
        BY <3>1 DEF ActivityTypeOK, Events
      <4>2. since[e.core] \in Nat /\ since'[e.core] \in Nat
        BY <1>1, <4>1, SwitchIs DEF ActivityTypeOK
      <4> QED BY <2>1, <3>1, <4>1, <4>2 DEF Past
    <3>2. CASE e \notin events
      <4>1. e.core = c /\ e.since = since[c] /\ e.time = clock + 1
        BY <1>1, <3>2, SwitchIs
      <4> QED BY <1>1, <4>1, SwitchIs DEF Past
    <3> QED BY <3>1, <3>2
  <2>3. \A s \in told' : s.time <= since'[s.core]
    <3>1. told' = told /\ since' \in [Cores -> Nat]
      BY <1>1, SwitchIs
    <3> QED BY <2>1, <3>1 DEF Past, ActivityTypeOK
  <2> QED BY <2>1, <2>2, <2>3 DEF Past
<1>2. ASSUME NEW e \in events, NEW s \in {"in", "out"}, NEW steps \in {{}, {s}},
             Goes(e, steps), UNCHANGED <<since, clock>>,
             \A q \in told' \ told : q.core = e.core /\ q.time = e.time
      PROVE  Past'
  <2>1. \A f \in events' : f \in events \/ Same(f, e)
    BY <1>2, EventGoes
  <2> QED BY <1>2, <2>1 DEF Past, Same
<1>3. ASSUME NEW e \in events, Callback(e) PROVE Past'
  BY <1>2, <1>3, CallbackIs
<1>4. ASSUME NEW e \in events, AddSwitchIn(e) PROVE Past'
  <2>1. \A q \in told' \ told : q.core = e.core /\ q.time = e.time
    <3>1. InsertSwitch(e, "In") \/ told' = told
      BY <1>4, InIs
    <3> QED BY <3>1, SwitchTells
  <2> QED BY <1>2, <1>4, <2>1, InIs
<1>5. ASSUME NEW e \in events, AddSwitchOut(e) PROVE Past'
  <2>1. \A q \in told' \ told : q.core = e.core /\ q.time = e.time
    <3>1. InsertSwitch(e, "Out") \/ told' = told
      BY <1>5, OutIs
    <3> QED BY <3>1, SwitchTells
  <2> QED BY <1>2, <1>5, <2>1, OutIs
<1>6. CASE Quiet
  BY <1>6 DEF Quiet, Past
<1> QED BY <1>1, <1>3, <1>4, <1>5, <1>6, QuietSteps DEF ActivityNext

LEMMA ApartStep ==
  ActivityTypeOK /\ Past /\ Apart /\ [ActivityNext]_activityVars => Apart'
<1> SUFFICES ASSUME ActivityTypeOK, Past, Apart, [ActivityNext]_activityVars
             PROVE Apart'
  OBVIOUS
<1>1. ASSUME NEW c \in Cores, NEW new \in Threads \cup {Nobody}, Switch(c, new)
      PROVE  Apart'
  <2>1. \A f, g \in events' :
          f \in events /\ g \notin events /\ f.core = g.core => Before(f, g)
    BY <1>1, SwitchIs DEF Past, Before
  <2> QED BY <1>1, <2>1, SwitchIs DEF Apart
<1>2. ASSUME NEW e \in events, NEW s \in {"in", "out"}, NEW steps \in {{}, {s}},
             Goes(e, steps)
      PROVE  Apart'
  <2> SUFFICES ASSUME NEW f \in events', NEW g \in events', f.core = g.core, f # g
               PROVE  Before(f, g) \/ Before(g, f)
    BY DEF Apart, Before
  <2>1. \/ f \in events /\ f # e
        \/ Same(f, e)
    BY <1>2, EventGoes
  <2>2. \/ g \in events /\ g # e
        \/ Same(g, e)
    BY <1>2, EventGoes
  <2>3. (f \in events /\ f # e) \/ (g \in events /\ g # e)
    BY <1>2, EventGoes
  <2>4. CASE f \in events /\ f # e /\ g \in events
    BY <2>4 DEF Apart
  <2>5. CASE f \in events /\ f # e /\ Same(g, e)
    BY <2>5 DEF Apart, Before, Same
  <2>6. CASE g \in events /\ g # e /\ Same(f, e)
    BY <2>6 DEF Apart, Before, Same
  <2> QED BY <2>1, <2>2, <2>3, <2>4, <2>5, <2>6
<1>3. ASSUME NEW e \in events, Callback(e) PROVE Apart'
  BY <1>2, <1>3, CallbackIs
<1>4. ASSUME NEW e \in events, AddSwitchIn(e) PROVE Apart'
  BY <1>2, <1>4, InIs
<1>5. ASSUME NEW e \in events, AddSwitchOut(e) PROVE Apart'
  BY <1>2, <1>5, OutIs
<1>6. CASE Quiet
  BY <1>6 DEF Quiet, Apart
<1> QED BY <1>1, <1>3, <1>4, <1>5, <1>6, QuietSteps DEF ActivityNext

LEMMA GapsStep ==
  ASSUME ActivityTypeOK, Past, Apart, Gaps, [ActivityNext]_activityVars
  PROVE  Gaps'
<1>1. ASSUME NEW c \in Cores, NEW new \in Threads \cup {Nobody}, Switch(c, new)
      PROVE  Gaps'
  <2>1. told' = told
    BY <1>1, SwitchIs
  <2>2. \A e \in events' : e \in events \/ (e.core = c /\ e.since = since[c])
    BY <1>1, SwitchIs
  <2> QED BY <2>1, <2>2 DEF Gaps, Past, Outside
<1>2. ASSUME NEW e \in events, NEW s \in {"in", "out"}, NEW steps \in {{}, {s}},
             Goes(e, steps), e.step = "out" => steps = {},
             \/ told' = told
             \/ \E type \in Types :
                  /\ told' = told \cup {[core |-> e.core, time |-> e.time,
                                         type |-> type]}
                  /\ steps # {} => type = "In" /\ s = "out"
      PROVE  Gaps'
  <2> SUFFICES ASSUME NEW f \in events', NEW q \in told', q.core = f.core
               PROVE  Outside(q, f)
    BY DEF Gaps, Outside
  <2>1. /\ e.time \in Nat /\ e.since \in Nat /\ e.since < e.time
        /\ \/ f \in events /\ f # e
           \/ steps = {s} /\ f.step = s /\ Same(f, e)
    <3>1. e.time \in Nat /\ e.since \in Nat /\ e.since < e.time
      <4>1. e \in Events
        BY DEF ActivityTypeOK
      <4>2. e.time \in Nat /\ e.since \in Nat
        BY <4>1 DEF Events
      <4>3. e.since < e.time
        BY DEF Past
      <4> QED BY <4>2, <4>3
    <3>2. \/ f \in events /\ f # e
          \/ steps = {s} /\ f.step = s /\ Same(f, e)
      BY <1>2, EventGoes
    <3> QED BY <3>1, <3>2
  <2>2. q \in told \/ /\ q.core = e.core /\ q.time = e.time
                      /\ steps # {} => q.type = "In" /\ s = "out"
    BY <1>2
  <2>3. CASE q \in told /\ f \in events
    BY <2>3 DEF Gaps
  <2>4. CASE q \in told /\ steps = {s} /\ f.step = s /\ Same(f, e)
    <3>1. Outside(q, e) /\ e.step # "out"
      BY <1>2, <2>4 DEF Gaps, Same
    <3> QED BY <2>4, <3>1 DEF Outside, Same
  <2>5. CASE q.core = e.core /\ q.time = e.time /\ f \in events /\ f # e
    <3>1. Before(f, e) \/ Before(e, f)
      BY <2>5 DEF Apart
    <3>2. f.time \in Nat /\ f.since \in Nat
      BY <2>5 DEF ActivityTypeOK, Events
    <3> QED BY <2>1, <2>5, <3>1, <3>2 DEF Before, Outside
  <2>6. CASE /\ q.time = e.time /\ steps = {s} /\ f.step = s /\ Same(f, e)
             /\ q.type = "In" /\ s = "out"
    BY <2>6 DEF Outside, Same
  <2> QED BY <2>1, <2>2, <2>3, <2>4, <2>5, <2>6
<1>3. ASSUME NEW e \in events, Callback(e) PROVE Gaps'
  <2>1. e.step = "buffered" /\ told' = told
    BY <1>3 DEF Callback, graph
  <2>2. PICK steps \in {{}, {"in"}} : Goes(e, steps)
    BY <1>3, CallbackIs
  <2> QED BY <1>2, <2>1, <2>2
<1>4. ASSUME NEW e \in events, AddSwitchIn(e) PROVE Gaps'
  <2>1. /\ e.step = "in" /\ Goes(e, {"out"})
        /\ \/ told' = told
           \/ told' = told \cup {[core |-> e.core, time |-> e.time, type |-> "In"]}
    BY <1>4, InIs DEF InsertSwitch
  <2> QED BY <1>2, <2>1 DEF Types
<1>5. ASSUME NEW e \in events, AddSwitchOut(e) PROVE Gaps'
  <2>1. /\ e.step = "out" /\ Goes(e, {})
        /\ \/ told' = told
           \/ told' = told \cup {[core |-> e.core, time |-> e.time, type |-> "Out"]}
    BY <1>5, OutIs DEF InsertSwitch
  <2> QED BY <1>2, <2>1 DEF Types
<1>6. CASE Quiet
  BY <1>6 DEF Quiet, Gaps, Outside
<1> QED BY <1>1, <1>3, <1>4, <1>5, <1>6, QuietSteps DEF ActivityNext

-----------------------------------------------------------------------------
(* The map of a core, and the ends of its boxes.                           *)

LEMMA MappedStep ==
  ASSUME ActivityTypeOK, Past, Gaps, Mapped, [ActivityNext]_activityVars
  PROVE  Mapped'
<1>1. CASE UNCHANGED <<utilization, told>>
  BY <1>1 DEF Mapped
<1>2. ASSUME NEW c \in Cores, NEW new \in Threads \cup {Nobody}, Switch(c, new)
      PROVE  Mapped'
  BY <1>1, <1>2, SwitchIs
<1>3. ASSUME NEW e \in events, NEW type \in Types, InsertSwitch(e, type),
             type = "In" => e.step = "in"
      PROVE  Mapped'
  <2> DEFINE s == [time |-> e.time, type |-> type]
             q == [core |-> e.core, time |-> e.time, type |-> type]
  <2>1. /\ e \in Events /\ e.core \in Cores /\ e.time \in Nat /\ e.since \in Nat
        /\ e.since < e.time
    BY DEF ActivityTypeOK, Events, Past
  <2>2. told' = told \cup {q} /\ q.core = e.core /\ q.time = e.time /\ q.type = type
    BY <1>3 DEF InsertSwitch
  <2>3. s.time = e.time /\ Named(e.core, s) = q
    BY DEF Named
  <2>4. type = "In" => s = SwitchIn(e.time)
    BY DEF SwitchIn
  <2> HIDE DEF s, q
  <2>5. /\ \A c \in Cores : utilization[c] \subseteq utilization'[c]
        /\ \A c \in Cores : c # e.core => utilization'[c] = utilization[c]
        /\ utilization'[e.core] \subseteq utilization[e.core] \cup {s}
        /\ \E r \in utilization'[e.core] : r.time = e.time
        /\ (\A r \in utilization[e.core] : r.time # e.time) =>
             s \in utilization'[e.core]
    BY <1>3, <2>1, SwitchInserts DEF s
  <2>6. \A c \in Cores : \A r \in utilization'[c] : Named(c, r) \in told'
    BY <2>2, <2>3, <2>5 DEF Mapped
  <2>7. \A p \in told : p.core \in Cores
    BY DEF ActivityTypeOK
  <2>8. \A p \in told' : \E r \in utilization'[p.core] : r.time = p.time
    BY <2>1, <2>2, <2>5, <2>7 DEF Mapped
  <2>9. \A p \in told' : p.type = "In" => SwitchIn(p.time) \in utilization'[p.core]
    <3>1. ASSUME type = "In" PROVE SwitchIn(e.time) \in utilization'[e.core]
      <4>1. \A p \in told : p.core = e.core => p.time # e.time
        BY <1>3, <2>1, <3>1 DEF Gaps, Outside
      <4>2. \A r \in utilization[e.core] : r.time # e.time
        <5> SUFFICES ASSUME NEW r \in utilization[e.core] PROVE r.time # e.time
          OBVIOUS
        <5>1. Named(e.core, r) \in told
          BY <2>1 DEF Mapped
        <5>2. Named(e.core, r).core = e.core /\ Named(e.core, r).time = r.time
          BY DEF Named
        <5> QED BY <4>1, <5>1, <5>2
      <4> QED BY <2>4, <2>5, <3>1, <4>2
    <3> QED BY <2>2, <2>5, <2>7, <3>1 DEF Mapped
  <2> QED BY <2>6, <2>8, <2>9 DEF Mapped
<1>4. ASSUME NEW e \in events, Callback(e) PROVE Mapped'
  BY <1>1, <1>4, CallbackIs
<1>5. ASSUME NEW e \in events, AddSwitchIn(e) PROVE Mapped'
  BY <1>1, <1>3, <1>5, InIs DEF Types
<1>6. ASSUME NEW e \in events, AddSwitchOut(e) PROVE Mapped'
  BY <1>1, <1>3, <1>6, OutIs DEF Types
<1>7. CASE Quiet
  BY <1>1, <1>7 DEF Quiet
<1> QED BY <1>2, <1>4, <1>5, <1>6, <1>7, QuietSteps DEF ActivityNext

LEMMA EndedStep ==
  ASSUME ActivityTypeOK, Ended, [ActivityNext]_activityVars
  PROVE  Ended'
<1>1. ASSUME boxes' \subseteq boxes,
             \A c \in Cores : utilization[c] \subseteq utilization'[c]
      PROVE  Ended'
  BY <1>1 DEF Ended, ActivityTypeOK, Boxes
<1>2. ASSUME NEW c \in Cores, NEW new \in Threads \cup {Nobody}, Switch(c, new)
      PROVE  Ended'
  BY <1>1, <1>2, SwitchIs
<1>3. ASSUME NEW e \in events, Callback(e) PROVE Ended'
  BY <1>1, <1>3, CallbackIs
<1>4. ASSUME NEW e \in events, AddSwitchIn(e) PROVE Ended'
  <2>1. e \in Events
    BY DEF ActivityTypeOK
  <2>2. \A c \in Cores : utilization[c] \subseteq utilization'[c]
    BY <1>4, <2>1, InIs, SwitchInserts DEF Types
  <2> QED BY <1>1, <1>4, <2>2, InIs
<1>5. ASSUME NEW e \in events, AddSwitchOut(e) PROVE Ended'
  <2>1. e \in Events /\ e.core \in Cores /\ e.time \in Nat
    BY DEF ActivityTypeOK, Events
  <2>2. CASE UNCHANGED <<utilization, boxes>>
    BY <1>1, <2>2
  <2>3. CASE ~UNCHANGED <<utilization, boxes>>
    <3>1. /\ InsertSwitch(e, "Out")
          /\ \A b \in boxes' :
               \/ b \in boxes
               \/ \E r \in Newest(utilization[e.core]) : b = BoxFrom(e, r)
      BY <1>5, <2>3, OutIs
    <3>2. /\ \A c \in Cores : utilization[c] \subseteq utilization'[c]
          /\ \E r \in utilization'[e.core] : r.time = e.time
      BY <2>1, <3>1, SwitchInserts DEF Types
    <3>3. ASSUME NEW b \in boxes
          PROVE  \E r \in utilization'[b.core] : b.end <= r.time
      BY <3>2 DEF Ended, ActivityTypeOK, Boxes
    <3>4. ASSUME NEW r PROVE BoxFrom(e, r).core = e.core /\ BoxFrom(e, r).end = e.time
      BY DEF BoxFrom
    <3> QED BY <2>1, <3>1, <3>2, <3>3, <3>4 DEF Ended
  <2> QED BY <2>2, <2>3
<1>6. CASE Quiet
  BY <1>1, <1>6 DEF Quiet
<1> QED BY <1>2, <1>3, <1>4, <1>5, <1>6, QuietSteps DEF ActivityNext

\* Newest is what it says.
LEMMA NewestIsLast ==
  ASSUME NEW map, NEW r \in Newest(map), NEW s \in map
  PROVE  s.time <= r.time
BY DEF Newest

LEMMA DisjointStep ==
  ASSUME ActivityTypeOK, Ended, BoxesDisjoint, [ActivityNext]_activityVars
  PROVE  BoxesDisjoint'
<1>1. CASE boxes' \subseteq boxes
  BY <1>1 DEF BoxesDisjoint
<1>2. ASSUME NEW c \in Cores, NEW new \in Threads \cup {Nobody}, Switch(c, new)
      PROVE  BoxesDisjoint'
  BY <1>1, <1>2, SwitchIs
<1>3. ASSUME NEW e \in events, Callback(e) PROVE BoxesDisjoint'
  BY <1>1, <1>3, CallbackIs
<1>4. ASSUME NEW e \in events, AddSwitchIn(e) PROVE BoxesDisjoint'
  BY <1>1, <1>4, InIs
<1>5. ASSUME NEW e \in events, AddSwitchOut(e) PROVE BoxesDisjoint'
  <2> DEFINE map == utilization[e.core]
  <2>1. /\ e \in Events /\ e.core \in Cores /\ e.time \in Nat
        /\ map \in SUBSET Switches
    BY DEF ActivityTypeOK, Events
  <2>2. \A b \in boxes' :
          \/ b \in boxes
          \/ \E r \in Newest(map) : r.type = "In" /\ b = BoxFrom(e, r)
    BY <1>5, OutIs
  <2>3. \A r \in Newest(map) : r \in map /\ r.time \in Nat
    BY <2>1 DEF Newest, Switches
  <2>4. ASSUME NEW a \in boxes, NEW r \in Newest(map), a.core = e.core
        PROVE  a.end <= BoxFrom(e, r).start
    <3>1. PICK s \in map : a.end <= s.time
      BY <2>4 DEF Ended
    <3>2. s.time <= r.time
      BY <3>1, NewestIsLast
    <3>3. a.end \in Nat /\ s.time \in Nat /\ r.time \in Nat
      BY <2>1, <2>3, <3>1 DEF ActivityTypeOK, Boxes, Switches
    <3> QED BY <3>1, <3>2, <3>3 DEF BoxFrom
  <2>5. ASSUME NEW r \in Newest(map), NEW s \in Newest(map)
        PROVE  BoxFrom(e, r) = BoxFrom(e, s)
    BY <2>3, NewestIsLast DEF BoxFrom
  <2>6. \A r : BoxFrom(e, r).core = e.core
    BY DEF BoxFrom
  <2> SUFFICES ASSUME NEW a \in boxes', NEW b \in boxes', a # b, a.core = b.core,
                      a.start <= a.end, b.start <= b.end
               PROVE  a.end <= b.start \/ b.end <= a.start
    BY DEF BoxesDisjoint
  <2>7. CASE a \in boxes /\ b \in boxes
    BY <2>7 DEF BoxesDisjoint
  <2>8. CASE a \in boxes /\ b \notin boxes
    BY <2>2, <2>4, <2>6, <2>8
  <2>9. CASE a \notin boxes /\ b \in boxes
    BY <2>2, <2>4, <2>6, <2>9
  <2>10. CASE a \notin boxes /\ b \notin boxes
    BY <2>2, <2>5, <2>10
  <2> QED BY <2>7, <2>8, <2>9, <2>10
<1>6. CASE Quiet
  BY <1>1, <1>6 DEF Quiet
<1> QED BY <1>2, <1>3, <1>4, <1>5, <1>6, QuietSteps DEF ActivityNext

-----------------------------------------------------------------------------
(* The boxes are the runs.                                                 *)

\* The newest switch of the core when a run ends: a later one if there was one,
\* and else the hand-over, the beginning of the run or an older one.
LEMMA StartsFrom ==
  ASSUME ActivityTypeOK, Past, Gaps, Mapped, NEW e \in events
  PROVE  LET c == e.core
             newest == Newest(utilization[c])
             late == \E s \in told : s.core = c /\ s.time > e.time
         IN
         /\ \A r \in newest : r.time \in Nat
         /\ late => \A r \in newest : r.time > e.time
         /\ ~late /\ IsTold(c, e.time) =>
              /\ SwitchIn(e.time) \in newest
              /\ \A r \in newest : r.time = e.time
         /\ ~late /\ ~IsTold(c, e.time) /\ IsTold(c, e.since) =>
              /\ SwitchIn(e.since) \in newest
              /\ \A r \in newest : r.time = e.since
         /\ ~late /\ ~IsTold(c, e.time) /\ ~IsTold(c, e.since) =>
              \A r \in newest : r.type = "In" => r.time < e.since
<1> DEFINE c == e.core
           map == utilization[c]
           newest == Newest(map)
           late == \E s \in told : s.core = c /\ s.time > e.time
<1>1. /\ c \in Cores /\ e.time \in Nat /\ e.since \in Nat /\ e.since < e.time
      /\ map \in SUBSET Switches
  BY DEF ActivityTypeOK, Events, Past
<1>2. \A r \in map : r.time \in Nat /\ r.type \in Types /\ r = [time |-> r.time, type |-> r.type]
  BY <1>1 DEF Switches
<1>3. \A r \in newest : r \in map /\ \A s \in map : s.time <= r.time
  BY DEF Newest
<1>4. \A t : SwitchIn(t).time = t /\ SwitchIn(t).type = "In"
  BY DEF SwitchIn
<1>5. \A t : IsTold(c, t) => SwitchIn(t) \in map
  <2> SUFFICES ASSUME NEW t, IsTold(c, t) PROVE SwitchIn(t) \in map
    OBVIOUS
  <2> DEFINE s == [core |-> c, time |-> t, type |-> "In"]
  <2>1. s \in told
    BY DEF IsTold
  <2>2. s.core = c /\ s.time = t /\ s.type = "In"
    OBVIOUS
  <2> HIDE DEF s
  <2> QED BY <2>1, <2>2 DEF Mapped
<1>6. \A r \in map : r.type = "In" => IsTold(c, r.time)
  BY <1>1 DEF Mapped, Named, IsTold
<1>7. late => \E r \in map : r.time > e.time
  <2> SUFFICES ASSUME NEW s \in told, s.core = c, s.time > e.time
               PROVE  \E r \in map : r.time > e.time
    OBVIOUS
  <2>1. \E r \in map : r.time = s.time
    BY DEF Mapped
  <2> QED BY <2>1
<1>8. ~late => \A r \in map :
        r.time <= e.since \/ (r.time = e.time /\ r.type = "In")
  <2> SUFFICES ASSUME ~late, NEW r \in map
               PROVE  r.time <= e.since \/ (r.time = e.time /\ r.type = "In")
    OBVIOUS
  <2> DEFINE s == Named(c, r)
  <2>1. s \in told /\ s.core = c /\ s.time = r.time /\ s.type = r.type
    BY <1>1 DEF Mapped, Named
  <2> HIDE DEF s
  <2>2. ~(s.time > e.time) /\ Outside(s, e)
    BY <2>1 DEF Gaps
  <2> QED BY <2>1, <2>2 DEF Outside
<1> HIDE DEF map, newest, late
<1>9. ASSUME NEW t \in Nat, SwitchIn(t) \in map, \A r \in map : r.time <= t
      PROVE  SwitchIn(t) \in newest /\ \A r \in newest : r.time = t
  <2>1. SwitchIn(t) \in newest
    BY <1>4, <1>9 DEF Newest, newest
  <2>2. \A r \in newest : r.time <= t /\ t <= r.time /\ r.time \in Nat
    BY <1>2, <1>3, <1>4, <1>9
  <2> QED BY <2>1, <2>2
<1>10. \A r \in newest : r.time \in Nat
  BY <1>2, <1>3
<1>11. late => \A r \in newest : r.time > e.time
  <2> SUFFICES ASSUME late, NEW r \in newest PROVE r.time > e.time
    OBVIOUS
  <2>1. PICK s \in map : s.time > e.time
    BY <1>7
  <2>2. s.time <= r.time /\ s.time \in Nat /\ r.time \in Nat
    BY <1>2, <1>3, <2>1
  <2> QED BY <1>1, <2>1, <2>2
<1>12. ~late /\ IsTold(c, e.time) =>
         SwitchIn(e.time) \in newest /\ \A r \in newest : r.time = e.time
  <2> SUFFICES ASSUME ~late, IsTold(c, e.time)
               PROVE  SwitchIn(e.time) \in newest /\ \A r \in newest : r.time = e.time
    OBVIOUS
  <2>1. \A r \in map : r.time <= e.time
    BY <1>1, <1>2, <1>8
  <2> QED BY <1>1, <1>5, <1>9, <2>1
<1>13. ~late /\ ~IsTold(c, e.time) => \A r \in map : r.time <= e.since
  BY <1>6, <1>8
<1>14. ~late /\ ~IsTold(c, e.time) /\ IsTold(c, e.since) =>
         SwitchIn(e.since) \in newest /\ \A r \in newest : r.time = e.since
  BY <1>1, <1>5, <1>9, <1>13
<1>15. ~late /\ ~IsTold(c, e.time) /\ ~IsTold(c, e.since) =>
         \A r \in newest : r.type = "In" => r.time < e.since
  <2> SUFFICES ASSUME ~late, ~IsTold(c, e.time), ~IsTold(c, e.since),
                      NEW r \in newest, r.type = "In"
               PROVE  r.time < e.since
    OBVIOUS
  <2>1. r \in map /\ r.time \in Nat /\ r.time <= e.since
    BY <1>2, <1>3, <1>13
  <2>2. r.time # e.since
    BY <1>6, <2>1
  <2> QED BY <1>1, <2>1, <2>2
<1> QED BY <1>10, <1>11, <1>12, <1>14, <1>15 DEF newest, map, late

LEMMA RunsStep ==
  ASSUME ActivityTypeOK, Past, Gaps, Mapped, BoxesAreRuns,
         [ActivityNext]_activityVars
  PROVE  BoxesAreRuns'
<1> USE DEF world, control, graph
<1>1. CASE UNCHANGED <<boxes, ran>>
  BY <1>1 DEF BoxesAreRuns
<1>2. ASSUME NEW c \in Cores, NEW new \in Threads \cup {Nobody}, Switch(c, new)
      PROVE  BoxesAreRuns'
  BY <1>1, <1>2 DEF Switch
<1>3. ASSUME NEW e \in events, Callback(e) PROVE BoxesAreRuns'
  BY <1>1, <1>3 DEF Callback
<1>4. ASSUME NEW e \in events, AddSwitchIn(e) PROVE BoxesAreRuns'
  BY <1>1, <1>4, InIs
<1>5. ASSUME NEW e \in events, AddSwitchOut(e) PROVE BoxesAreRuns'
  <2> DEFINE BoxOf(r) == [core |-> r.core, thread |-> r.thread, end |-> r.out,
                          start |-> IF r.handed THEN r.out ELSE r.in]
             Ends(b, r) ==
               /\ r.core = b.core /\ r.thread = b.thread /\ r.out = b.end
               /\ \/ b.start = IF r.handed THEN r.out ELSE r.in
                  \/ b.start < r.in /\ ~r.begun
                  \/ b.start > r.out /\ r.late
             x == Run(e)
             newest == Newest(utilization[e.core])
  <2>1. CASE UNCHANGED <<boxes, ran>>
    BY <1>1, <2>1
  <2>2. CASE ~UNCHANGED <<boxes, ran>>
    <3>1. ran' = ran \cup {x}
      BY <1>5, <2>2, OutIs
    <3>2. \A b : b \in boxes' <=>
            \/ b \in boxes
            \/ isRecording /\ \E r \in newest : r.type = "In" /\ b = BoxFrom(e, r)
      BY <1>5, <2>2, OutIs
    <3>3. /\ x.core = e.core /\ x.thread = e.old /\ x.in = e.since
          /\ x.out = e.time /\ x.recorded = isRecording
          /\ x.begun = IsTold(e.core, e.since)
          /\ x.handed = IsTold(e.core, e.time)
          /\ x.late = \E s \in told : s.core = e.core /\ s.time > e.time
      BY DEF Run
    <3>4. \A r : LET b == BoxFrom(e, r) IN
            /\ b.core = e.core /\ b.thread = e.old
            /\ b.start = r.time /\ b.end = e.time
      BY DEF BoxFrom
    <3> HIDE DEF x, newest
    <3>5. /\ \A r \in newest : r.time \in Nat
          /\ x.late => \A r \in newest : r.time > e.time
          /\ ~x.late /\ x.handed =>
               /\ SwitchIn(e.time) \in newest
               /\ \A r \in newest : r.time = e.time
          /\ ~x.late /\ ~x.handed /\ x.begun =>
               /\ SwitchIn(e.since) \in newest
               /\ \A r \in newest : r.time = e.since
          /\ ~x.late /\ ~x.handed /\ ~x.begun =>
               \A r \in newest : r.type = "In" => r.time < e.since
      BY <3>3, StartsFrom DEF newest
    <3>6. ASSUME x.recorded, x.begun, ~x.late PROVE BoxOf(x) \in boxes'
      <4> DEFINE t == IF x.handed THEN e.time ELSE e.since
      <4>1. SwitchIn(t) \in newest /\ SwitchIn(t).type = "In"
        BY <3>5, <3>6 DEF SwitchIn
      <4>2. BoxOf(x) = BoxFrom(e, SwitchIn(t))
        BY <3>3 DEF BoxFrom, SwitchIn
      <4> HIDE DEF t, BoxOf
      <4> QED BY <3>2, <3>3, <3>6, <4>1, <4>2
    <3>7. ASSUME NEW r \in newest, r.type = "In" PROVE Ends(BoxFrom(e, r), x)
      BY <3>3, <3>4, <3>5, <3>7
    <3> HIDE DEF Ends, BoxOf
    <3>8. \A r \in ran : r.recorded /\ r.begun /\ ~r.late => BoxOf(r) \in boxes
      BY DEF BoxesAreRuns, BoxOf
    <3>9. \A b \in boxes : \E r \in ran : Ends(b, r)
      BY DEF BoxesAreRuns, Ends
    <3>10. \A r \in ran' : r.recorded /\ r.begun /\ ~r.late => BoxOf(r) \in boxes'
      BY <3>1, <3>2, <3>6, <3>8
    <3>11. \A b \in boxes' : \E r \in ran' : Ends(b, r)
      BY <3>1, <3>2, <3>7, <3>9
    <3> QED BY <3>10, <3>11 DEF BoxesAreRuns, BoxOf, Ends
  <2> QED BY <2>1, <2>2
<1>6. CASE StartRecording
  BY <1>6 DEF StartRecording, BoxesAreRuns
<1>7. CASE Collide \/ StartTrace \/ StopTrace \/ StopRecording
  BY <1>1, <1>7 DEF Collide, StartTrace, StopTrace, StopRecording
<1>8. CASE \E t \in Threads : ThreadEvent(t)
  BY <1>1, <1>8 DEF ThreadEvent
<1>9. CASE UNCHANGED activityVars
  BY <1>1, <1>9 DEF activityVars
<1> QED BY <1>2, <1>3, <1>4, <1>5, <1>6, <1>7, <1>8, <1>9 DEF ActivityNext

-----------------------------------------------------------------------------
(* The invariant.                                                          *)

ActivityInv == /\ ActivityTypeOK /\ Past /\ Apart /\ Gaps /\ Mapped
               /\ Ended /\ BoxesDisjoint

LEMMA ActivityStarts == ActivityInit => ActivityInv
<1> SUFFICES ASSUME ActivityInit PROVE ActivityInv
  OBVIOUS
<1>1. ActivityTypeOK
  BY DEF ActivityInit, ActivityTypeOK
<1>2. Past /\ Apart /\ Gaps
  BY DEF ActivityInit, Past, Apart, Gaps
<1>3. Mapped /\ Ended /\ BoxesDisjoint
  BY DEF ActivityInit, Mapped, Ended, BoxesDisjoint
<1> QED BY <1>1, <1>2, <1>3 DEF ActivityInv

\* The invariant holds of every behaviour.
THEOREM ActivityInvariant == ActivitySpec => []ActivityInv
<1>1. ActivityInv /\ [ActivityNext]_activityVars => ActivityInv'
  BY TypeStep, PastStep, ApartStep, GapsStep, MappedStep, EndedStep, DisjointStep
  DEF ActivityInv
<1> QED BY ActivityStarts, <1>1, PTL DEF ActivitySpec

\* The boxes of a core never overlap, but for those that are upside down: each
\* starts at the newest switch of the map, and leaves its end there
\* (TimeGraph.cpp:270-316).
THEOREM DisjointBoxes == ActivitySpec => []BoxesDisjoint
<1>1. ActivityInv => BoxesDisjoint
  BY DEF ActivityInv
<1> QED BY <1>1, ActivityInvariant, PTL

\* Every run that the graph was told of before any later switch of its core
\* becomes the box it was, and no box is made that is not of a run or of its
\* end, or is upside down because a later switch was told (TimeGraph.cpp:270-316).
THEOREM RunsBoxed == ActivitySpec => []BoxesAreRuns
<1>1. ActivityInit => BoxesAreRuns
  BY DEF ActivityInit, BoxesAreRuns
<1>2. ActivityInv /\ BoxesAreRuns /\ [ActivityNext]_activityVars => BoxesAreRuns'
  BY RunsStep DEF ActivityInv
<1> QED BY <1>1, <1>2, ActivityInvariant, PTL DEF ActivitySpec

-----------------------------------------------------------------------------
(* The two parts together.                                                 *)

\* The time graph runs its chain and its core time line, or leaves them alone.
THEOREM RunsBoth == MCSpec => Spec /\ ActivitySpec
<1>1. MCInit => Init /\ ActivityInit
  BY DEF MCInit
<1>2. [MCNext]_<<part, vars, activityVars>> => [Next]_vars
  BY DEF MCNext
<1>3. [MCNext]_<<part, vars, activityVars>> => [ActivityNext]_activityVars
  BY DEF MCNext
<1> QED BY <1>1, <1>2, <1>3, PTL DEF MCSpec, Spec, ActivitySpec

\* In the time graph the boxes of a core never overlap, whichever threads of
\* whichever traces tell it of the switches, and in whatever order; a box that
\* is upside down covers no time (TimeGraph.cpp:270-316).
THEOREM Disjoint == MCSpec => []BoxesDisjoint
BY RunsBoth, DisjointBoxes, PTL

\* In the time graph every run that it was told of before any later switch of
\* the core is given to the timer queue as it was; every other box ends with a
\* run and starts before it, or is upside down (TimeGraph.cpp:270-316).
THEOREM Runs == MCSpec => []BoxesAreRuns
BY RunsBoth, RunsBoxed, PTL
===============================================================================
