------------------------------ MODULE HDLThread ------------------------------
(***************************************************************************)
(* plugins/hdl/HDLThread.cpp: the code of the switch over the states of a  *)
(* thread, generated from the paths SplitCFG found.                        *)
(***************************************************************************)
EXTENDS SplitCFG, ThreadCode

isContinueorBreak(t) == t \in {"break", "continue"}

\* The literal HDLBody makes of the first argument of a wait: 0 when it cannot
\* be evaluated.
GetWaitArg(e) == IF e.n = Runtime THEN 0 ELSE e.n

\* The elements of a block.  Every call of wait becomes a state change, also
\* one with two arguments, whose block has no next state but 0.
BlockCode(blk) ==
  [j \in DOMAIN blk.elements |->
     IF blk.elements[j].op = "wait" 
       THEN WaitNode(blk.elements[j], GetWaitArg(blk.elements[j]), blk.nextState)
       ELSE Exec(blk.elements[j])]

\* What a generator step leaves: the code, pathnodevisited and whether every
\* index it used was inside the path.
Generated(code, visited, inPath) ==
  [code |-> code, visited |-> visited, inPath |-> inPath]

RECURSIVE ProcessSplitGraphGroup(_, _, _, _, _)

\* Mutant: one block too many.
FalseLengthPlusOne(t, k, x) ==
  IF x \in DOMAIN t.info[k] THEN Len(t.info[k][x].falsePath) + 1 ELSE 0

\* GetFalseLength: 0 for a block without an entry in the state's path info.
GetFalseLength(t, k, x) ==
  IF x \in DOMAIN t.info[k] THEN Len(t.info[k][x].falsePath) ELSE 0

(***************************************************************************)
(* ProcessSplitGraphBlock at index ix (from 0) of the path of state k - 1. *)
(* t is a translation: c the CFG, blocks the split blocks, paths and info, *)
(* cop the confluence blocks and skip the blocks to skip.                  *)
(* A block that ends its CFG block's way with a terminator yields the test *)
(* and its branches and nothing else.  One ended by a conditional operator *)
(* yields nothing: the rest of the path is marked as visited where it is   *)
(* to be skipped, provided the operator has a confluence block.  For && or *)
(* || no condition is generated.                                           *)
(***************************************************************************)
Skipped(t, k, ix, x) ==
  IF x \notin DOMAIN t.cop THEN {}
  ELSE {i \in ix .. Len(t.paths[k]) - 1 :
          t.paths[k][i + 1].block \in t.skip \ {t.cop[x]}}

ProcessSplitGraphBlock(t, k, ix, visited) ==
  LET e      == t.paths[k][ix + 1]
      blk    == t.blocks[e.block]
      term   == t.c.term[blk.block]
      true   == ProcessSplitGraphGroup(t, k, ix + 1, e.falseIdx - (ix + 1), visited)
      false  == IF e.falseIdx = 0 THEN Generated(<<>>, true.visited, TRUE)
                ELSE ProcessSplitGraphGroup(t, k, e.falseIdx,
                                            GetFalseLength(t, k, e.block), true.visited)
  IN  IF term = "none" \/ blk.hasWait THEN Generated(BlockCode(blk), visited, TRUE)
      ELSE IF isContinueorBreak(term) /\ blk.elements = <<>>
        THEN Generated(<<>>, visited, TRUE)
      ELSE IF term = "ternary"
        THEN Generated(<<>>, visited \cup Skipped(t, k, ix, e.block), TRUE)
      ELSE Generated(IF isContinueorBreak(term) \/ term = "logical" THEN true.code \o false.code
                     ELSE << IfNode(Last(t.c.elems[blk.block]), true.code, false.code) >>,
                     false.visited, true.inPath /\ false.inPath)

\* The num blocks from index start on, skipping what was already generated.
ProcessSplitGraphGroup(t, k, start, num, visited) ==
  IF num <= 0 THEN Generated(<<>>, visited, TRUE)
  ELSE IF start >= Len(t.paths[k]) THEN Generated(<<>>, visited, FALSE)
  ELSE LET here == IF start \in visited THEN Generated(<<>>, visited, TRUE)
                   ELSE ProcessSplitGraphBlock(t, k, start, visited \cup {start})
           rest == ProcessSplitGraphGroup(t, k, start + 1, num - 1, here.visited)
       IN  Generated(here.code \o rest.code, rest.visited, here.inPath /\ rest.inPath)

\* The constructor's loop: one switch case for every path.
SwitchCases(t) ==
  [k \in DOMAIN t.paths |-> ProcessSplitGraphGroup(t, k, 0, Len(t.paths[k]), {})]
=============================================================================
