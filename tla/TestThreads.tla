---------------------------- MODULE TestThreads ----------------------------
(***************************************************************************)
(* The threads of tests/cfg and the paths those tests expect.  Each name   *)
(* is the test's; its input is tests/data/<name>-input.cpp.                *)
(***************************************************************************)
EXTENDS PathGeneration

Clang == INSTANCE ClangCFG

S == <<"stmt">>
W == <<"wait", 0, 0>>
Wn(n) == <<"wait", 1, n>>
If(t, e) == <<"if", t, e>>
For(b) == <<"for", b>>
Forever(b) == <<"forever", b>>
Break == <<"break">>

Threads == [
  for_if_wait   |-> <<S, Forever(<<S, W, For(<<S, If(<<W>>, <<Wn(2)>>)>>), S>>)>>,
  for_stmt_wait |-> <<S, W, Forever(<<S, W, For(<<S, W>>), S>>)>>,
  for_break0    |-> <<S, W, Forever(<<S, For(<<S, If(<<S, W>>, <<S, Break, S>>),
                                            S, W, S>>), S, W, S>>)>>,
  for_break1    |-> <<S, Forever(<<S, For(<<S, If(<<S, Break, S>>, <<>>)>>), S, W, S>>)>>,
  for_break_wait |-> <<S, Forever(<<S, W, For(<<S, W, S, If(<<S, W, S, Break>>, <<>>)>>), S>>)>>,
  for_break_nested2 |->
    <<S, Forever(<<S, For(<<If(<<S, For(<<If(<<S, Break>>, <<S>>)>>)>>, <<S>>), S>>),
                   S, W, S>>)>>]

Cfg == [t \in DOMAIN Threads |-> Clang!buildCFG(Threads[t])]
TestCFGs == {Cfg[t] : t \in DOMAIN Threads}

ExpectedPaths == [
  for_if_wait   |-> << <<11,10,9,8,81>>, <<82,7,6,5,4,2,1,9,8,81>>,
                       <<3,7,6,5,4,2,1,9,8,81>>, <<3,7,6,5,4,2,1,9,8,81>> >>,
  for_stmt_wait |-> << <<9,8,81>>, <<7,6,61>>, <<62,5,4,41,2,1,7,6,61>>,
                       <<3,5,4,41,2,1,7,6,61>> >>,
  for_break0    |-> << <<13,12,121>>, <<11,10,9,8,7,71,6,2,21,2,21>>, <<4,41>>,
                       <<22,1,11,10,9,8,7,71,6,2,21,2,21>>, <<42,3,9,8,7,71,6,2,21,2,21>> >>,
  for_break1    |-> << <<11,10,9,8,7,6,5,2,21,3,2,21>>, <<22,1,9,8,7,6,5,2,21,3,2,21>> >>,
  for_break_wait |-> << <<10,9,8,7,71>>, <<72,6,5,51,2,1,8,7,71>>,
                        <<52,4,41,3,6,5,51,2,1,8,7,71>>, <<42,2,1,8,7,71>> >>,
  for_break_nested2 |->
    << <<17,16,15,14,13,12,11,10,9,8,4,3,7,6,4,3,5,4,3,2,21>>,
       <<22,1,15,14,13,12,11,10,9,8,4,3,7,6,4,3,5,4,3,2,21>> >>]

\* true and false paths <<state, block, true path, false path>>.
ExpectedInfo == [
  for_if_wait   |-> {<<0,7,<<>>,<<>> >>, <<0,6,<<>>,<<>> >>}
                    \cup UNION {{<<k,7,<<6>>,<<2,1,9,8,81>> >>, <<k,6,<<5>>,<<4>> >>} : k \in 1..3},
  for_stmt_wait |-> {<<0,5,<<>>,<<>> >>, <<1,5,<<>>,<<>> >>}
                    \cup {<<k,5,<<4,41>>,<<2,1,7,6,61>> >> : k \in 2..3},
  for_break0    |-> UNION {{<<k,9,<<>>,<<>> >>, <<k,8,<<>>,<<>> >>} : k \in {0,2}}
                    \cup UNION {{<<k,9,<<8>>,<<2,21>> >>, <<k,8,<<7,71>>,<<6,2,21>> >>} : k \in {1,3,4}},
  for_break1    |-> UNION {{<<k,7,<<6>>,<<2,21>> >>, <<k,6,<<5,2,21>>,<<3>> >>} : k \in 0..1},
  for_break_wait |-> UNION {{<<k,5,<<>>,<<>> >>, <<k,6,<<>>,<<>> >>, <<k,52,<<>>,<<>> >>} : k \in {0,3}}
                     \cup {<<1,5,<<51>>,<<>> >>, <<1,6,<<5>>,<<2,1,8,7,71>> >>, <<1,52,<<>>,<<>> >>,
                           <<2,5,<<51>>,<<>> >>, <<2,6,<<5>>,<<2,1,8,7,71>> >>, <<2,52,<<4,41>>,<<3,6>> >>},
  for_break_nested2 |-> UNION {{<<k,9,<<8,4,3>>,<<7,6>> >>, <<k,10,<<9>>,<<4,3>> >>,
                                <<k,12,<<11,10>>,<<5,4,3>> >>, <<k,13,<<12>>,<<2,21>> >>} : k \in 0..1}]

IDs(s) == [j \in DOMAIN s |-> blocks[s[j]].id]
PathIDs(p) == [j \in DOMAIN p |-> blocks[p[j].block].id]
InfoIDs == UNION {{<<k - 1, blocks[x].id, IDs(allPathInfo[k][x].truePath),
                     IDs(allPathInfo[k][x].falsePath)>> : x \in DOMAIN allPathInfo[k]}
                  : k \in DOMAIN allPathInfo}

(***************************************************************************)
(* The model computes for the repository's own test threads exactly the    *)
(* paths, and the true and false paths of each loop and if, that           *)
(* tests/cfg expects of SplitCFG::generate_paths.                          *)
(***************************************************************************)
AgreesWithTests ==
  pc = "done" =>
    \A t \in DOMAIN Threads : cfg = Cfg[t] =>
      /\ [k \in DOMAIN paths |-> PathIDs(paths[k])] = ExpectedPaths[t]
      /\ InfoIDs = ExpectedInfo[t]
=============================================================================
