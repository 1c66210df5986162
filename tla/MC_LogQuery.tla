---------------------------- MODULE MC_LogQuery ----------------------------
EXTENDS LogQuery

CONSTANTS f1, f2, a1, a2, tA, tB, nil

MCIds == {f1, f2}
MCQueryIds == {f1}
MCMaxHeight == 2

\* Blocks: empty, one log with two topics, and two logs of different
\* emitters (the second with one topic), so that order and the topic count
\* both show in a result.
MCBlockContents ==
  { <<>>,
    << [addr |-> a1, topics |-> <<tA, tB>>] >>,
    << [addr |-> a2, topics |-> <<tB>>], [addr |-> a1, topics |-> <<tA>>] >> }

MCBounds == {nil, Latest, 1, 2}
MCTopics == { <<>>, << {tA} >>, << {}, {tB} >>, << {tB}, {} >>, << {tA, tB} >> }

MCCriteria ==
  [blockHash : {nil, 2, 3}, from : MCBounds, to : MCBounds,
   addresses : {{}, {a1}}, topics : MCTopics]

\* The E2E filter of spec.md 8: one address, no topics, default range.
MCFilterCriteria ==
  { [blockHash |-> nil, from |-> nil, to |-> nil, addresses |-> {a1}, topics |-> <<>>],
    [blockHash |-> nil, from |-> 1, to |-> Latest, addresses |-> {}, topics |-> << {tB} >>] }
=============================================================================
