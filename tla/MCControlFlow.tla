---------------------------- MODULE MCControlFlow ----------------------------
(***************************************************************************)
(* Small functions for ControlFlow.                                        *)
(***************************************************************************)
EXTENDS ControlFlow

MCBlocks(S) == {Node("block", <<s>>) : s \in S}
MCTest == Leaf("test")

\* The statements that hold bodies of B; some bodies are taken twice.
MCCompound(B) ==
  UNION {
    {Node("if", <<b>>) : b \in B},
    {Node("if", <<MCTest, b, Node("else", <<c>>)>>) : b \in B, c \in B},
    {Node("if", <<b, c>>) : b \in B, c \in B},
    {Node("loop", <<b>>) : b \in B},
    {Node("loop", <<MCTest, b>>) : b \in B},
    {Node("do", <<b, MCTest>>) : b \in B},
    {Node("switch", <<MCTest, Node("case", <<b>>), Node("case", <<b>>)>>) : b \in B},
    {Node("switch", <<Node("block", <<Node("case", <<b>>)>>)>>) : b \in B}}

MCLeaves(kinds) == {Leaf(k) : k \in kinds}
MCSimple == MCBlocks(MCLeaves({"use", "def", "discard", "barrier", "return"}))
            \cup MCLeaves({"def", "discard"})
MCInner == MCCompound(MCBlocks(MCLeaves({"use", "discard", "return"})))

\* A body that holds a statement with a body, before or after another.
MCNested == {Node("block", <<i, Leaf("def")>>) : i \in MCInner}
            \cup {Node("block", <<Leaf("def"), i>>) : i \in MCInner}

MCBodies ==
  {Node("block", <<s, c, t>>) :
     s \in MCLeaves({"use", "def", "return"}),
     c \in MCCompound(MCSimple),
     t \in MCLeaves({"use", "discard", "barrier"})}
  \cup {Node("block", <<c, Leaf("use")>>) :
          c \in UNION {{Node("if", <<MCTest, b>>), Node("loop", <<b>>), Node("do", <<b>>),
                        Node("if", <<b, Leaf("use")>>)} : b \in MCNested}}
  \cup MCBlocks(MCCompound(MCSimple))
  \cup {Leaf("error")}

MCFunctions == {PlaceFunction(b) : b \in MCBodies}
=============================================================================
