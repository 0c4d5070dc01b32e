----------------------------- MODULE CfgBuilder -----------------------------
(***************************************************************************)
(* The per-function control-flow graph that core/src/control_flow/         *)
(* cfg_builder.cpp builds from the syntax tree of one function.            *)
(*                                                                         *)
(* The parser and its grammar are not part of the repository, so a tree    *)
(* is what the code sees of it: nodes with a kind, a byte span and         *)
(* children.  A program is written as a "shape" (kinds and children); the  *)
(* operator Place gives each node its span.  Statements that the analyses  *)
(* tell apart are leaves: a use of the local x, an assignment to it, a     *)
(* discard, a barrier call, a return of x, and the condition of a branch   *)
(* or loop when it reads x ("test").  The braces of a switch are a block.  *)
(*                                                                         *)
(* Blocks are numbered from 1, the entry, where the code starts at 0.      *)
(***************************************************************************)
EXTENDS Naturals, Sequences, SequencesExt, FiniteSets

Leaves == {"use", "def", "discard", "barrier", "return", "test"}

Leaf(k) == [k |-> k, kids |-> <<>>]
Node(k, kids) == [k |-> k, kids |-> kids]

-----------------------------------------------------------------------------
(* Spans.  A node covers its own first byte, its children, and one closing *)
(* byte when it has a closing token; two different nodes never have the    *)
(* same span.  `has` is the set of leaf kinds below the node.              *)

Closes(k) == IF k \in {"block", "do"} THEN 1 ELSE 0

RECURSIVE Place(_, _)
Place(shape, at) ==
  LET putNext(done, kid) ==
        Append(done, Place(kid, IF done = <<>> THEN at + 1 ELSE Last(done).hi))
      kids == FoldLeft(putNext, <<>>, shape.kids)
      end  == IF kids = <<>> THEN at + 1 ELSE Last(kids).hi
  IN [k |-> shape.k, lo |-> at, hi |-> end + Closes(shape.k), kids |-> kids,
      has |-> IF shape.k \in Leaves THEN {shape.k}
              ELSE UNION {kids[i].has : i \in DOMAIN kids}]

\* A function_definition around its body; "error" is a function whose
\* subtree holds a tree-sitter ERROR node.
PlaceFunction(body) == Place(Node("function", <<body>>), 0)

\* What the builder walks of a statement: its arms, not its condition.
Arms(n) == SelectSeq(n.kids, LAMBDA kid : kid.k # "test")

RECURSIVE LeavesOf(_)
LeavesOf(n) ==
  IF n.k \in Leaves THEN {n}
  ELSE UNION {LeavesOf(n.kids[i]) : i \in DOMAIN n.kids}

-----------------------------------------------------------------------------
(* FunctionBuilder                                                         *)

NewBlock(n) == [lo |-> n.lo, hi |-> n.hi, succ |-> <<>>, exit |-> FALSE,
                contains_barrier |-> FALSE, contains_discard |-> FALSE]

\* new_block: the id of a fresh block is its position.
add_block(blocks, n) == Append(blocks, NewBlock(n))
add_edge(blocks, a, b) == [blocks EXCEPT ![a].succ = Append(@, b)]

\* A partly built function and the block the next statement goes to.
Built(blocks, cur) == [blocks |-> blocks, cur |-> cur]

\* detect_barrier scans the whole subtree of a statement.
detect_barrier(n) == "barrier" \in n.has

\* A textual hit anywhere in the statement marks the current block.
MarkDiscard(b, n) ==
  [b.blocks EXCEPT ![b.cur].contains_discard = @ \/ "discard" \in n.has]

RECURSIVE walk_statement(_, _)

\* return: the path ends; what follows is dead code in a block of its own.
WalkReturn(n, b) ==
  Built(add_block([b.blocks EXCEPT ![b.cur].exit = TRUE], n), Len(b.blocks) + 1)

\* barrier: the statement, whatever its kind, ends the block.
WalkBarrier(n, b) ==
  LET next == Len(b.blocks) + 1
  IN Built(add_edge(add_block([b.blocks EXCEPT ![b.cur].contains_barrier = TRUE], n),
                    b.cur, next), next)

\* A bug to catch: the end of the first arm has no way to the join.
WalkIf_ThenEnds(n, b) ==
  LET then == Len(b.blocks) + 1
      tEnd == walk_statement(Arms(n)[1],
                Built(add_edge(add_block(b.blocks, n), b.cur, then), then))
      join == Len(tEnd.blocks) + 1
  IN Built(add_edge(add_block(tEnd.blocks, n), b.cur, join), join)

WalkIf(n, b) ==
  LET arms  == Arms(n)
      then  == Len(b.blocks) + 1
      tEnd  == walk_statement(arms[1],
                 Built(add_edge(add_block(b.blocks, n), b.cur, then), then))
      else  == Len(tEnd.blocks) + 1
      eEnd  == IF Len(arms) = 1 THEN Built(tEnd.blocks, b.cur)
               ELSE walk_statement(arms[2],
                      Built(add_edge(add_block(tEnd.blocks, arms[2]), b.cur, else), else))
      join  == Len(eEnd.blocks) + 1
  IN Built(add_edge(add_edge(add_block(eEnd.blocks, n), tEnd.cur, join), eEnd.cur, join),
           join)

\* A bug to catch: the body runs into the exit and never comes back.
WalkLoop_NoBackEdge(n, b) ==
  LET header == Len(b.blocks) + 1
      body   == header + 1
      end    == walk_statement(Arms(n)[1],
                  Built(add_edge(add_edge(add_block(add_block(b.blocks, n), n),
                                          b.cur, header), header, body), body))
      exit   == Len(end.blocks) + 1
  IN Built(add_edge(add_edge(add_block(end.blocks, n), end.cur, exit), header, exit), exit)

\* for and while: header, body and exit, all three with the loop's span.
WalkLoop(n, b) ==
  LET header == Len(b.blocks) + 1
      body   == header + 1
      end    == walk_statement(Arms(n)[1],
                  Built(add_edge(add_edge(add_block(add_block(b.blocks, n), n),
                                          b.cur, header), header, body), body))
      exit   == Len(end.blocks) + 1
  IN Built(add_edge(add_block(add_edge(end.blocks, end.cur, header), n), header, exit),
           exit)

WalkDo(n, b) ==
  LET body == Len(b.blocks) + 1
      end  == walk_statement(Arms(n)[1],
                Built(add_edge(add_block(b.blocks, n), b.cur, body), body))
      cond == Len(end.blocks) + 1
      exit == cond + 1
      both == add_block(add_block(end.blocks, n), n)
  IN Built(add_edge(add_edge(add_edge(both, end.cur, cond), cond, body), cond, exit),
           exit)

\* switch: the join comes first; only children of kind case become blocks (in
\* braces they are not children), and an edge past them exists only when the
\* node has no child at all, which its condition rules out.
WalkSwitch(n, b) ==
  LET join == Len(b.blocks) + 1
      oneCase(acc, kid) ==
        IF kid.k # "case" THEN acc
        ELSE LET cb  == Len(acc) + 1
                 end == walk_statement(kid,
                          Built(add_edge(add_block(acc, kid), b.cur, cb), cb))
             IN add_edge(end.blocks, end.cur, join)
  IN Built(FoldLeft(oneCase, add_block(b.blocks, n), n.kids), join)

walk_statement(n, b) ==
  CASE n.k = "return"    -> WalkReturn(n, b)
    [] n.k # "return" /\ detect_barrier(n) -> WalkBarrier(n, b)
    [] OTHER ->
         LET c == Built(MarkDiscard(b, n), b.cur)
         IN CASE n.k = "if"     -> WalkIf(n, c)
              [] n.k = "loop"   -> WalkLoop(n, c)
              [] n.k = "do"     -> WalkDo(n, c)
              [] n.k = "switch" -> WalkSwitch(n, c)
              [] n.k = "block"  ->
                   FoldLeft(LAMBDA acc, kid : walk_statement(kid, acc), c, n.kids)
              [] OTHER          -> c

\* build_function.  `error` is error_skipped.
build_function(fn) ==
  LET entry == add_block(<<>>, fn)
      end   == walk_statement(fn.kids[1], Built(entry, 1))
  IN IF fn.kids[1].k = "error" THEN [blocks |-> entry, error |-> TRUE]
     ELSE [blocks |-> [end.blocks EXCEPT ![end.cur].exit = TRUE], error |-> FALSE]
=============================================================================
