---------------------------- MODULE Expressions ----------------------------
(***************************************************************************)
(* The expressions of workflow steps (workflows/expressions.rs): from      *)
(* tokens to a tree, and from a tree and the outputs of steps to a value.  *)
(***************************************************************************)
EXTENDS Common, Integers, Sequences, FiniteSets
LOCAL INSTANCE SequencesExt
LOCAL INSTANCE FiniteSetsExt

CONSTANT ExMaxDepth   \* expression_max_depth

VARIABLE exTree       \* the expression somebody wrote

exVars == <<exTree>>

(* Tokens and trees.  The levels bind tighter the higher they are. *)
ExNames == {"a", "xs", "item", "index", "length", "at", "map", "filter", "to_boolean",
            "to_number", "first", "last", "sum"}
ExLiterals == {"0", "1", "true", "null", "'item < a'", "'item + index'", "'length(xs) == item'"}
ExLevels == <<{"||"}, {"&&"}, {"==", "!=", "<", "<=", "contains"}, {"+", "-"}, {"*", "/"}>>
ExUnaryOps == {"!", "-"}
\* op: leaf, unary, binary, ".", "[]" or call; of the same fields, so that trees compare.
ExNode(op, name, kids) == [op |-> op, name |-> name, kids |-> kids]
ExLeaf(name) == ExNode("leaf", name, <<>>)

(* Parser: a result is a tree and the index of the token after it, or no tree. *)
ExError == [tree |-> None, at |-> 0]
ExTokenAt(ts, i) == IF i <= Len(ts) THEN ts[i] ELSE "end"
RECURSIVE ExLevel(_, _, _), ExUnary(_, _), ExArgs(_, _, _), ExPostfix(_, _)

\* parse_or to parse_multiplicative: as long as an operator of the level follows.
RECURSIVE ExMore_Right(_, _, _), ExMore(_, _, _)
ExMore_Right(k, ts, left) ==
    IF left.tree = None \/ ExTokenAt(ts, left.at) \notin ExLevels[k] THEN left
    ELSE LET right == ExLevel(k, ts, left.at + 1)
         IN IF right.tree = None THEN ExError
            ELSE [tree |-> ExNode("binary", ts[left.at], <<left.tree, right.tree>>), at |-> right.at]
ExMore(k, ts, left) ==
    IF left.tree = None \/ ExTokenAt(ts, left.at) \notin ExLevels[k] THEN left
    ELSE LET right == ExLevel(k + 1, ts, left.at + 1)
         IN IF right.tree = None THEN ExError
            ELSE ExMore(k, ts, [tree |-> ExNode("binary", ts[left.at], <<left.tree, right.tree>>),
                                at |-> right.at])
ExLevel(k, ts, i) ==
    IF k > Len(ExLevels) THEN ExUnary(ts, i) ELSE ExMore(k, ts, ExLevel(k + 1, ts, i))

ExCloses(result, ts, bracket) ==
    IF result.tree # None /\ ExTokenAt(ts, result.at) = bracket THEN [result EXCEPT !.at = @ + 1]
    ELSE ExError
\* The arguments of a call: up to the closing parenthesis, commas between them.
ExArgs(ts, i, args) ==
    IF args = <<>> /\ ExTokenAt(ts, i) = ")" THEN [tree |-> args, at |-> i + 1]
    ELSE LET arg == ExLevel(1, ts, i)
         IN CASE arg.tree = None -> ExError
              [] arg.tree # None /\ ExTokenAt(ts, arg.at) = ")" ->
                    [tree |-> Append(args, arg.tree), at |-> arg.at + 1]
              [] arg.tree # None /\ ExTokenAt(ts, arg.at) = "," ->
                    ExArgs(ts, arg.at + 1, Append(args, arg.tree))
              [] OTHER -> ExError
ExPrimary(ts, i) ==
    LET token == ExTokenAt(ts, i)
    IN IF token = "(" THEN ExCloses(ExLevel(1, ts, i + 1), ts, ")")
       ELSE IF token \in ExNames /\ ExTokenAt(ts, i + 1) = "("
       THEN LET args == ExArgs(ts, i + 2, <<>>)
            IN IF args.tree = None THEN ExError
               ELSE [args EXCEPT !.tree = ExNode("call", token, args.tree)]
       ELSE IF token \in ExNames \cup ExLiterals \cup {"$"}
       THEN [tree |-> ExLeaf(token), at |-> i + 1] ELSE ExError
ExPostfix(ts, left) ==
    IF left.tree # None /\ ExTokenAt(ts, left.at) = "."
    THEN IF ExTokenAt(ts, left.at + 1) \notin ExNames THEN ExError
         ELSE ExPostfix(ts, [tree |-> ExNode(".", ts[left.at + 1], <<left.tree>>), at |-> left.at + 2])
    ELSE IF left.tree # None /\ ExTokenAt(ts, left.at) = "["
    THEN LET index == ExCloses(ExLevel(1, ts, left.at + 1), ts, "]")
         IN IF index.tree = None THEN ExError
            ELSE ExPostfix(ts, [index EXCEPT !.tree = ExNode("[]", "", <<left.tree, index.tree>>)])
    ELSE left
ExUnary(ts, i) ==
    IF ExTokenAt(ts, i) \in ExUnaryOps
    THEN LET operand == ExUnary(ts, i + 1)
         IN IF operand.tree = None THEN ExError
            ELSE [operand EXCEPT !.tree = ExNode("unary", ts[i], <<operand.tree>>)]
    ELSE ExPostfix(ts, ExPrimary(ts, i))
\* parse_expression and expect_end
ExParsed(ts) ==
    LET result == ExLevel(1, ts, 1) IN IF result.at = Len(ts) + 1 THEN result.tree ELSE None
RECURSIVE ExDepth(_)
ExDepth(tree) == 1 + (IF tree.kids = <<>> THEN 0 ELSE Max({ExDepth(kid) : kid \in Range(tree.kids)}))

(* Values: a JSON number is an int or, once an expression made it, a float. *)
ExNull == [is |-> "null", n |-> 0, s |-> "", items |-> <<>>]
ExBool(b) == [ExNull EXCEPT !.is = "bool", !.n = IF b THEN 1 ELSE 0]
ExFloat(n) == [ExNull EXCEPT !.is = "float", !.n = n]
ExInt(n) == [ExNull EXCEPT !.is = "int", !.n = n]
ExStr(s) == [ExNull EXCEPT !.is = "str", !.s = s]
ExArray(items) == [ExNull EXCEPT !.is = "array", !.items = items]
ExFailed == [ExNull EXCEPT !.is = "error"]

ExTruthy(v) == CASE v.is \in {"bool", "int", "float"} -> v.n # 0
                 [] v.is = "str" -> v.s # ""
                 [] v.is = "array" -> v.items # <<>>
                 [] v.is = "object" -> v.n > 0
                 [] OTHER -> FALSE
ExIsNumber(v) == v.is \in {"int", "float", "bool"}
\* As text numbers come before words, and these in this order.
ExTexts == <<"false", "'item + index'", "'item < a'", "'length(xs) == item'", "true", "u", "z">>
ExRank(v) == IF v.is \in {"int", "float"} THEN v.n - 100
             ELSE CHOOSE i \in DOMAIN ExTexts :
                      ExTexts[i] = IF v.is = "str" THEN v.s ELSE IF v.n = 1 THEN "true" ELSE "false"
\* compare_values: as numbers if both are, as text if both can be, else an error.
ExCompares(a, op, b) ==
    LET Less(m, n) == IF op = "<" THEN m < n ELSE m <= n
    IN IF ExIsNumber(a) /\ ExIsNumber(b) THEN ExBool(Less(a.n, b.n))
       ELSE IF \E v \in {a, b} : ~ExIsNumber(v) /\ v.is # "str" THEN ExFailed
       ELSE ExBool(Less(ExRank(a), ExRank(b)))
\* Both operands have a value: && and || do not stop at the first.
ExBinary(a, op, b) ==
    CASE op = "||" -> ExBool(ExTruthy(a) \/ ExTruthy(b))
      [] op = "&&" -> ExBool(ExTruthy(a) /\ ExTruthy(b))
      [] op = "==" -> ExBool(a = b)
      [] op = "!=" -> ExBool(a # b)
      [] op \in {"<", "<="} -> ExCompares(a, op, b)
      [] op = "contains" -> ExBool(IF a.is = "array" THEN b \in Range(a.items) ELSE a.is = "str" /\ a = b)
      [] op = "+" /\ ~(ExIsNumber(a) /\ ExIsNumber(b)) -> ExStr("u")
      [] op \in {"+", "-", "*", "/"} /\ ExIsNumber(a) /\ ExIsNumber(b) /\ (op = "/" => b.n # 0) ->
            ExFloat(CASE op = "+" -> a.n + b.n [] op = "-" -> a.n - b.n
                      [] op = "*" -> a.n * b.n [] op = "/" -> a.n \div b.n)
      [] OTHER -> ExFailed
\* An index that the expression says itself is a float, which as_u64 is not.
ExIndexed(v, index) ==
    IF v.is = "array" /\ index.is = "int" /\ index.n \in 0..Len(v.items) - 1
    THEN v.items[index.n + 1] ELSE ExNull
ExAt(v, index) ==
    IF v.is # "array" \/ ~ExIsNumber(index) THEN ExFailed
    ELSE IF index.n \in 0..Len(v.items) - 1 THEN v.items[index.n + 1] ELSE ExNull
ExLength(v) == ExFloat(CASE v.is = "array" -> Len(v.items) [] v.is = "str" -> 1
                         [] v.is = "object" -> v.n [] v.is = "null" -> 0 [] OTHER -> 1)

(* Evaluator: outputs of steps, and the locals of the map or filter around it. *)
ExOutputs == [name \in {"a", "xs"} |-> IF name = "a" THEN ExInt(1)
                                       ELSE ExArray(<<ExInt(0), ExInt(2), ExStr("z")>>)]
ExVariable(name, locals) ==
    CASE name \in DOMAIN locals -> locals[name]
      [] name \notin DOMAIN locals /\ name \in DOMAIN ExOutputs -> ExOutputs[name]
      [] OTHER -> ExNull
\* $ is the one object: its members are the variables.
ExRoot(locals) == [ExNull EXCEPT !.is = "object", !.n = Cardinality(DOMAIN locals \cup DOMAIN ExOutputs)]
ExLiteral(token) ==
    CASE token = "0" -> ExFloat(0) [] token = "1" -> ExFloat(1)
      [] token = "true" -> ExBool(TRUE) [] token = "null" -> ExNull [] OTHER -> ExStr(token)
\* A string that map and filter evaluate is an expression of its own.
ExTokensOf(s) ==
    CASE s = "'item < a'" -> <<"item", "<", "a">>
      [] s = "'item + index'" -> <<"item", "+", "index">>
      [] s = "'length(xs) == item'" -> <<"length", "(", "xs", ")", "==", "item">>
      [] OTHER -> <<>>
ExInner(locals, item, i) ==
    [name \in DOMAIN locals \cup {"item", "index"} |->
        IF name = "item" THEN item ELSE IF name = "index" THEN ExFloat(i - 1) ELSE locals[name]]
RECURSIVE ExEval(_, _)
\* evaluate_expression_with_locals: with the default limits, not those of the step.
ExText(ts, locals) ==
    LET tree == ExParsed(ts)
    IN IF tree = None \/ ExDepth(tree) > 64 THEN ExFailed ELSE ExEval(tree, locals)
ExEach(v, s, locals) ==
    [i \in 1..Len(v.items) |-> ExText(ExTokensOf(s), ExInner(locals, v.items[i], i))]
ExMap(v, s, locals) ==
    IF v.is # "array" THEN ExFailed
    ELSE LET mapped == ExEach(v, s, locals)
         IN IF ExFailed \in Range(mapped) THEN ExFailed ELSE ExArray(mapped)
ExPassing(v, passed) ==
    IF ExFailed \in Range(passed) THEN ExFailed
    ELSE LET S == {i \in DOMAIN passed : ExTruthy(passed[i])}
         IN ExArray([k \in 1..Cardinality(S) |-> v.items[SetToSortSeq(S, <)[k]]])
ExFilter(v, s, locals) ==
    IF v.is # "array" THEN ExFailed ELSE ExPassing(v, ExEach(v, s, locals))
ExFirst(v, i) ==
    IF v.is # "array" THEN ExFailed ELSE IF v.items = <<>> THEN ExNull ELSE v.items[i]
ExSum(v) ==
    IF v.is # "array" THEN ExFailed
    ELSE ExFloat(FoldLeft(LAMBDA sum, item : sum + IF ExIsNumber(item) THEN item.n ELSE 0, 0, v.items))
\* The other functions of one text or number (upper to round) are left out.
ExCall(name, args, locals) ==
    CASE name = "to_boolean" -> ExBool(args # <<>> /\ ExTruthy(args[1]))
      [] name = "to_number" -> IF args # <<>> /\ ExIsNumber(args[1]) THEN ExFloat(args[1].n) ELSE ExNull
      [] name = "first" /\ args # <<>> -> ExFirst(args[1], 1)
      [] name = "last" /\ args # <<>> -> ExFirst(args[1], Len(args[1].items))
      [] name = "sum" /\ args # <<>> -> ExSum(args[1])
      [] name = "length" /\ args # <<>> -> ExLength(args[1])
      [] name = "at" /\ Len(args) > 1 -> ExAt(args[1], args[2])
      [] name = "map" /\ Len(args) > 1 /\ args[2].is = "str" -> ExMap(args[1], args[2].s, locals)
      [] name = "filter" /\ Len(args) > 1 /\ args[2].is = "str" -> ExFilter(args[1], args[2].s, locals)
      [] OTHER -> ExFailed
ExEval(tree, locals) ==
    LET kids == [i \in DOMAIN tree.kids |-> ExEval(tree.kids[i], locals)]
    IN IF ExFailed \in Range(kids) THEN ExFailed
       ELSE CASE tree.op = "leaf" /\ tree.name \in ExNames -> ExVariable(tree.name, locals)
              [] tree.op = "leaf" /\ tree.name \in ExLiterals -> ExLiteral(tree.name)
              [] tree.op = "leaf" /\ tree.name = "$" -> ExRoot(locals)
              [] tree.op = "unary" /\ tree.name = "!" -> ExBool(~ExTruthy(kids[1]))
              [] tree.op = "unary" /\ tree.name = "-" ->
                    IF ExIsNumber(kids[1]) THEN ExFloat(-kids[1].n) ELSE ExFailed
              [] tree.op = "binary" -> ExBinary(kids[1], tree.name, kids[2])
              [] tree.op = "." -> IF kids[1].is = "object" THEN ExVariable(tree.name, locals) ELSE ExNull
              [] tree.op = "[]" -> ExIndexed(kids[1], kids[2])
              [] OTHER -> ExCall(tree.name, kids, locals)
\* evaluate_expression_with_locals_and_options
ExEvaluated(ts, locals) ==
    LET tree == ExParsed(ts)
    IN IF tree = None \/ ExDepth(tree) > ExMaxDepth THEN ExFailed ELSE ExEval(tree, locals)

(* What people write: trees, with the parentheses they need *)
RECURSIVE ExPrinted(_, _)
ExInParens(ts, needed) == IF needed THEN <<"(">> \o ts \o <<")">> ELSE ts
ExPrinted(tree, level) ==
    CASE tree.op = "leaf" -> <<tree.name>>
      [] tree.op = "unary" -> ExInParens(<<tree.name>> \o ExPrinted(tree.kids[1], 6), level > 6)
      [] tree.op = "binary" ->
            LET k == CHOOSE k \in DOMAIN ExLevels : tree.name \in ExLevels[k]
            IN ExInParens(ExPrinted(tree.kids[1], k) \o <<tree.name>> \o ExPrinted(tree.kids[2], k + 1),
                          level > k)
      [] tree.op = "." -> ExPrinted(tree.kids[1], 7) \o <<".", tree.name>>
      [] tree.op = "[]" -> ExPrinted(tree.kids[1], 7) \o <<"[">> \o ExPrinted(tree.kids[2], 1) \o <<"]">>
      [] OTHER -> <<tree.name, "(">> \o FlattenSeq([i \in DOMAIN tree.kids |->
                      (IF i > 1 THEN <<",">> ELSE <<>>) \o ExPrinted(tree.kids[i], 1)]) \o <<")">>
ExPairs(kids) ==
    {ExNode("binary", op, <<l, r>>) : op \in {"||", "&&", "<", "-", "*"}, l \in kids, r \in kids}
        \cup {ExNode("[]", "", <<l, r>>) : l \in kids, r \in kids}
        \cup {ExNode("call", "at", <<l, r>>) : l \in kids, r \in kids}
ExOnes(kids) ==
    {ExNode("unary", op, <<kid>>) : op \in ExUnaryOps, kid \in kids}
        \cup {ExNode(".", "a", <<kid>>) : kid \in kids}
ExShort == {ExLeaf("a"), ExLeaf("xs"), ExLeaf("$")}
ExTrees == ExShort \cup ExPairs(ExShort) \cup ExOnes(ExShort)

ExWrites ==
    /\ exTree = ExLeaf("a")
    /\ exTree' \in (ExShort \ {exTree}) \cup ExPairs(ExTrees) \cup ExOnes(ExTrees)
ExStartsOver == exTree # ExLeaf("a") /\ exTree' = ExLeaf("a")
ExInit == exTree = ExLeaf("a")
ExNext == ExWrites \/ ExStartsOver

\* An expression written with no more parentheses than the levels ask for is read as meant.
ExReadsBack == ExParsed(ExPrinted(exTree, 1)) = exTree

\* A negation may be pushed inwards, also past an operand that cannot be evaluated.
ExNegates ==
    LET Not(x) == ExNode("unary", "!", <<x>>)
        Bin(x, op, y) == ExNode("binary", op, <<x, y>>)
        Same(x, y) == \A locals \in {<<>>, [a |-> ExNull], [a |-> ExStr("z")]} :
                          ExEvaluated(ExPrinted(x, 1), locals) = ExEvaluated(ExPrinted(y, 1), locals)
        x == exTree.kids[1]
        y == exTree.kids[2]
    IN exTree.op = "binary" =>
        /\ exTree.name = "&&" => Same(Not(exTree), Bin(Not(x), "||", Not(y)))
        /\ exTree.name = "||" => Same(Not(exTree), Bin(Not(x), "&&", Not(y)))
        /\ exTree.name = "<" => Same(Not(exTree), Bin(y, "<=", x))

\* filter keeps the items for which map yields something that counts as true, and fails
\* when map fails, whatever locals the call finds around it.
ExFilterIsMap ==
    exTree = ExLeaf("xs") =>
        \A s \in {"'item < a'", "'item + index'", "'length(xs) == item'"},
           v \in {ExOutputs["xs"], ExArray(<<ExInt(3), ExFloat(3)>>), ExArray(<<ExNull>>), ExNull},
           locals \in {<<>>, [a |-> ExFloat(3)], [xs |-> ExNull], [a |-> ExNull]} :
            LET mapped == ExMap(v, s, locals)
                kept == ExFilter(v, s, locals)
            IN /\ (mapped = ExFailed) = (kept = ExFailed)
               /\ \A i \in DOMAIN mapped.items :
                    ExTruthy(mapped.items[i]) = (v.items[i] \in Range(kept.items))

\* The parser, the evaluator and the functions over arrays agree with one another.
ExAgrees == ExReadsBack /\ ExNegates /\ ExFilterIsMap

ExSpec == ExInit /\ [][ExNext]_exVars
=============================================================================
