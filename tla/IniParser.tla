----------------------------- MODULE IniParser -----------------------------
(***************************************************************************)
(* libhv's IniParser (3rd/Hv/utils/iniparser), which holds the settings of *)
(* the program: LoadFromMem, DumpString, GetValue and SetValue.            *)
(*                                                                         *)
(* A text is a sequence of lines.  A line is a section, a key with a       *)
(* value, either with or without a comment behind it, a note (a comment or *)
(* a blank line), or malformed.  A node is a record of the members of      *)
(* IniNode; the label of a DIV is the sequence of its notes, and a SPAN is *)
(* the comment behind a section or a value.                                *)
(***************************************************************************)
EXTENDS Integers, SequencesExt

NoComment == "no comment"
Empty == "empty"   \* an empty string

Node(type, label, value, children) ==
  [type |-> type, label |-> label, value |-> value, children |-> children]

Section(name, comment) ==
  [type |-> "section", label |-> name, value |-> Empty, comment |-> comment]
KeyValue(key, value, comment) ==
  [type |-> "kv", label |-> key, value |-> value, comment |-> comment]
Note(text) ==
  [type |-> "note", label |-> text, value |-> Empty, comment |-> NoComment]
Malformed ==
  [type |-> "malformed", label |-> Empty, value |-> Empty, comment |-> NoComment]

Blank == Note("")

NoRoot == Node("no root", Empty, Empty, <<>>)

-----------------------------------------------------------------------------
(* LoadFromMem.                                                            *)

Div(notes) == Node("div", notes, Empty, <<>>)

\* The node of a section or a value, with a SPAN for the comment behind it.
FromLine(line) ==
  Node(line.type, line.label, line.value,
       IF line.comment = NoComment THEN <<>>
       ELSE <<Node("span", line.comment, Empty, <<>>)>>)

\* pScopeNode->Add; the scope is the root or one of its sections.
AddToScope(s, node) ==
  IF s.scope = 0
  THEN [s EXCEPT !.nodes = Append(@, node)]
  ELSE [s EXCEPT !.nodes[s.scope] =
         [@ EXCEPT !.children = Append(@, node)]]

\* Mutant: notes are kept back until the next section.
FlushDivAtSection(s, line) ==
  IF s.div = <<>> \/ line.type # "section" THEN s
  ELSE [AddToScope(s, Div(s.div)) EXCEPT !.div = <<>>]

\* Notes become a DIV when a line with content follows.
FlushDiv(s, line) ==
  IF s.div = <<>> \/ line.type = "note" THEN s
  ELSE [AddToScope(s, Div(s.div)) EXCEPT !.div = <<>>]

\* One round of the loop over the lines.
ParseLine(s, line) ==
  LET t == FlushDiv(s, line)
  IN  CASE line.type = "note"      -> [t EXCEPT !.div = Append(@, line)]
        [] line.type = "malformed" -> t
        [] line.type = "section"   -> [t EXCEPT !.nodes = Append(@, FromLine(line)),
                                                !.scope = Len(t.nodes) + 1]
        [] line.type = "kv"        -> AddToScope(t, FromLine(line))

LoadFromMem(text) ==
  LET s == FoldLeft(ParseLine, [nodes |-> <<>>, scope |-> 0, div |-> <<>>], text)
  IN  Node("root", Empty, Empty,
           IF s.div = <<>> THEN s.nodes ELSE Append(s.nodes, Div(s.div)))

-----------------------------------------------------------------------------
(* DumpString.                                                             *)

\* A SPAN goes on the line before it.
Comment(node) ==
  IF node.children # <<>> /\ Head(node.children).type = "span"
  THEN Head(node.children).label ELSE NoComment

\* The lines of a node that has no node but a SPAN below it.
DumpLeaf(node) ==
  CASE node.type = "kv"  -> <<KeyValue(node.label, node.value, Comment(node))>>
    [] node.type = "div" -> node.label
    [] OTHER             -> <<>>

Dumped(nodes) == FlattenSeq([i \in DOMAIN nodes |-> DumpLeaf(nodes[i])])

DumpNode(node) ==
  IF node.type = "section"
  THEN <<Section(node.label, Comment(node))>> \o Dumped(node.children)
  ELSE DumpLeaf(node)

\* A root that SetValue made has a type that was never set; what is printed
\* for it is one of these.
DumpRoot(root) ==
  CASE root.type = "section" -> <<Section(Empty, NoComment)>>
    [] root.type = "kv"      -> <<KeyValue(Empty, Empty, NoComment)>>
    [] root.type = "span"    -> <<Blank>>
    [] OTHER                 -> <<>>

DumpString(root) ==
  DumpRoot(root) \o
  FlattenSeq([i \in DOMAIN root.children |-> DumpNode(root.children[i])])

-----------------------------------------------------------------------------
(* GetValue and SetValue.                                                  *)

Matches(node, label, type) == node.type = type /\ node.label = label

\* Mutant: the last child that matches.
GetLast(nodes, label, type) ==
  SelectLastInSubSeq(nodes, 1, Len(nodes), LAMBDA node : Matches(node, label, type))

\* IniNode::Get: the position of the first child that matches, 0 for NULL.
Get(nodes, label, type) ==
  SelectInSeq(nodes, LAMBDA node : Matches(node, label, type))

ValueIn(nodes, key) ==
  LET i == Get(nodes, key, "kv") IN IF i = 0 THEN Empty ELSE nodes[i].value

GetValue(root, key, section) ==
  LET i == Get(root.children, section, "section")
  IN  CASE root = NoRoot   -> Empty
        [] section = Empty -> ValueIn(root.children, key)
        [] i = 0           -> Empty
        [] OTHER           -> ValueIn(root.children[i].children, key)

\* Mutant: a key is added also when it is there.
SetInTwice(nodes, key, value) == Append(nodes, Node("kv", key, value, <<>>))

SetIn(nodes, key, value) ==
  LET i == Get(nodes, key, "kv")
  IN  IF i = 0
      THEN Append(nodes, Node("kv", key, value, <<>>))
      ELSE [nodes EXCEPT ![i] = [@ EXCEPT !.value = value]]

\* SetValue on a root that is there.
SetInRoot(root, key, value, section) ==
  LET i == Get(root.children, section, "section")
  IN  CASE section = Empty -> [root EXCEPT !.children = SetIn(@, key, value)]
        [] i = 0 ->
             [root EXCEPT !.children =
               Append(@, Node("section", section, Empty, SetIn(<<>>, key, value)))]
        [] OTHER ->
             [root EXCEPT !.children =
               [@ EXCEPT ![i] = [@ EXCEPT !.children = SetIn(@, key, value)]]]

\* The type of a root that SetValue makes is whatever the memory holds.
FreshTypes == {"unknown", "root", "section", "kv", "div", "span"}
FreshRoots == {Node(type, Empty, Empty, <<>>) : type \in FreshTypes}

SetValue(root, key, value, section) ==
  {SetInRoot(r, key, value, section) :
     r \in IF root = NoRoot THEN FreshRoots ELSE {root}}
=============================================================================
