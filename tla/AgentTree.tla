----------------------------- MODULE AgentTree -----------------------------
(***************************************************************************)
(* The tree of agents, from its configuration: what the check at the start *)
(* accepts (config_validate.go), the defaults (config.go), what the        *)
(* registry builds from it, and the paths by which nodes are shown.  A     *)
(* root has domains, a domain has leaves.  A key is a string without       *)
(* surrounding blanks or "__" in front; descriptions, instructions, and    *)
(* the bounds on iterations are left out.                                  *)
(***************************************************************************)
EXTENDS KnowledgeBase

CONSTANTS Tree,      \* "agents" of the configuration: [roots, domains, leaves, defaultTopK]
          Assistant  \* the key of the root that a request names

(* What the configuration can say.                                         *)
AgentsConfig ==
    LET Supervisor == [key : STRING, children : Seq(STRING)]
        Leaf == [key : STRING, type : STRING, kbIDs : Seq(STRING), topK : Int, rewriteQueries : Int,
                 maxContextDocs : Int, sourceLimit : Int, internal : BOOLEAN]
    IN  [roots : Seq(Supervisor), domains : Seq(Supervisor), leaves : Seq(Leaf), defaultTopK : Int]

Keys(nodes) == [i \in DOMAIN nodes |-> nodes[i].key]
Node(nodes, key) == nodes[CHOOSE i \in DOMAIN nodes : nodes[i].key = key]

-----------------------------------------------------------------------------
(* The check at the start                                                  *)

ValidateSupervisorNode(n) == n.key # "" /\ n.children # << >>

(* A limit of 0 is one left out.                                           *)
ValidateLeafNode(l) ==
    /\ l.key # ""
    /\ \/ l.type = "itsm"
       \/ /\ l.type = "knowledge"
          /\ l.kbIDs # << >> /\ "" \notin Elements(l.kbIDs)
          /\ l.topK \in 0 .. 50 /\ l.rewriteQueries \in 0 .. 8
          /\ l.maxContextDocs \in 0 .. 20 /\ l.sourceLimit \in 0 .. 20
          /\ l.sourceLimit > 0 /\ l.maxContextDocs > 0 => l.sourceLimit <= l.maxContextDocs

(* registerAgentKey: no two nodes of the tree have the same key.           *)
KeysAreDistinct ==
    LET keys == Keys(Tree.roots) \o Keys(Tree.domains) \o Keys(Tree.leaves)
    IN  Cardinality(Elements(keys)) = Len(keys)

(* validateAgentTree                                                       *)
ValidAgentTree ==
    LET domains == Elements(Keys(Tree.domains))
        leaves  == Elements(Keys(Tree.leaves))
    IN  /\ << >> \notin {Tree.roots, Tree.domains, Tree.leaves}
        /\ \A n \in Elements(Tree.roots \o Tree.domains) : ValidateSupervisorNode(n)
        /\ \A l \in Elements(Tree.leaves) :
              ValidateLeafNode(l) /\ (l.type = "knowledge" => Tree.defaultTopK \in 1 .. 50)
        /\ KeysAreDistinct
        /\ \A n \in Elements(Tree.roots)   : Elements(n.children) \subseteq domains \cup leaves
        /\ \A n \in Elements(Tree.domains) : Elements(n.children) \subseteq leaves

(* collectModules refuses a leaf as a child of a root, which the check     *)
(* above accepts.                                                          *)
Buildable ==
    \A n \in Elements(Tree.roots) : Elements(n.children) \subseteq Elements(Keys(Tree.domains))

-----------------------------------------------------------------------------
(* The agents                                                              *)

(* loadConfig: a limit left out is the default, not more than four for     *)
(* what is derived from topK; by default a question is rewritten.          *)
LoadConfig(l) ==
    LET Or(value, default) == IF value > 0 THEN value ELSE default
        topK == Or(l.topK, Or(Tree.defaultTopK, 5))
        few  == IF topK < 4 THEN topK ELSE 4
    IN  [l EXCEPT !.topK = topK, !.rewriteQueries = Or(@, 3),
                  !.maxContextDocs = Or(@, few), !.sourceLimit = Or(@, few)]

(* NewTool: what a knowledge agent is made with.                           *)
KnowledgeTool(key) == LoadConfig(Node(Tree.leaves, key))

(* LeafBinding: a ticket agent may ask, a knowledge agent may not; whether *)
(* one is for internal questions is read off its key and description.      *)
LeafBinding(key) ==
    LET l == Node(Tree.leaves, key)
    IN  [key |-> l.key, kind |-> l.type, interruptible |-> l.type = "itsm", internal |-> l.internal]

(* The modules of the root, in the order of the configuration, and the     *)
(* leaves of each.                                                         *)
ModuleOrder == Node(Tree.roots, Assistant).children
Modules == Elements(ModuleOrder)
Leaves == [m \in Modules |->
             LET keys == Node(Tree.domains, m).children
             IN  [i \in DOMAIN keys |-> LeafBinding(keys[i])]]

ASSUME TreeAssumption ==
    /\ Tree \in AgentsConfig /\ ValidAgentTree /\ Buildable
    /\ Assistant \in Elements(Keys(Tree.roots))
    /\ Cardinality(Modules) = Len(ModuleOrder)

-----------------------------------------------------------------------------
(* Paths                                                                   *)

(* The domains of the root that have a leaf.                               *)
HoldersOf(key) == {i \in DOMAIN ModuleOrder : key \in Elements(Keys(Leaves[ModuleOrder[i]]))}

(* buildNodePaths, pathForNode: a leaf of several domains has the path of  *)
(* the last one.                                                           *)
PathForNode(key) ==
    CASE key = Assistant -> <<Assistant>>
      [] key \in Modules -> <<Assistant, key>>
      [] key \notin Modules \cup {Assistant} ->
            IF HoldersOf(key) = {} THEN << >>
            ELSE <<Assistant, ModuleOrder[CHOOSE i \in HoldersOf(key) :
                                             \A j \in HoldersOf(key) : i >= j], key>>

(* normalizeVisiblePath: coming back to a node drops what followed it.     *)
Visit(node) == [out \in Seq(STRING) |->
    IF node \in Elements(out) THEN SubSeq(out, 1, CHOOSE i \in DOMAIN out : out[i] = node)
                              ELSE Append(out, node)]
NormalizeVisiblePath == [path \in Seq(STRING) |->
    LET visible[n \in 0 .. Len(path)] == IF n = 0 THEN << >> ELSE Visit(path[n])[visible[n - 1]]
    IN  visible[Len(path)]]

Last(path) == path[Len(path)]

(* shouldPreferCandidatePath: a shorter way to the same node.              *)
ShouldPreferCandidatePath(current, candidate) ==
    /\ current # << >> /\ candidate # << >>
    /\ Len(current) > Len(candidate)
    /\ Last(current) = Last(candidate)

(* The way the run took is shown as it is.                                 *)
ResolveNodePathAsRun(current, keys) == current

(* resolveNodePath: the path of the tree for one of the keys where it is   *)
(* shorter than the way the run took, or leads further.                    *)
Closer(candidate, keys) == [best \in Seq(STRING) |->
    IF \/ ShouldPreferCandidatePath(best, candidate)
       \/ Len(candidate) > Len(best)
       \/ Len(candidate) = Len(best) /\ Last(best) \notin Elements(keys)
    THEN candidate ELSE best]
InferITSMPath(keys) == [best \in Seq(STRING) |->
    IF "itsm" \in Elements(keys) \ Elements(best) /\ Len(best) = 1 THEN Append(best, "itsm") ELSE best]
ResolveNodePath(current, keys) ==
    LET closest[n \in 0 .. Len(keys)] ==
          IF n = 0 THEN IF current = << >> THEN <<Assistant>> ELSE current
                   ELSE Closer(PathForNode(keys[n]), keys)[closest[n - 1]]
    IN  InferITSMPath(keys)[closest[Len(keys)]]

=============================================================================
