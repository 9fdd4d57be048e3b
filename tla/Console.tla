-------------------------------- MODULE Console ------------------------------
(***************************************************************************)
(* The web interface (src/web/app/src/App.tsx), one page or dialog in use  *)
(* at a time: to those of ConsoleFlows and ConsoleForms, what lists, walks *)
(* and draws: the tables, the mesh and its pictures, the interfaces'       *)
(* picture, links and paths, the rules.                                    *)
(***************************************************************************)
EXTENDS ConsoleFlows, ConsoleForms

CONSTANTS RowIds, SortKey, Sizes, Forests, Links, ScaleMeshes, Meshes, Me, MyName, MeshLooks, IfaceLists, Views,
          ImpNodes, HandFiles, ImpFails, FormSets, FormEdits, CondDepth, LayoutConfigs, Plans, Coming, PictureLooks

Ls == INSTANCE Lists WITH rows <- at, cols <- at, tree <- at
Nl == INSTANCE NodeLink WITH hylink <- at, scale <- at
Ms == INSTANCE Mesh WITH mesh <- at
Np == INSTANCE NodesPicture WITH mesh <- at, route <- at, picture <- at
Dm == INSTANCE IfaceDiagram WITH diag <- at
Rf == INSTANCE RulesFile WITH imp <- at
Rd == INSTANCE RulesForm WITH form <- at
Rl == INSTANCE RulesLayout WITH layout <- at

PageStart(s) ==
  \/ s = "rows" /\ at \in Ls!RowsInits
  \/ s = "cols" /\ at \in Ls!ColsInits
  \/ s = "tree" /\ at \in Ls!TreeInits
  \/ s = "hylink" /\ at \in Nl!HylinkInits
  \/ s = "scale" /\ at \in Nl!ScaleInits
  \/ s = "mesh" /\ at \in Ms!MeshInits
  \/ s = "route" /\ at \in Np!RouteInits
  \/ s = "picture" /\ at \in Np!PictureInits
  \/ s = "plan" /\ at \in Plans
  \/ s = "diag" /\ at \in Dm!DiagInits
  \/ s = "import" /\ at \in Rf!ImpInits
  \/ s = "ruleform" /\ at \in Rd!FormInits
  \/ s = "layout" /\ at \in LayoutConfigs

\* A picture of the rules, a drawing of nodes and an address are looked at as
\* they are.
PageStep(s) ==
  \/ s = "rows" /\ Ls!RowsNext
  \/ s = "cols" /\ Ls!ColsNext
  \/ s = "tree" /\ Ls!TreeNext
  \/ s = "scale" /\ Nl!ScaleNext
  \/ s = "mesh" /\ Ms!MeshNext
  \/ s = "route" /\ Np!RouteNext
  \/ s = "picture" /\ Np!PictureNext
  \/ s = "diag" /\ Dm!DiagNext
  \/ s = "import" /\ Rf!ImpNext
  \/ s = "ruleform" /\ Rd!FormNext

ConsoleInit == \E s \in Scenes : scene = s /\ (FlowStart(s) \/ FormStart(s) \/ PageStart(s))
ConsoleNext == (FlowStep(scene) \/ FormStep(scene) \/ PageStep(scene)) /\ UNCHANGED scene

---------------------------------------------------------------------------
\* A list has every row once over its pages, in order, selects only rows there
\* are and never stands on a page there is not; a table has every column once, a
\* tree its guides.
ListsAreWhole ==
  /\ scene = "rows" => Ls!RowsSound
  /\ scene = "cols" => Ls!ColumnsOnce
  /\ scene = "tree" => Ls!TreeRows

\* The node page shows the mesh as it was reported: each row and dot finds its
\* node, dots of a name are one, the ways to a node are best first, and a way is
\* usable, or a node managed, only as far as the nodes on it allow. The route lit
\* is that of the selected row, over links the mesh has.
MeshAsReported ==
  /\ scene = "mesh" => Ms!RowsResolve /\ Ms!DotsMerge /\ Ms!BestFirst /\ Ms!ChainsAreOpen /\ Ms!ReachIsTrue
  /\ scene = "route" => Np!RouteShown

\* No box of the interfaces' picture lies on another, no line crosses a box, and the
\* columns are the lowest there are. No box of the rules' picture lies on another,
\* except sources above a called set on the true and false of a condition set
\* (AboveBeside). The nodes, in layers or rings, lie apart and in an order no worse
\* than the alphabet's.
PicturesAreClear ==
  /\ scene = "diag" => Dm!DrawnApart /\ Dm!LanesClear /\ Dm!BestColumns
  /\ scene = "layout" => Rl!NothingOverlaps
  /\ scene = "plan" => Np!DrawnWell

\* What was written is what is read: an address of a node, a link to import one, a
\* file of rules, which leaves alone what it does not name, and the text of a rule
\* set in its form, whose conditions are never deeper than the editor shows.
ReadsWhatIsWritten ==
  /\ scene = "hylink" => Nl!ReadAsWritten
  /\ scene = "scale" => Nl!ImportReaches
  /\ scene = "import" => Rf!ImportedAsWritten /\ Rf!ImportSpares
  /\ scene = "ruleform" => Rd!WithinDepth /\ Rd!TextKeepsFlow

\* An action runs on what was selected when it was asked for, a form opens only
\* for a node it can change, and an automatic drawing moves its dots only where a
\* node is new.
NothingUnasked ==
  [][/\ scene = "rows" => Ls!BulkAsAsked
     /\ scene = "mesh" => Ms!OpensWhatIs
     /\ scene = "picture" => Np!DotsStay]_at

\* graphModel.ts:5-10 says that the graph of the nodes "never shows more than the
\* list". It does (a run refutes it).
GraphWithinList == scene = "mesh" => Ms!GraphWithinList
=============================================================================
