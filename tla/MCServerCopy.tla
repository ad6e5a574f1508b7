---------------------------- MODULE MCServerCopy ----------------------------
(* An instance of ServerCopy for TLC: the panel shows a file f, and a directory *)
(* d with a link l back to the panel's directory; another client may add a     *)
(* file g to d.                                                               *)
EXTENDS ServerCopy

MCPaths == {"top", "f", "d", "g", "l"}
MCParent == [p \in MCPaths \ {"top"} |-> IF p \in {"g", "l"} THEN "d" ELSE "top"]
MCLinkTo == [p \in {"l"} |-> "top"]
MCSource == [p \in MCPaths |->
  CASE p = "f" -> Whole
    [] p \in {"top", "d"} -> Folder
    [] p = "l" -> Link
    [] OTHER -> NoEntry]

\* A tree with nothing but its root and what is named.
Tree(named) == [p \in MCPaths |->
  CASE p = "top" -> Folder [] p \in DOMAIN named -> named[p] [] OTHER -> NoEntry]
MCOldDisk ==
  {Tree(<<>>), Tree([f |-> File(<<"other", "other">>)]),
   Tree([f |-> Folder, d |-> Folder, g |-> File(<<"other">>)])}
MCOldTarget ==
  {Tree(<<>>),
   Tree([f |-> File(<<"other">>), d |-> Folder, g |-> File(<<"other", "other">>)])}

=============================================================================
