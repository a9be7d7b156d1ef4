----------------------------- MODULE FileLightData -----------------------------
(***************************************************************************)
(* What a plot of the data at a site, or of a group, is drawn from         *)
(* (Overview/FileLight.py): the blocks the site has, those the request     *)
(* asks for, put under names by a scheme of parts and added up in a tree.  *)
(* The name of a block has the parts dataset, prod, cond, tiers and id;    *)
(* one that cannot be read is in the model a block with known |-> FALSE,   *)
(* whose only name is that of its dataset.  A text of a request is a       *)
(* sequence of parts, the mark : being one; a parameter that is not given  *)
(* is not in the domain of attrs.  attrs.matches are the datasets that the *)
(* filter finds.                                                           *)
(***************************************************************************)
EXTENDS Integers, Sequences, FiniteSetsExt, SequencesExt

(* plot(): the key of the image of a site, and of that of a group.  What is*)
(* not given is written False; what is given counts, whatever it says.     *)
Text(attrs, name) == IF name \in DOMAIN attrs THEN attrs[name] ELSE <<"False">>
On(attrs, name) == name \in DOMAIN attrs /\ attrs[name] # <<>>

Optional == <<"custodial", "incomplete", "subscribed", "filter", "scheme">>
SiteKey(site, attrs) ==
  FoldLeft(LAMBDA key, name : key \o <<":">> \o Text(attrs, name),
           <<"FL_NODEPLOT", ":", site, ":", attrs.type, ":", attrs.size>>, Optional)

GroupKey(group, attrs) == <<"FL_GROUPPLOT", group, attrs.type, attrs.size>>

--------------------------------------------------------------------------------
(* _nodeData: of the blocks of a site, those with one replica there.       *)
NodeData(replies) == {b \in replies : b.replicas = 1}

(* _groupData: what a node has of the group; 0 where it has nothing.       *)
GroupData(usage) == [n \in DOMAIN usage |-> IF Len(usage[n]) = 1 THEN usage[n][1] ELSE 0]

(* NodeTransform: the parts a block can be named by.                       *)
Parts == {"complete", "custodial", "subscribed", "group", "dataset", "prod", "cond",
          "tiers", "id"}

Part(part, b) ==
  CASE part = "complete" -> IF b.complete THEN "Complete" ELSE "Incomplete"
    [] part = "custodial" -> IF b.custodial THEN "Custodial" ELSE "Non-Custodial"
    [] part = "subscribed" -> IF b.subscribed THEN "Subscribed" ELSE "Non-Subscribed"
    [] part = "group" -> b.group
    [] part \in {"dataset", "prod", "cond", "tiers", "id"} ->
         IF b.known THEN b.name[part] ELSE "Unknown"

(* The scheme that is usual, also by name; parts that are not known are    *)
(* left out of another, and one that is left with none, or more than ten,  *)
(* is the usual one.                                                       *)
UsualScheme == <<"prod", ":", "cond", ":", "tiers", ":", "dataset">>
UsualParts == <<"prod", "cond", "tiers", "dataset">>
SchemeOf(attrs) ==
  LET known == SelectSeq(Text(attrs, "scheme"), LAMBDA p : p \in Parts)
  IN IF Text(attrs, "scheme") = UsualScheme \/ Len(known) > 10 THEN <<>> ELSE known

Split(attrs, b) ==
  LET scheme == SchemeOf(attrs) IN
  IF scheme # <<>> THEN [i \in DOMAIN scheme |-> Part(scheme[i], b)]
  ELSE IF b.known THEN [i \in DOMAIN UsualParts |-> b.name[UsualParts[i]]]
  ELSE <<b.name.dataset>>

Wanted(attrs, b) ==
  /\ b.complete \/ On(attrs, "incomplete")
  /\ On(attrs, "custodial") => b.custodial
  /\ On(attrs, "subscribed") => b.subscribed
  /\ On(attrs, "filter") => b.name.dataset \in attrs.matches

Transform(attrs, blocks) ==
  LET wanted == {b \in blocks : Wanted(attrs, b)}
  IN [k \in {Split(attrs, b) : b \in wanted} |->
        MapThenSumSet(LAMBDA b : b.size, {c \in wanted : Split(attrs, c) = k})]

(* The sites of a group: tier, country and the rest of the name, if it has *)
(* all of them.                                                            *)
site_name_splitter(name) ==
  IF Len(name) >= 3 THEN <<<<name[1]>>, <<name[2]>>, SubSeq(name, 3, Len(name))>> ELSE <<name>>
GroupSizes(sizes) ==
  [p \in {site_name_splitter(n) : n \in DOMAIN sizes} |->
     sizes[CHOOSE n \in DOMAIN sizes : site_name_splitter(n) = p]]

--------------------------------------------------------------------------------
(* The tree: every name adds its size to the root, and to each node on its *)
(* way.  The children of a node are in no order; a node is named by its    *)
(* path.                                                                   *)
RECURSIVE Tree(_, _)
Tree(sizes, path) ==
  LET under == {p \in DOMAIN sizes : IsPrefix(path, p)}
      next == {p[Len(path) + 1] : p \in {q \in under : Len(q) > Len(path)}}
      children == SetToSeq(next)
  IN [name |-> path,
      value |-> MapThenSumSet(LAMBDA p : sizes[p], under),
      children |-> [i \in DOMAIN children |-> Tree(sizes, Append(path, children[i]))]]
================================================================================
