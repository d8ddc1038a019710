---------------------------- MODULE KDTreeDetector ----------------------------
(***************************************************************************)
(* speculor::KDTree and KDTreeDetector (src/detectors/kdtree_detector.cpp).*)
(* The tree is the sequence of its nodes in the order of insertion; left   *)
(* and right are places in it, 0 is the null pointer, the root is node 1.  *)
(* A point is <<length of the metric's name, value>>, all of them at       *)
(* integral distances, and the search compares squares.                    *)
(***************************************************************************)
EXTENDS DetectorEvents, FiniteSetsExt, SequencesExt

CONSTANTS
    Feature,             \* [Events -> points]
    MaxPoints,           \* max_points_
    K,                   \* k_neighbors_
    Reach,               \* the distance 100.0 at which a score is 0
    Far                  \* the 1e9 that stands for "no neighbour", squared

Squared(p, q) == (p[1] - q[1]) * (p[1] - q[1]) + (p[2] - q[2]) * (p[2] - q[2])
SquaredDistances == {Squared(Feature[e], Feature[f]) : e, f \in Events}

ASSUME FeatureAssumption == Feature \in [Events -> Nat \X Nat]
ASSUME NeighboursAssumption ==
    K \in Nat \ {0} /\ MaxPoints \in Nat \ {0} /\ Reach \in Nat \ {0} /\ Far \in Nat
ASSUME DistancesAssumption ==
    \A d \in SquaredDistances : d < Far /\ \E r \in 0 .. d : r * r = d

VARIABLES
    tree,                \* tree_
    recent               \* recent_points_

kdVars == <<tree, recent>>

Nodes == [point : Nat \X Nat, axis : 1 .. 2, left : Nat, right : Nat]

KdInit == tree = <<>> /\ recent = <<>>

\* A point goes to the left of a node when it is smaller on the node's axis.
GoesLeft(node, p) == p[node.axis] < node.point[node.axis]
Near(node, p) == IF GoesLeft(node, p) THEN node.left ELSE node.right
Other(node, p) == IF GoesLeft(node, p) THEN node.right ELSE node.left

\* insert: down to the null pointer where the point belongs.
Inserted(p) ==
    LET place[n \in DOMAIN tree] ==
            IF Near(tree[n], p) = 0 THEN n ELSE place[Near(tree[n], p)]
        parent == place[1]
        new == Len(tree) + 1
        node(axis) == [point |-> p, axis |-> axis, left |-> 0, right |-> 0]
    IN  IF tree = <<>>
        THEN <<node(1)>>
        ELSE Append([tree EXCEPT ![parent] = IF GoesLeft(@, p) THEN [@ EXCEPT !.left = new]
                                             ELSE [@ EXCEPT !.right = new]],
                    node(3 - tree[parent].axis))

\* The tree keeps what recent_points_ forgets.
KdUpdate(e) ==
    /\ recent' = Append(IF Len(recent) >= MaxPoints THEN Tail(recent) ELSE recent, Feature[e])
    /\ tree' = Inserted(Feature[e])

KdReset == tree' = <<>> /\ recent' = <<>>

\* KDTree::serialize: every node before what is on its left, then on its right; a
\* null pointer is flag 0.
Preorder ==
    LET nodes[n \in 0 .. Len(tree)] ==
            IF n = 0 THEN <<[flag |-> 0]>>
            ELSE <<[flag |-> 1, point |-> tree[n].point, axis |-> tree[n].axis]>>
                     \o nodes[tree[n].left] \o nodes[tree[n].right]
    IN  nodes[IF tree = <<>> THEN 0 ELSE 1]

\* KDTree::deserialize: the nodes of the subtree that begins at the token from, the
\* first of them number known + 1.  A subtree of n nodes has 2n + 1 tokens; behind the
\* last token there is nothing.
TreeRead(data) ==
    LET read[from \in Nat \ {0}] == [known \in Nat |->
            LET join[below \in Seq(Nodes)] == [above \in Seq(Nodes) |->
                    <<[point |-> data[from].point, axis |-> data[from].axis,
                       left |-> IF below = <<>> THEN 0 ELSE known + 2,
                       right |-> IF above = <<>> THEN 0 ELSE known + 2 + Len(below)]>>
                        \o below \o above]
                rest[below \in Seq(Nodes)] ==
                    join[below][read[from + 2 + 2 * Len(below)][known + 1 + Len(below)]]
            IN  IF from > Len(data) \/ data[from].flag = 0
                THEN <<>> ELSE rest[read[from + 1][known + 1]]]
    IN  read[1][0]

KdSerialized == [tree |-> Preorder, recent |-> recent]

\* Mutant: the list of recent points is not read back.
KdDeserializeTreeOnly(data) == tree' = TreeRead(data.tree) /\ recent' = <<>>

\* max_points_ and k_neighbors_ are in the blob too, and the same.
KdDeserialize(data) == tree' = TreeRead(data.tree) /\ recent' = data.recent

\* The values of best_distances: K of them, in their order.
Best == {best \in [1 .. K -> Nat] : \A i, j \in 1 .. K : i <= j => best[i] <= best[j]}

\* std::sort
Sorted(s) ==
    CHOOSE t \in {[i \in DOMAIN s |-> s[p[i]]] : p \in Bijection(DOMAIN s, DOMAIN s)} :
        \A i, j \in DOMAIN s : i <= j => t[i] <= t[j]

\* best_distances with one more candidate: the last gives way to a smaller one.
Noted(best, d) == IF d < best[K] THEN Sorted([best EXCEPT ![K] = d]) ELSE best

\* Mutant: the plane is compared with the best distance, not with the last one.
CrossesPlaneFirst(best, plane) == plane < best[1]

CrossesPlane(best, plane) == plane < best[K]

\* nearest_recursive: the near side first, the other one if the dividing plane is
\* closer than the worst of the distances found.
Nearest(p) ==
    LET visit[n \in 0 .. Len(tree)] == [best \in Best |->
            LET node == tree[n]
                plane == p[node.axis] - node.point[node.axis]
                beyond[found \in Best] ==
                    IF CrossesPlane(found, plane * plane) THEN visit[Other(node, p)][found] ELSE found
            IN  IF n = 0 THEN best
                ELSE beyond[visit[Near(node, p)][Noted(best, Squared(p, node.point))]]]
    IN  visit[IF tree = <<>> THEN 0 ELSE 1][[i \in 1 .. K |-> Far]]

Root(d) == CHOOSE r \in 0 .. d : r * r = d

\* The loop over the distances found: <<sum, count>>, which make the mean.
Mean(best) ==
    LET mean[i \in 0 .. K] ==
            IF i = 0 THEN <<0, 0>>
            ELSE IF best[i] < Far
                 THEN <<mean[i - 1][1] + Root(best[i]), mean[i - 1][2] + 1>>
                 ELSE mean[i - 1]
    IN  mean[K]

NearestDistance(p) ==
    LET mean[best \in Best] == Mean(best)
    IN  mean[Nearest(p)]

\* 1 - min(1, nearest_distance / 100)
KdScore(e) ==
    LET similarity[mean \in Nat \X Nat] ==
            FullScore - Min({FullScore, (FullScore * mean[1]) \div (Reach * mean[2])})
    IN  IF recent = <<>> THEN 0 ELSE similarity[NearestDistance(Feature[e])]
==============================================================================
