-------------------------- MODULE MCWatchTriggers --------------------------
(* Small instances of WatchTriggers for TLC. *)
EXTENDS WatchTriggers

CONSTANTS s1, s2, n1, n2, x, k1, red, blue, isRed

OtherNamespace == [s \in Sets |-> IF s = s1 THEN n1 ELSE n2]

Git == [kind |-> "GitRepository", ref |-> x]
Oci == [kind |-> "OCIRepository", ref |-> x]
Image == [kind |-> "ImagePolicy", ref |-> x]
Config == [kind |-> "ConfigMap", ref |-> x]
Reds == [kind |-> "Cluster", ref |-> isRed]
AllClusters == [kind |-> "Cluster", ref |-> NoSelector]
Every(n) == [kind |-> "PullRequests", ref |-> n]
Ask(n) == [kind |-> "APIClient", ref |-> n]

MCMatching == {<<isRed, red>>}

\* All but OCIRepository.
MCEnabled == {"GitRepository", "PullRequests", "List", "APIClient", "Matrix", "Config",
              "Cluster", "ImagePolicy"}

Source(kind, ns) == [kind |-> kind, ns |-> ns, name |-> x]
Just(top, matrix) == [top |-> top, matrix |-> matrix]
On(generators) == [suspend |-> FALSE, generators |-> generators]
Off(generators) == [suspend |-> TRUE, generators |-> generators]

MCSources == {Source("GitRepository", n1), Source("ImagePolicy", n1), Source("ConfigMap", n2)}

\* A repository by each red cluster, an image in a matrix that is polled, next to
\* a service asked less often, a source and a service, a generator that is not
\* enabled, and a suspended set.
MCSpecs == {On({Just({Git}, {Reds})}),
            On({Just({Ask(3)}, {Image, Every(2)})}),
            On({Just({Config}, {}), Just({Ask(1)}, {})}),
            On({Just({Oci}, {})}),
            Off({Just({Git}, {Reds})})}

\* A generator of every cluster.
ClusterSpecs == {On({Just({AllClusters}, {})})}
=============================================================================
