---------------------------- MODULE ServerBase ----------------------------
(***************************************************************************)
(* Vocabulary shared by the server modules: the identifiers that appear in *)
(* packets and the two map operations the server's BTreeMaps are used      *)
(* with.  A BTreeMap is a function whose DOMAIN is its set of keys.        *)
(*                                                                         *)
(* A ClientId or RunId is the sequence of its '/'-separated segments, so   *)
(* that the blank identifier is << >> and format!("{}/{}", a, b) is a \o b.*)
(***************************************************************************)
EXTENDS Naturals, Sequences

CONSTANTS
    Clients,    \* client ids that occur in packets and requests
    Runs,       \* run ids that occur in packets and requests
    Sources     \* UDP endpoints packets come from

\* BTreeMap::insert: binds k to v, replacing what k was bound to.
MapInsert(m, k, v) == [x \in DOMAIN m \cup {k} |-> IF x = k THEN v ELSE m[x]]

\* BTreeMap::remove: unbinds k.
MapRemove(m, k) == [x \in DOMAIN m \ {k} |-> m[x]]

\* The map without bindings.
EmptyMap == [x \in {} |-> x]

===========================================================================
