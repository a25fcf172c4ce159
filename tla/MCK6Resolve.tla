---------------------------- MODULE MCK6Resolve ----------------------------
(***************************************************************************)
(* Command lines for K6Resolve: the ones that take the latest k6 or follow *)
(* the extensions, and the ones that name a version.                       *)
(***************************************************************************)
EXTENDS K6Resolve

Kind(k) == [kind |-> k, major |-> 0, minor |-> 0]
Pre(m) == [kind |-> "pre", major |-> m, minor |-> 0]

Build(fork, suffix, v, exts) ==
    [cmd |-> "build", fork |-> fork, suffix |-> suffix, version |-> v, exts |-> exts]
Local(cmd, v, e) ==
    [cmd |-> cmd, fork |-> FALSE, suffix |-> 1, version |-> v, exts |-> <<e>>]

Dir(readable, requires) ==
    [local |-> TRUE, pinned |-> FALSE, readable |-> readable, requires |-> requires]
Remote(pinned, readable, requires) ==
    [local |-> FALSE, pinned |-> pinned, readable |-> readable, requires |-> requires]

\* Extensions of every sort: on disk, at the proxy with and without a version,
\* unreadable, silent about k6, and with both majors of k6 in their go.mod.
Dirs == {Dir(TRUE, <<>>), Dir(TRUE, <<1, 2>>), Dir(FALSE, <<>>)}
Exts == Dirs \cup {Remote(TRUE, TRUE, <<2>>), Remote(FALSE, TRUE, <<1>>),
                   Remote(FALSE, FALSE, <<2>>), Remote(TRUE, TRUE, <<>>)}

\* Requests that end in the newest k6, or in the one an extension requires.
LatestRequests ==
    {Build(FALSE, 1, Kind("latest"), exts) :
        exts \in {<<>>} \cup {<<e>> : e \in Exts} \cup {<<e, f>> : e, f \in Exts}}
    \cup {Build(TRUE, s, Kind("latest"), <<>>) : s \in {1, 2}}
    \cup {Local("lint", Kind("latest"), e) : e \in Dirs}
    \cup {Local("sync", Kind("unset"), e) : e \in Dirs}

\* Requests that name a version.
VersionRequests ==
    LET Versions == {Release(1, 1), Release(3, 1), Pre(2), Kind("ref")} IN
    {Build(fork, 1, v, <<>>) : fork \in BOOLEAN, v \in Versions}
    \cup {Build(FALSE, 2, Kind("ref"), <<>>)}
    \cup {Local("sync", v, Dir(TRUE, <<1>>)) : v \in Versions \cup {Kind("latest")}}

AllRequests == LatestRequests \cup VersionRequests
==============================================================================
