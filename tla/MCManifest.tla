------------------------------ MODULE MCManifest ------------------------------
(***************************************************************************)
(* Finite instances of Manifest for TLC: every node of a small vocabulary  *)
(* alone, and pairs of the nodes a validator could mistake for each other. *)
(***************************************************************************)
EXTENDS Manifest

Named(parts)   == [parts |-> parts, marks |-> {}]
GoodUrl        == [scheme |-> "rfc", marks |-> {}]
Urls           == {GoodUrl, [scheme |-> "scp", marks |-> {"noHost"}],
                   [scheme |-> "scp", marks |-> {}], [scheme |-> "other", marks |-> {}],
                   [scheme |-> "rfc", marks |-> {"userDash"}]}

Bare(kind) == [kind |-> kind, crate |-> {}, package |-> {}, profile |-> {}, features |-> {},
               tag |-> {}, dockerfile |-> {}, context |-> {}, manifest |-> {}]
Good == {Bare("git-clone"), Bare("cargo-install"), Bare("docker"), Bare("repolith")}
Bad  == {[Bare("cargo-install") EXCEPT !.features = {{}, {"comma"}}],
         [Bare("cargo-install") EXCEPT !.package = {{"at"}}],
         [Bare("docker") EXCEPT !.tag = {{"charset"}}],
         [Bare("docker") EXCEPT !.context = {{"parent"}}],
         [Bare("repolith") EXCEPT !.manifest = {{"absolute"}}]}

Lists(S) == {<<>>} \cup {<<e>> : e \in S} \cup {<<e, f>> : e, f \in S}
NodeOf(id, git, path, actions) == [id |-> id, git |-> git, path |-> path, actions |-> actions]

Singles ==
    {NodeOf(id, git, path, actions) :
        id \in {Named(<<"a">>), [parts |-> <<"">>, marks |-> {"empty"}]},
        git \in {{}} \cup {{u} : u \in Urls},
        path \in {{}, {"path"}},
        actions \in Lists(Good \cup Bad)}

\* `a::b` is where a name and a prefix could meet.
Mates ==
    {NodeOf(Named(parts), git, path, actions) :
        parts \in {<<"a">>, <<"b">>, <<"a", "b">>},
        git \in {{}, {GoodUrl}},
        path \in {{}, {"path"}},
        actions \in {<<>>, <<Bare("git-clone")>>, <<Bare("docker")>>,
                     <<Bare("git-clone"), Bare("docker")>>, <<Bare("repolith"), Bare("cargo-install")>>}}

V(numbers, suffix) == [schema |-> [numbers |-> numbers, suffix |-> suffix], nodes |-> <<>>]

MCManifests ==
    {V(<<0>>, "none"), V(<<0, 1>>, "none"), V(<<0, 1>>, "build"), V(<<0, 1, 3>>, "none"),
     V(<<0, 1, 3>>, "build"), V(<<0, 1, 3>>, "pre"), V(<<0, 2>>, "none")}
      \cup {[V(<<0, 1>>, "none") EXCEPT !.nodes = <<n>>] : n \in Singles}
      \cup {[V(<<0, 1>>, "none") EXCEPT !.nodes = <<n, m>>] : n, m \in Mates}

MCPrefixes == {<<>>, <<"a">>, <<"b">>}
MCFilters  == {{}, {<<>>}, {<<"docker">>}, {<<"b", "git-clone">>}}
=============================================================================
