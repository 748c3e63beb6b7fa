---------------------------- MODULE SchemaBundle ----------------------------
(***************************************************************************)
(* The generator of the app-server JSON schemas                            *)
(* (src/crates/app-server-protocol/src/export.rs, generate_json): one file *)
(* per emitted type, a bundle of all of them, and for the stable API a     *)
(* filter that takes the experimental methods, fields and types out of     *)
(* both.  The derive of ExperimentalApi (codex-experimental-api-macros)    *)
(* and the request table of protocol/common.rs supply what is experimental *)
(* and decide at run time whether a request needs the capability.          *)
(*                                                                         *)
(* A schema is abstracted to what it names: its Rust type, the references  *)
(* it holds, the method variants of a request enum with the reference of   *)
(* each to its params, and its members (the fields of a struct or the      *)
(* variants of an enum).  Several Rust types may carry one schema name.    *)
(***************************************************************************)
EXTENDS Naturals, Sequences, FiniteSets

CONSTANTS
    Types,            \* Rust types that have a schema
    NameOf,           \* NameOf[t]: the schema name of t
    MembersOf,        \* MembersOf[t]: the fields or variants of t
    Enums,            \* the types that are enums
    Methods,          \* the methods of ClientRequest and ServerNotification
    ParamsOf,         \* ParamsOf[m]: the type of the params of m
    TitleOf,          \* TitleOf[m]: the title generated for m's variant
    StrippedIn,       \* StrippedIn[n]: the methods left out of schema file n
    MarkedMethods,    \* methods with #[experimental(...)]
    MarkedMembers,    \* <<type, member>> with #[experimental(...)]
    Inspected,        \* methods with inspect_params: true
    MarkedTypes,      \* the params and responses of the marked methods
    Special,          \* SPECIAL_DEFINITIONS
    V1Allowed,        \* JSON_V1_ALLOWLIST
    Trees,            \* the source trees generated from: see TreeOK
    Runs              \* bound: generations in one behaviour

TreeOK(w) ==
    /\ w.emit \in Seq([type : Types, dir : {"root", "v1", "v2"}])
    /\ w.uses \in [Types -> SUBSET Types]
    /\ w.variants \in [Types -> SUBSET Methods]

TreesWellFormed == \A w \in Trees : TreeOK(w)

VARIABLES
    tree,             \* the source the generator is built from
    experimental,     \* experimental_api
    pc,               \* "emit" .. "filter" .. "done" | "failed" | "panicked"
    schemas,          \* schemas emitted so far
    definitions,      \* the bundle: <<namespace, name>> -> schema
    files,            \* the directory: <<dir, name>> -> [root, defs]
    bundle,           \* the definitions in the written bundle file
    unfiltered,       \* files filter_experimental_json_files has yet to rewrite
    runs

vars == <<tree, experimental, pc, schemas, definitions, files, bundle,
          unfiltered, runs>>

-----------------------------------------------------------------------------
(* Schemas.  A reference is <<namespace, name>>; "root" is no namespace.   *)

Local(t) == <<"root", NameOf[t]>>

SchemaOf(t) ==
    [type     |-> t,
     refs     |-> {Local(u) : u \in tree.uses[t]},
     variants |-> {[method |-> m, ref |-> Local(ParamsOf[m])] :
                       m \in tree.variants[t]},
     members  |-> MembersOf[t]]

RefsOf(s) == s.refs \cup {v.ref : v \in s.variants}

\* The least set holding S and closed under next, a function to sets.
Closure(S, next) ==
    LET grow[n \in Nat] ==
            IF n = 0 THEN S
            ELSE grow[n - 1] \cup
                 UNION {next[x] : x \in grow[n - 1] \cap DOMAIN next}
    IN  grow[Cardinality(DOMAIN next) + 1]

NeededBy(t) == tree.uses[t] \cup {ParamsOf[m] : m \in tree.variants[t]}

\* The types schema_for!(T) puts under "definitions".
UsedBy(t) == Closure(NeededBy(t), [u \in Types |-> NeededBy(u)]) \ {t}

Names(S) == {NameOf[t] : t \in S}

\* The methods taken out of the schema of t when it is written.
Stripped(t) == IF NameOf[t] \in DOMAIN StrippedIn THEN StrippedIn[NameOf[t]] ELSE {}

\* What t uses without them.
StillUsedBy(t) ==
    Closure(tree.uses[t] \cup {ParamsOf[m] : m \in tree.variants[t] \ Stripped(t)},
            [u \in Types |-> NeededBy(u)]) \ {t}

\* Of two types of one name the file has the one that is still used.
SchemaFor(t) ==
    LET defined(n) ==
            CHOOSE u \in UsedBy(t) :
                /\ NameOf[u] = n
                /\ u \in StillUsedBy(t) \/ n \notin Names(StillUsedBy(t))
    IN  [root |-> SchemaOf(t),
         defs |-> [n \in Names(UsedBy(t)) |-> SchemaOf(defined(n))]]

\* Two types of one name that are left in one file: the second has a number and
\* detect_numbered_definition_collisions panics.
NumberedCollision(t) ==
    \E u, v \in StillUsedBy(t) : u # v /\ NameOf[u] = NameOf[v]

reachable_local_definitions(f) ==
    Closure({r[2] : r \in RefsOf(f.root)},
            [n \in DOMAIN f.defs |-> {r[2] : r \in RefsOf(f.defs[n])}])

strip_method_variants(f, gone) ==
    LET kept == [f EXCEPT !.root.variants = {v \in @ : v.method \notin gone}]
    IN  [kept EXCEPT !.defs =
            [n \in DOMAIN f.defs \cap reachable_local_definitions(kept) |->
                f.defs[n]]]

\* annotate_variant_list panics when a generated title is taken.
title_collision(f) ==
    \E v, w \in f.root.variants :
        v.method # w.method /\ TitleOf[v.method] = TitleOf[w.method]

FileOf(t) ==
    IF Stripped(t) = {} THEN SchemaFor(t)
    ELSE strip_method_variants(SchemaFor(t), Stripped(t))

-----------------------------------------------------------------------------
(* What is experimental.                                                   *)

\* The derive registers the marked fields of structs, by schema name.
experimental_fields == {<<NameOf[p[1]], p[2]>> :
                            p \in {q \in MarkedMembers : q[1] \notin Enums}}

experimental_method_types == Names(MarkedTypes)

filter_schema(s, n) ==
    [s EXCEPT !.members = {x \in @ : <<n, x>> \notin experimental_fields},
              !.variants = {v \in @ : v.method \notin MarkedMethods}]

filter_file(f) ==
    [root |-> filter_schema(f.root, NameOf[f.root.type]),
     defs |-> [n \in DOMAIN f.defs \ experimental_method_types |->
                  filter_schema(f.defs[n], n)]]

filter_bundle(d) ==
    [r \in {q \in DOMAIN d : q[2] \notin experimental_method_types} |->
        filter_schema(d[r], r[2])]

\* presence_expr: a member given as null, false or empty does not count as given.
Valued(given) == SUBSET given

\* experimental_reason of a request that gives these members of its params a value.
experimental_reason(m, valued) ==
    \/ m \in MarkedMethods
    \/ m \in Inspected /\ \E x \in valued : <<ParamsOf[m], x>> \in MarkedMembers

-----------------------------------------------------------------------------
(* build_schema_bundle.                                                    *)

\* rewrite_refs_to_namespace, on the references to these names.
rewrite_refs(s, ns, names) ==
    LET to(r) == IF r[1] = "root" /\ r[2] \in names THEN <<ns, r[2]>> ELSE r
    IN  [s EXCEPT !.refs = {to(r) : r \in @},
                  !.variants = {[v EXCEPT !.ref = to(@)] : v \in @}]

AllNames == Names(Types)

collect_namespaced_types ==
    LET all == {schemas[i] : i \in DOMAIN schemas}
    IN  UNION {{NameOf[s.file.root.type]} \cup DOMAIN s.file.defs :
                  s \in {x \in all : x.dir = "v2"}}

\* The definitions one schema adds to the bundle; they replace those there.
AddedBy(s) ==
    LET name   == NameOf[s.file.root.type]
        kept   == DOMAIN s.file.defs \ Special
        forced == IF s.dir = "root" THEN kept \cap collect_namespaced_types
                  ELSE {}
    IN  IF s.dir = "v2"
        THEN [r \in {"v2"} \X (kept \cup {name}) |->
                 rewrite_refs(IF r[2] = name THEN s.file.root
                                             ELSE s.file.defs[r[2]],
                              "v2", AllNames)]
        ELSE [r \in {"root"} \X ((kept \ forced) \cup {name}) |->
                 IF r[2] = name
                 THEN rewrite_refs(s.file.root, "v2", forced)
                 ELSE s.file.defs[r[2]]]

Override(f, g) == [x \in DOMAIN f \cup DOMAIN g |->
                      IF x \in DOMAIN g THEN g[x] ELSE f[x]]

-----------------------------------------------------------------------------
(* generate_json_with_experimental.                                        *)

Empty == [x \in {} |-> x]

Init ==
    /\ tree \in Trees
    /\ experimental \in BOOLEAN
    /\ pc = "emit"
    /\ schemas = <<>> /\ definitions = Empty
    /\ files = Empty /\ bundle = Empty
    /\ unfiltered = {}
    /\ runs = 1

Emitted(i) == tree.emit[i]

GeneratedSchema(f, e) == [file |-> f, dir |-> e.dir]

InJson(e) == e.dir # "v1" \/ NameOf[e.type] \in V1Allowed

\* write_json_schema_with_return: a legacy type is generated and dropped.
write_json_schema ==
    /\ pc = "emit"
    /\ Len(schemas) < Len(tree.emit)
    /\ LET e == Emitted(Len(schemas) + 1)
           f == IF InJson(e) THEN FileOf(e.type) ELSE SchemaFor(e.type)
       IN  /\ schemas' = Append(schemas, GeneratedSchema(f, e))
           /\ IF InJson(e) /\ (NumberedCollision(e.type) \/ title_collision(f))
              THEN pc' = "panicked" /\ UNCHANGED files
              ELSE /\ UNCHANGED pc
                   /\ files' = IF InJson(e)
                               THEN Override(files, [p \in
                                   {<<e.dir, NameOf[e.type]>>} |-> f])
                               ELSE files
    /\ UNCHANGED <<tree, experimental, definitions, bundle, unfiltered, runs>>

\* All are written: the legacy ones leave the list, the bundle is built and,
\* for the stable API, filtered.
build_schema_bundle ==
    /\ pc = "emit"
    /\ Len(schemas) = Len(tree.emit)
    /\ LET keep(s) == s.dir # "v1" \/ NameOf[s.file.root.type] \in V1Allowed
           kept == SelectSeq(schemas, keep)
           add[n \in 0..Len(kept)] ==
               IF n = 0 THEN Empty ELSE Override(add[n - 1], AddedBy(kept[n]))
       IN  definitions' = IF experimental THEN add[Len(kept)]
                          ELSE filter_bundle(add[Len(kept)])
    /\ pc' = "bundle"
    /\ UNCHANGED <<tree, experimental, schemas, files, bundle, unfiltered, runs>>

\* mistake: only what this source emits is filtered
EmittedFiles ==
    DOMAIN files \cap {<<tree.emit[i].dir, NameOf[tree.emit[i].type]>> : i \in DOMAIN tree.emit}

\* json_files_in_recursive: all that the directory holds
JsonFiles == DOMAIN files

WriteBundle ==
    /\ pc = "bundle"
    /\ bundle' = definitions
    /\ pc' = IF experimental THEN "done" ELSE "filter"
    /\ unfiltered' = IF experimental THEN {} ELSE JsonFiles
    /\ UNCHANGED <<tree, experimental, schemas, definitions, files, runs>>

\* read_dir lists the files in any order.
filter_experimental_json_file ==
    /\ pc = "filter"
    /\ \E p \in unfiltered :
          /\ files' = [files EXCEPT ![p] = filter_file(@)]
          /\ unfiltered' = unfiltered \ {p}
    /\ UNCHANGED <<tree, experimental, pc, schemas, definitions, bundle, runs>>

remove_generated_type_files ==
    /\ pc = "filter"
    /\ unfiltered = {}
    /\ files' = [p \in {q \in DOMAIN files :
                           q[2] \notin experimental_method_types} |-> files[p]]
    /\ pc' = "done"
    /\ UNCHANGED <<tree, experimental, schemas, definitions, bundle,
                   unfiltered, runs>>

\* A write or a read fails: the error is returned, what is written stays.
Fail ==
    /\ pc \in {"emit", "bundle", "filter"}
    /\ pc' = "failed"
    /\ UNCHANGED <<tree, experimental, schemas, definitions, files, bundle,
                   unfiltered, runs>>

\* A generation begins, from this source or a changed one.
GenerateAgain ==
    /\ pc \in {"done", "failed", "panicked"}
    /\ runs < Runs
    /\ tree' \in Trees
    /\ pc' = "emit"
    /\ schemas' = <<>> /\ definitions' = Empty
    /\ unfiltered' = {}
    /\ runs' = runs + 1

\* The fixtures are regenerated in a directory ensure_empty_dir has emptied.
write_schema_fixtures ==
    /\ GenerateAgain
    /\ experimental' \in BOOLEAN
    /\ files' = Empty /\ bundle' = Empty

\* bin/export.rs generates into a directory as it is.
generate_json ==
    /\ GenerateAgain
    /\ experimental' = FALSE
    /\ UNCHANGED <<files, bundle>>

Next ==
    \/ write_json_schema \/ build_schema_bundle \/ WriteBundle
    \/ filter_experimental_json_file \/ remove_generated_type_files
    \/ Fail \/ write_schema_fixtures \/ generate_json

Spec == Init /\ [][Next]_vars

-----------------------------------------------------------------------------
(* What the generated schemas must be.                                     *)

Done == pc = "done"

(* One type invariant for the module.                                      *)
TypeOK ==
    /\ tree \in Trees /\ experimental \in BOOLEAN /\ runs \in 1..Runs
    /\ pc \in {"emit", "bundle", "filter", "done", "failed", "panicked"}
    /\ DOMAIN files \subseteq {"root", "v1", "v2"} \X AllNames
    /\ DOMAIN definitions \subseteq {"root", "v2"} \X AllNames
    /\ unfiltered \subseteq DOMAIN files

(* A finished file needs no other file: every reference it holds, after    *)
(* variants are stripped and experimental parts are filtered, resolves to  *)
(* a definition in it (reachable_local_definitions, filter_file).          *)
FilesSelfContained ==
    Done => \A p \in DOMAIN files :
        LET f == files[p]
        IN  /\ \A r \in RefsOf(f.root) :
                  r[2] \in DOMAIN f.defs \cup {NameOf[f.root.type]}
            /\ \A n \in DOMAIN f.defs : \A r \in RefsOf(f.defs[n]) :
                  r[2] \in DOMAIN f.defs \cup {NameOf[f.root.type]}

Hidden(s, n) ==
    /\ \A v \in s.variants : v.method \notin MarkedMethods
    /\ \A x \in s.members : <<n, x>> \notin experimental_fields

(* A finished stable generation names no experimental method, registered   *)
(* field or type, neither in the files nor in the bundle, whatever an      *)
(* experimental or a failed one before it has left in the directory.       *)
StableHidesExperimental ==
    (Done /\ ~experimental) =>
        /\ \A p \in DOMAIN files :
              /\ p[2] \notin experimental_method_types
              /\ Hidden(files[p].root, p[2])
              /\ \A n \in DOMAIN files[p].defs :
                    n \notin experimental_method_types
                    /\ Hidden(files[p].defs[n], n)
        /\ \A r \in DOMAIN bundle :
              r[2] \notin experimental_method_types /\ Hidden(bundle[r], r[2])

(* The filters take nothing stable: a finished generation still has every  *)
(* emitted stable type, with its unmarked members and its unmarked,        *)
(* unstripped methods, in its file and in the bundle.                      *)
StableKeepsTheRest ==
    Done => \A i \in DOMAIN tree.emit :
        LET t == tree.emit[i].type
            dir == tree.emit[i].dir
            n == NameOf[t]
            whole(s) ==
                /\ s.type = t
                /\ {x \in MembersOf[t] : <<t, x>> \notin MarkedMembers}
                       \subseteq s.members
                /\ tree.variants[t] \ (MarkedMethods \cup Stripped(t))
                       \subseteq {v.method : v \in s.variants}
        IN  (InJson(tree.emit[i]) /\ t \notin MarkedTypes) =>
                /\ <<dir, n>> \in DOMAIN files
                /\ whole(files[<<dir, n>>].root)
                /\ LET r == <<IF dir = "v2" THEN "v2" ELSE "root", n>>
                   IN  r \in DOMAIN bundle /\ whole(bundle[r])

(* No two variants of a written enum share a title.                        *)
TitlesDistinct ==
    \A p \in DOMAIN files : \A v, w \in files[p].root.variants :
        TitleOf[v.method] = TitleOf[w.method] => v.method = w.method

(* Inside the namespace the bundle is closed: a definition under v2 refers *)
(* only to definitions under v2 that exist.                                *)
NamespaceClosed ==
    Done => \A r \in DOMAIN bundle :
        r[1] = "v2" => \A q \in RefsOf(bundle[r]) :
            q[1] = "v2" /\ q \in DOMAIN bundle

(* The bundle refers only to definitions it has.                           *)
\* The code does not keep this: see README.
BundleRefsResolve ==
    Done => \A r \in DOMAIN bundle : RefsOf(bundle[r]) \subseteq DOMAIN bundle

(* What a legacy type of the top level refers to in its own file, it       *)
(* refers to in the bundle: the namespace keeps equal names apart.         *)
\* The code does not keep this: see README.
RootRefsKeepTheirType ==
    Done => \A p \in {q \in DOMAIN files : q[1] = "root"} :
        \A r \in RefsOf(bundle[p]) :
            (r \in DOMAIN bundle /\ r[2] \in DOMAIN files[p].defs) =>
                bundle[r].type = files[p].defs[r[2]].type

(* Every definition of a file of the namespace is the one of that name in  *)
(* the namespace of the bundle.                                            *)
\* The code does not keep this: see README.
NamespaceKeepsTypes ==
    Done => \A p \in {q \in DOMAIN files : q[1] = "v2"} :
        \A n \in DOMAIN files[p].defs :
            bundle[<<"v2", n>>].type = files[p].defs[n].type

\* The stable schema of a request lists its method and the members given.
StableAccepts(f, m, given) ==
    /\ \E v \in f.root.variants : v.method = m
    /\ given \subseteq f.defs[NameOf[ParamsOf[m]]].members

GateAgrees(methods) ==
    (Done /\ ~experimental) => \A p \in DOMAIN files :
        p[2] = "ClientRequest" =>
            \A m \in methods \cap tree.variants[files[p].root.type] :
                \A given \in SUBSET MembersOf[ParamsOf[m]] :
                    \A valued \in Valued(given) :
                        /\ StableAccepts(files[p], m, given) => ~experimental_reason(m, valued)
                        /\ ~experimental_reason(m, valued) => StableAccepts(files[p], m, valued)

Current == {m \in Methods : \A n \in DOMAIN StrippedIn : m \notin StrippedIn[n]}

(* The gate and the stable schema draw one line for params that are        *)
(* structs: a request the schema lists is never told that it needs the     *)
(* capability, and of one that passes without it the schema lists the      *)
(* method and all members but those given as null, false or empty.         *)
StructGateMatchesSchema ==
    GateAgrees({m \in Current : ParamsOf[m] \notin Enums})

(* The same for all params.                                                *)
\* The code does not keep this: see README.
GateMatchesSchema == GateAgrees(Current)
=============================================================================
